------------------------------ MODULE Semaphore ------------------------------
(***************************************************************************)
(* The FIFO counting semaphore of api/src/services/engineClient.ts, as     *)
(* operators on its state.  One semaphore limits the calls that are in     *)
(* progress on one engine worker.                                          *)
(*                                                                         *)
(* A semaphore is a record: "free" and "waiters" are the fields of the     *)
(* class; "held" is the set of callers between the resolution of their     *)
(* acquire() and their release(), which the class does not store but the   *)
(* control flow of its callers does.                                       *)
(***************************************************************************)
EXTENDS Integers, Sequences, FiniteSets, SequencesExt

CONSTANT Concurrency    \* the size of every semaphore (ENGINE_CONCURRENCY)

ASSUME ConcurrencyAssumption == Concurrency \in Nat \ {0}

NewSemaphore == [free |-> Concurrency, held |-> {}, waiters |-> <<>>]

Holding(s, c) == c \in s.held
Waiting(s, c) == \E i \in 1..Len(s.waiters) : s.waiters[i] = c
Present(s, c) == Holding(s, c) \/ Waiting(s, c)

\* A caller takes a free slot, or queues behind the callers already waiting.
Acquire(s, c) ==
  IF s.free > 0
  THEN [s EXCEPT !.free = @ - 1, !.held = @ \union {c}]
  ELSE [s EXCEPT !.waiters = Append(@, c)]

\* A holder leaves: its slot goes straight to the longest-waiting caller, and
\* becomes free only when nobody waits.  (Faults: the slot is handed over and
\* freed as well; it is freed and not handed over.)
ReleaseAndFree(s, c) ==
  IF s.waiters = <<>>
  THEN [s EXCEPT !.free = @ + 1, !.held = @ \ {c}]
  ELSE [s EXCEPT !.free = @ + 1, !.waiters = Tail(@),
                 !.held = (@ \ {c}) \union {Head(s.waiters)}]
ReleaseToNobody(s, c) == [s EXCEPT !.free = @ + 1, !.held = @ \ {c}]
Release(s, c) ==
  IF s.waiters = <<>>
  THEN [s EXCEPT !.free = @ + 1, !.held = @ \ {c}]
  ELSE [s EXCEPT !.waiters = Tail(@),
                 !.held = (@ \ {c}) \union {Head(s.waiters)}]

\* The caller's signal aborts while it waits: it leaves the queue.  The abort
\* of a caller that does not wait changes nothing here.  (Fault: the newest
\* waiter leaves instead, as splice(-1, 1) would have it.)
CancelNewest(s, c) ==
  IF Waiting(s, c) THEN [s EXCEPT !.waiters = Front(@)] ELSE s
CancelWait(s, c) ==
  IF Waiting(s, c)
  THEN [s EXCEPT !.waiters =
          RemoveAt(@, CHOOSE i \in 1..Len(s.waiters) : s.waiters[i] = c)]
  ELSE s

-----------------------------------------------------------------------------
\* A slot is either free or held by exactly one caller, nobody waits while a
\* slot is free, and nobody waits twice or waits while holding.
SlotsConserved(s) ==
  /\ s.free + Cardinality(s.held) = Concurrency
  /\ s.free > 0 => s.waiters = <<>>
  /\ \A i \in 1..Len(s.waiters) : s.waiters[i] \notin s.held
  /\ \A i, j \in 1..Len(s.waiters) : s.waiters[i] = s.waiters[j] => i = j

Semaphores(Callers) ==
  [free : 0..Concurrency, held : SUBSET Callers, waiters : Seq(Callers)]

\* The callers that hold a slot or wait for one.
Load(s) == Cardinality(s.held) + Len(s.waiters)
=============================================================================
