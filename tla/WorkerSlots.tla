----------------------------- MODULE WorkerSlots -----------------------------
(***************************************************************************)
(* What the pool promises each engine worker, and no more: at most         *)
(* Concurrency of its calls run there, a call waits only while all slots   *)
(* are taken, and a slot that is given up goes to a waiting call.  Which   *)
(* call waits where, and why calls come and go, is left open.  One event   *)
(* of the pool may touch several workers, so a step of the service is a    *)
(* step, or none, of every worker.                                         *)
(***************************************************************************)
EXTENDS Integers, FiniteSets

CONSTANTS Workers, Calls, Concurrency

VARIABLES running, waiting   \* sets of calls, by worker

vars == <<running, waiting>>

Init ==
  /\ running = [w \in Workers |-> {}]
  /\ waiting = [w \in Workers |-> {}]

Enter(w, c) ==
  /\ c \notin running[w] \union waiting[w]
  /\ IF Cardinality(running[w]) < Concurrency
     THEN running'[w] = running[w] \union {c} /\ waiting'[w] = waiting[w]
     ELSE waiting'[w] = waiting[w] \union {c} /\ running'[w] = running[w]

Leave(w, c) ==
  /\ c \in running[w]
  /\ IF waiting[w] = {}
     THEN running'[w] = running[w] \ {c} /\ waiting'[w] = {}
     ELSE \E d \in waiting[w] :
            /\ running'[w] = (running[w] \ {c}) \union {d}
            /\ waiting'[w] = waiting[w] \ {d}

GiveUp(w, c) ==
  /\ c \in waiting[w]
  /\ waiting'[w] = waiting[w] \ {c}
  /\ running'[w] = running[w]

Stay(w) == running'[w] = running[w] /\ waiting'[w] = waiting[w]

Next ==
  /\ DOMAIN running' = Workers /\ DOMAIN waiting' = Workers
  /\ \A w \in Workers :
       Stay(w) \/ \E c \in Calls : Enter(w, c) \/ Leave(w, c) \/ GiveUp(w, c)

Spec == Init /\ [][Next]_vars
=============================================================================
