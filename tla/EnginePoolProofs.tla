--------------------------- MODULE EnginePoolProofs ---------------------------
(***************************************************************************)
(* Safety of the dispatcher for any requests, workers, worker lists and    *)
(* settings: types, conservation of the slots, exactness of the two counts *)
(* that admission control and the strategies read, and what the dispatcher *)
(* owes its workers and its requests.                                      *)
(*                                                                         *)
(* SlotsOK alone is not inductive.  A call may only queue on a worker      *)
(* where the request has no call yet; that follows from Covered: a request *)
(* has calls only on workers that it has tried.                            *)
(***************************************************************************)
EXTENDS EnginePool, TLAPS, FiniteSetTheorems, SequenceTheorems

-----------------------------------------------------------------------------
(* What the three operations of the semaphore preserve and change, for any *)
(* number of slots and any set of callers.                                 *)

\* A caller that is not there yet joins: it takes a slot or queues.
LEMMA AcquireCorrect ==
  ASSUME NEW Callers, IsFiniteSet(Callers), NEW c \in Callers,
         NEW s \in Semaphores(Callers), SlotsConserved(s), ~Present(s, c)
  PROVE  /\ Acquire(s, c) \in Semaphores(Callers)
         /\ SlotsConserved(Acquire(s, c))
         /\ Load(Acquire(s, c)) = Load(s) + 1
         /\ \A d \in Callers : Present(Acquire(s, c), d) => Present(s, d) \/ d = c
<1> DEFINE t == Acquire(s, c)
<1>0. Concurrency \in Nat BY ConcurrencyAssumption
<1>1. /\ s.free \in 0..Concurrency /\ s.held \in SUBSET Callers /\ s.waiters \in Seq(Callers)
      /\ IsFiniteSet(s.held) /\ Cardinality(s.held) \in Nat /\ Len(s.waiters) \in Nat
  BY FS_Subset, FS_CardinalityType DEF Semaphores
<1>2. CASE s.free > 0
  <2>0. t = [free |-> s.free - 1, held |-> s.held \union {c}, waiters |-> s.waiters]
    BY <1>2 DEF Acquire, Semaphores
  <2>7. s.free - 1 \in 0..Concurrency BY <1>0, <1>1, <1>2
  <2>1. /\ t.free = s.free - 1 /\ t.held = s.held \union {c} /\ t.waiters = s.waiters
        /\ t \in Semaphores(Callers)
    BY <1>1, <2>0, <2>7 DEF Semaphores
  <2>2. c \notin s.held BY DEF Present, Holding
  <2>3. Cardinality(t.held) = Cardinality(s.held) + 1
    BY <1>1, <2>1, <2>2, FS_AddElement
  <2>4. s.waiters = <<>> BY <1>2 DEF SlotsConserved
  <2>5. SlotsConserved(t) BY <1>0, <1>1, <2>1, <2>3, <2>4 DEF SlotsConserved
  <2>6. \A d \in Callers : Present(t, d) => Present(s, d) \/ d = c
    BY <2>1, <2>4 DEF Present, Holding, Waiting
  <2> QED BY <1>1, <2>1, <2>3, <2>5, <2>6 DEF Load
<1>3. CASE ~(s.free > 0)
  <2>0. /\ t = [free |-> s.free, held |-> s.held, waiters |-> Append(s.waiters, c)]
        /\ Append(s.waiters, c) \in Seq(Callers)
    BY <1>1, <1>3 DEF Acquire, Semaphores
  <2>1. /\ t.free = s.free /\ t.held = s.held /\ t.waiters = Append(s.waiters, c)
        /\ t \in Semaphores(Callers)
    BY <1>1, <2>0 DEF Semaphores
  <2>2. /\ Len(t.waiters) = Len(s.waiters) + 1
        /\ \A i \in 1..Len(s.waiters) : t.waiters[i] = s.waiters[i]
        /\ t.waiters[Len(s.waiters) + 1] = c
    BY <1>1, <2>1
  <2>3. c \notin s.held /\ \A i \in 1..Len(s.waiters) : s.waiters[i] # c
    BY DEF Present, Holding, Waiting
  <2>4. SlotsConserved(t)
    <3>1. t.free + Cardinality(t.held) = Concurrency BY <2>1 DEF SlotsConserved
    <3>2. t.free > 0 => t.waiters = <<>> BY <1>3, <2>1
    <3>3. \A i \in 1..Len(t.waiters) : t.waiters[i] \notin t.held
      BY <1>1, <2>1, <2>2, <2>3 DEF SlotsConserved
    <3>4. \A i, j \in 1..Len(t.waiters) : t.waiters[i] = t.waiters[j] => i = j
      <4> SUFFICES ASSUME NEW i \in 1..Len(s.waiters) + 1, NEW j \in 1..Len(s.waiters) + 1,
                          t.waiters[i] = t.waiters[j]
                   PROVE  i = j
        BY <2>2
      <4>1. CASE i \in 1..Len(s.waiters) /\ j \in 1..Len(s.waiters)
        BY <2>2, <4>1 DEF SlotsConserved
      <4>2. CASE i = Len(s.waiters) + 1 /\ j \in 1..Len(s.waiters)
        BY <2>2, <2>3, <4>2
      <4>3. CASE i \in 1..Len(s.waiters) /\ j = Len(s.waiters) + 1
        BY <2>2, <2>3, <4>3
      <4> QED BY <1>1, <4>1, <4>2, <4>3
    <3> QED BY <3>1, <3>2, <3>3, <3>4 DEF SlotsConserved
  <2>5. \A d \in Callers : Present(t, d) => Present(s, d) \/ d = c
    BY <1>1, <2>1, <2>2 DEF Present, Holding, Waiting
  <2> QED BY <1>1, <2>1, <2>2, <2>4, <2>5 DEF Load
<1> QED BY <1>2, <1>3

\* A holder leaves: its slot becomes free or goes to the first in the queue.
LEMMA ReleaseCorrect ==
  ASSUME NEW Callers, IsFiniteSet(Callers), NEW c \in Callers,
         NEW s \in Semaphores(Callers), SlotsConserved(s), Holding(s, c)
  PROVE  /\ Release(s, c) \in Semaphores(Callers)
         /\ SlotsConserved(Release(s, c))
         /\ Load(Release(s, c)) = Load(s) - 1
         /\ \A d \in Callers : Present(Release(s, c), d) => Present(s, d) /\ d # c
<1> DEFINE t == Release(s, c)
<1>0. Concurrency \in Nat BY ConcurrencyAssumption
<1>1. /\ s.free \in 0..Concurrency /\ s.held \in SUBSET Callers /\ s.waiters \in Seq(Callers)
      /\ IsFiniteSet(s.held) /\ Cardinality(s.held) \in Nat /\ Len(s.waiters) \in Nat
  BY FS_Subset, FS_CardinalityType DEF Semaphores
<1>2. c \in s.held BY DEF Holding
<1>3. /\ IsFiniteSet(s.held \ {c})
      /\ Cardinality(s.held \ {c}) = Cardinality(s.held) - 1
      /\ Cardinality(s.held \ {c}) \in Nat
  BY <1>1, <1>2, FS_RemoveElement, FS_CardinalityType
<1>4. s.free + Cardinality(s.held) = Concurrency BY DEF SlotsConserved
<1>5. CASE s.waiters = <<>>
  <2>0. t = [free |-> s.free + 1, held |-> s.held \ {c}, waiters |-> s.waiters]
    BY <1>5 DEF Release, Semaphores
  <2>4. s.free + 1 \in 0..Concurrency BY <1>0, <1>1, <1>3, <1>4
  <2>1. /\ t.free = s.free + 1 /\ t.held = s.held \ {c} /\ t.waiters = <<>>
        /\ t \in Semaphores(Callers)
    BY <1>1, <1>5, <2>0, <2>4 DEF Semaphores
  <2>2. SlotsConserved(t) BY <1>0, <1>1, <1>3, <1>4, <2>1 DEF SlotsConserved
  <2>3. \A d \in Callers : Present(t, d) => Present(s, d) /\ d # c
    BY <2>1 DEF Present, Holding, Waiting
  <2> QED BY <1>1, <1>3, <1>5, <2>1, <2>2, <2>3 DEF Load
<1>6. CASE s.waiters # <<>>
  <2> DEFINE h == Head(s.waiters)
  <2>0. /\ h = s.waiters[1] /\ h \in Callers /\ Len(s.waiters) >= 1
        /\ Tail(s.waiters) \in Seq(Callers)
    BY <1>1, <1>6, HeadTailProperties
  <2>9. t = [free |-> s.free, held |-> (s.held \ {c}) \union {h}, waiters |-> Tail(s.waiters)]
    BY <1>1, <1>6 DEF Release, Semaphores
  <2> HIDE DEF h
  <2>1. /\ t.free = s.free /\ t.held = (s.held \ {c}) \union {h} /\ t.waiters = Tail(s.waiters)
        /\ h = s.waiters[1] /\ h \in Callers /\ Len(s.waiters) >= 1
        /\ t \in Semaphores(Callers)
    BY <1>1, <2>0, <2>9 DEF Semaphores
  <2>2. h \notin s.held BY <1>1, <2>1 DEF SlotsConserved
  <2>3. Cardinality(t.held) = Cardinality(s.held)
    <3>1. h \notin s.held \ {c} BY <2>2
    <3>2. Cardinality((s.held \ {c}) \union {h}) = Cardinality(s.held \ {c}) + 1
      BY <1>3, <3>1, FS_AddElement
    <3> QED BY <1>1, <1>3, <2>1, <3>2
  <2>4. /\ Len(t.waiters) = Len(s.waiters) - 1
        /\ \A i \in 1..Len(t.waiters) : t.waiters[i] = s.waiters[i + 1] /\ i + 1 \in 1..Len(s.waiters)
    BY <1>1, <1>6, <2>1
  <2>5. s.free = 0 BY <1>1, <1>6 DEF SlotsConserved
  <2>6. SlotsConserved(t)
    <3>1. \A i \in 1..Len(t.waiters) : t.waiters[i] # h
      BY <1>1, <2>1, <2>4 DEF SlotsConserved
    <3>2. \A i \in 1..Len(t.waiters) : t.waiters[i] \notin t.held
      BY <1>1, <2>1, <2>4, <3>1 DEF SlotsConserved
    <3>3. \A i, j \in 1..Len(t.waiters) : t.waiters[i] = t.waiters[j] => i = j
      <4> SUFFICES ASSUME NEW i \in 1..Len(t.waiters), NEW j \in 1..Len(t.waiters),
                          t.waiters[i] = t.waiters[j]
                   PROVE  i = j
        OBVIOUS
      <4>1. s.waiters[i + 1] = s.waiters[j + 1] BY <2>4
      <4>2. i + 1 = j + 1 BY <2>4, <4>1 DEF SlotsConserved
      <4> QED BY <1>1, <2>4, <4>2
    <3> QED BY <1>4, <2>1, <2>3, <2>5, <3>2, <3>3 DEF SlotsConserved
  <2>7. \A d \in Callers : Present(t, d) => Present(s, d) /\ d # c
    <3> SUFFICES ASSUME NEW d \in Callers, Present(t, d) PROVE Present(s, d) /\ d # c
      OBVIOUS
    <3>1. CASE d \in t.held
      BY <1>1, <1>2, <2>1, <2>2, <3>1 DEF Present, Holding, Waiting
    <3>2. CASE \E i \in 1..Len(t.waiters) : t.waiters[i] = d
      BY <1>1, <1>2, <2>4, <3>2 DEF Present, Waiting, SlotsConserved
    <3> QED BY <3>1, <3>2 DEF Present, Holding, Waiting
  <2> QED BY <1>1, <2>1, <2>3, <2>4, <2>6, <2>7 DEF Load
<1> QED BY <1>5, <1>6

\* What RemoveAt leaves of a sequence.
LEMMA RemoveAtCorrect ==
  ASSUME NEW S, NEW q \in Seq(S), NEW i \in 1..Len(q)
  PROVE  /\ RemoveAt(q, i) \in Seq(S)
         /\ Len(RemoveAt(q, i)) = Len(q) - 1
         /\ \A k \in 1..Len(q) - 1 : RemoveAt(q, i)[k] = IF k < i THEN q[k] ELSE q[k + 1]
<1> DEFINE a == SubSeq(q, 1, i - 1)
           b == SubSeq(q, i + 1, Len(q))
<1>1. a \in Seq(S) /\ Len(a) = i - 1 /\ \A k \in 1..i - 1 : a[k] = q[k] OBVIOUS
<1>2. /\ b \in Seq(S) /\ Len(b) = Len(q) - i
      /\ \A k \in 1..Len(q) - i : b[k] = q[k + i]
  OBVIOUS
<1>3. RemoveAt(q, i) = a \o b BY DEF RemoveAt
<1> HIDE DEF a, b
<1>4. Len(a \o b) = Len(q) - 1 /\ a \o b \in Seq(S)
  <2>1. Len(a \o b) = Len(a) + Len(b) /\ a \o b \in Seq(S) BY <1>1, <1>2, ConcatProperties
  <2> QED BY <1>1, <1>2, <2>1
<1>5. ASSUME NEW k \in 1..Len(q) - 1
      PROVE  (a \o b)[k] = IF k < i THEN q[k] ELSE q[k + 1]
  <2>1. CASE k < i BY <1>1, <1>2, <2>1, ConcatProperties
  <2>2. CASE k >= i
    <3>1. k - (i - 1) \in 1..Len(q) - i BY <2>2
    <3>2. (a \o b)[k] = b[k - (i - 1)] BY <1>1, <1>2, <2>2, <3>1, ConcatProperties
    <3>3. b[k - (i - 1)] = q[k - (i - 1) + i] BY <1>2, <3>1
    <3> QED BY <2>2, <3>2, <3>3
  <2> HIDE DEF a, b
  <2>3. k < i \/ k >= i OBVIOUS
  <2> QED BY <2>1, <2>2, <2>3
<1> QED BY <1>3, <1>4, <1>5

\* A waiting caller gives up: nobody else notices.
LEMMA CancelWaitCorrect ==
  ASSUME NEW Callers, IsFiniteSet(Callers), NEW c \in Callers,
         NEW s \in Semaphores(Callers), SlotsConserved(s)
  PROVE  /\ CancelWait(s, c) \in Semaphores(Callers)
         /\ SlotsConserved(CancelWait(s, c))
         /\ Load(CancelWait(s, c)) = Load(s) - (IF Waiting(s, c) THEN 1 ELSE 0)
         /\ Waiting(s, c) => Load(s) >= 1
         /\ CancelWait(s, c).held = s.held
         /\ \A d \in Callers : Present(CancelWait(s, c), d) => Present(s, d)
<1> DEFINE t == CancelWait(s, c)
<1>1. /\ s.free \in 0..Concurrency /\ s.held \in SUBSET Callers /\ s.waiters \in Seq(Callers)
      /\ IsFiniteSet(s.held) /\ Cardinality(s.held) \in Nat /\ Len(s.waiters) \in Nat
  BY FS_Subset, FS_CardinalityType DEF Semaphores
<1>2. CASE ~Waiting(s, c) BY <1>1, <1>2 DEF CancelWait, Load
<1>3. CASE Waiting(s, c)
  <2> DEFINE i == CHOOSE k \in 1..Len(s.waiters) : s.waiters[k] = c
  <2>1. i \in 1..Len(s.waiters) /\ s.waiters[i] = c BY <1>3 DEF Waiting
  <2>2. t = [s EXCEPT !.waiters = RemoveAt(@, i)] BY <1>3 DEF CancelWait
  <2> HIDE DEF i
  <2>3. /\ RemoveAt(s.waiters, i) \in Seq(Callers)
        /\ Len(RemoveAt(s.waiters, i)) = Len(s.waiters) - 1
        /\ \A k \in 1..Len(s.waiters) - 1 :
             RemoveAt(s.waiters, i)[k] = IF k < i THEN s.waiters[k] ELSE s.waiters[k + 1]
    BY <1>1, <2>1, RemoveAtCorrect
  <2>4. /\ t.free = s.free /\ t.held = s.held /\ t.waiters = RemoveAt(s.waiters, i)
        /\ t \in Semaphores(Callers)
    BY <1>1, <2>2, <2>3 DEF Semaphores
  <2>5. \A k \in 1..Len(t.waiters) :
          \E m \in 1..Len(s.waiters) : m = (IF k < i THEN k ELSE k + 1) /\ t.waiters[k] = s.waiters[m]
    BY <1>1, <2>1, <2>3, <2>4
  <2>6. SlotsConserved(t)
    <3>1. t.free > 0 => t.waiters = <<>>
      <4>1. s.waiters # <<>> BY <1>1, <2>1
      <4> QED BY <2>4, <4>1 DEF SlotsConserved
    <3>2. \A k \in 1..Len(t.waiters) : t.waiters[k] \notin t.held
      BY <2>4, <2>5 DEF SlotsConserved
    <3>3. \A k, l \in 1..Len(t.waiters) : t.waiters[k] = t.waiters[l] => k = l
      <4> SUFFICES ASSUME NEW k \in 1..Len(t.waiters), NEW l \in 1..Len(t.waiters),
                          t.waiters[k] = t.waiters[l]
                   PROVE  k = l
        OBVIOUS
      <4>1. (IF k < i THEN k ELSE k + 1) = (IF l < i THEN l ELSE l + 1)
        BY <2>5 DEF SlotsConserved
      <4> QED BY <1>1, <2>1, <2>3, <2>4, <4>1
    <3> QED BY <2>4, <3>1, <3>2, <3>3 DEF SlotsConserved
  <2>7. \A d \in Callers : Present(t, d) => Present(s, d)
    BY <2>4, <2>5 DEF Present, Holding, Waiting
  <2>8. Load(t) = Load(s) - 1 /\ Load(s) >= 1
    <3>1. Len(s.waiters) >= 1 /\ Len(t.waiters) = Len(s.waiters) - 1 BY <1>1, <2>1, <2>3, <2>4
    <3> QED BY <1>1, <2>4, <3>1 DEF Load
  <2> QED BY <1>3, <2>4, <2>6, <2>7, <2>8
<1> QED BY <1>2, <1>3

-----------------------------------------------------------------------------
(* The same operations as they change the set of holders and the set of those
   who wait, exactly. *)

\* To wait is to be in the queue.
LEMMA WaitingIsQueued ==
  ASSUME NEW Callers, NEW s \in Semaphores(Callers), NEW c
  PROVE  Waiting(s, c) <=> c \in ToSet(s.waiters)
<1>1. s.waiters \in Seq(Callers) /\ DOMAIN s.waiters = 1..Len(s.waiters)
  BY DEF Semaphores
<1> QED BY <1>1 DEF Waiting, ToSet

\* Who joins holds a slot if one is free, and waits if none is.
LEMMA AcquireEffect ==
  ASSUME NEW Callers, IsFiniteSet(Callers), NEW c \in Callers,
         NEW s \in Semaphores(Callers), SlotsConserved(s)
  PROVE  IF Cardinality(s.held) < Concurrency
         THEN /\ Acquire(s, c).held = s.held \union {c}
              /\ ToSet(Acquire(s, c).waiters) = ToSet(s.waiters)
         ELSE /\ Acquire(s, c).held = s.held
              /\ ToSet(Acquire(s, c).waiters) = ToSet(s.waiters) \union {c}
<1> DEFINE t == Acquire(s, c)
<1>0. Concurrency \in Nat BY ConcurrencyAssumption
<1>1. /\ s.free \in 0..Concurrency /\ s.held \in SUBSET Callers /\ s.waiters \in Seq(Callers)
      /\ Cardinality(s.held) \in Nat
      /\ s.free + Cardinality(s.held) = Concurrency
  BY FS_Subset, FS_CardinalityType DEF Semaphores, SlotsConserved
<1>2. CASE s.free > 0
  <2>1. t.held = s.held \union {c} /\ t.waiters = s.waiters
    BY <1>2 DEF Acquire, Semaphores
  <2> QED BY <1>0, <1>1, <1>2, <2>1
<1>3. CASE ~(s.free > 0)
  <2>1. t.held = s.held /\ t.waiters = Append(s.waiters, c)
    BY <1>3 DEF Acquire, Semaphores
  <2> DEFINE q == s.waiters
  <2>2. /\ DOMAIN q = 1..Len(q) /\ Len(q) \in Nat
        /\ DOMAIN Append(q, c) = 1..Len(q) + 1
        /\ Append(q, c)[Len(q) + 1] = c
        /\ \A i \in 1..Len(q) : Append(q, c)[i] = q[i]
    BY <1>1
  <2>3. 1..Len(q) + 1 = (1..Len(q)) \union {Len(q) + 1} BY <2>2
  <2>4. ToSet(Append(q, c)) = ToSet(q) \union {c}
    <3> HIDE DEF q
    <3> QED BY <2>2, <2>3 DEF ToSet
  <2>5. ~(Cardinality(s.held) < Concurrency) BY <1>0, <1>1, <1>3
  <2> QED BY <2>1, <2>4, <2>5
<1> QED BY <1>2, <1>3

\* Who leaves hands the slot to one of those who wait, if there is one.
LEMMA ReleaseEffect ==
  ASSUME NEW Callers, NEW c \in Callers,
         NEW s \in Semaphores(Callers), SlotsConserved(s)
  PROVE  IF ToSet(s.waiters) = {}
         THEN Release(s, c).held = s.held \ {c} /\ ToSet(Release(s, c).waiters) = {}
         ELSE \E d \in ToSet(s.waiters) :
                /\ Release(s, c).held = (s.held \ {c}) \union {d}
                /\ ToSet(Release(s, c).waiters) = ToSet(s.waiters) \ {d}
<1> DEFINE t == Release(s, c)
           q == s.waiters
<1>1. q \in Seq(Callers) /\ DOMAIN q = 1..Len(q) /\ Len(q) \in Nat BY DEF Semaphores
<1>2. CASE q = <<>>
  <2>1. t.held = s.held \ {c} /\ t.waiters = q BY <1>2 DEF Release, Semaphores
  <2>2. ToSet(q) = {}
    <3>1. DOMAIN q = {} BY <1>1, <1>2
    <3> QED BY <3>1 DEF ToSet
  <2> QED BY <2>1, <2>2
<1>3. CASE q # <<>>
  <2>1. t.held = (s.held \ {c}) \union {Head(q)} /\ t.waiters = Tail(q)
    BY <1>3 DEF Release, Semaphores
  <2>2. /\ Head(q) = q[1] /\ Len(q) >= 1
        /\ DOMAIN Tail(q) = 1..Len(q) - 1
        /\ \A i \in 1..Len(q) - 1 : Tail(q)[i] = q[i + 1]
    BY <1>1, <1>3
  <2>3. \A i, j \in 1..Len(q) : q[i] = q[j] => i = j BY DEF SlotsConserved
  <2> HIDE DEF q
  <2>4. q[1] \in ToSet(q) BY <1>1, <2>2 DEF ToSet
  <2>5. ToSet(Tail(q)) = ToSet(q) \ {q[1]}
    <3>1. ASSUME NEW d \in ToSet(Tail(q)) PROVE d \in ToSet(q) /\ d # q[1]
      <4>1. PICK i \in 1..Len(q) - 1 : d = q[i + 1] BY <2>2 DEF ToSet
      <4>2. i + 1 \in 1..Len(q) /\ 1 \in 1..Len(q) /\ i + 1 # 1 BY <1>1, <2>2
      <4> QED BY <1>1, <2>3, <4>1, <4>2 DEF ToSet
    <3>2. ASSUME NEW d \in ToSet(q), d # q[1] PROVE d \in ToSet(Tail(q))
      <4>1. PICK j \in 1..Len(q) : d = q[j] BY <1>1 DEF ToSet
      <4>2. j - 1 \in 1..Len(q) - 1 /\ j = (j - 1) + 1 BY <1>1, <3>2, <4>1
      <4>3. Tail(q)[j - 1] = q[j] BY <2>2, <4>2
      <4> QED BY <2>2, <4>1, <4>2, <4>3 DEF ToSet
    <3> QED BY <3>1, <3>2
  <2> QED BY <2>1, <2>2, <2>4, <2>5 DEF q
<1> QED BY <1>2, <1>3

\* Who gives up waiting leaves the queue; who does not wait changes nothing.
LEMMA CancelWaitEffect ==
  ASSUME NEW Callers, NEW c \in Callers,
         NEW s \in Semaphores(Callers), SlotsConserved(s)
  PROVE  /\ CancelWait(s, c).held = s.held
         /\ ToSet(CancelWait(s, c).waiters) = ToSet(s.waiters) \ {c}
<1> DEFINE t == CancelWait(s, c)
           q == s.waiters
<1>1. q \in Seq(Callers) /\ DOMAIN q = 1..Len(q) /\ Len(q) \in Nat BY DEF Semaphores
<1>2. CASE ~Waiting(s, c)
  <2>1. t = s BY <1>2 DEF CancelWait
  <2>2. c \notin ToSet(q) BY <1>2, WaitingIsQueued
  <2> QED BY <2>1, <2>2
<1>3. CASE Waiting(s, c)
  <2> DEFINE i == CHOOSE k \in 1..Len(q) : q[k] = c
             u == RemoveAt(q, i)
  <2>1. i \in 1..Len(q) /\ q[i] = c BY <1>3 DEF Waiting
  <2>2. t = [s EXCEPT !.waiters = u] BY <1>3 DEF CancelWait
  <2>3. t.held = s.held /\ t.waiters = u BY <2>2 DEF Semaphores
  <2>4. \A k, l \in 1..Len(q) : q[k] = q[l] => k = l BY DEF SlotsConserved
  <2> HIDE DEF i, q
  <2>5. /\ u \in Seq(Callers) /\ Len(u) = Len(q) - 1
        /\ \A k \in 1..Len(q) - 1 : u[k] = IF k < i THEN q[k] ELSE q[k + 1]
    BY <1>1, <2>1, RemoveAtCorrect
  <2>6. DOMAIN u = 1..Len(q) - 1 BY <2>5
  <2> HIDE DEF u
  <2>7. ASSUME NEW d \in ToSet(u) PROVE d \in ToSet(q) /\ d # c
    <3>1. PICK k \in 1..Len(q) - 1 : d = u[k] BY <2>6 DEF ToSet
    <3>2. PICK m \in 1..Len(q) : m # i /\ d = q[m]
      <4>1. CASE k < i BY <1>1, <2>1, <2>5, <3>1, <4>1
      <4>2. CASE ~(k < i)
        <5>1. k + 1 \in 1..Len(q) /\ k + 1 # i BY <1>1, <2>1, <4>2
        <5> QED BY <2>5, <3>1, <4>2, <5>1
      <4> QED BY <4>1, <4>2
    <3> QED BY <1>1, <2>1, <2>4, <3>2 DEF ToSet
  <2>8. ASSUME NEW d \in ToSet(q), d # c PROVE d \in ToSet(u)
    <3>1. PICK m \in 1..Len(q) : d = q[m] /\ m # i BY <1>1, <2>1, <2>8 DEF ToSet
    <3>2. \E k \in 1..Len(q) - 1 : u[k] = d
      <4>1. CASE m < i
        <5>1. m \in 1..Len(q) - 1 BY <1>1, <2>1, <4>1
        <5> QED BY <2>5, <3>1, <4>1, <5>1
      <4>2. CASE m > i
        <5>1. m - 1 \in 1..Len(q) - 1 /\ ~(m - 1 < i) /\ (m - 1) + 1 = m BY <1>1, <2>1, <4>2
        <5> QED BY <2>5, <3>1, <5>1
      <4>3. m < i \/ m > i BY <2>1, <3>1
      <4> QED BY <4>1, <4>2, <4>3
    <3> QED BY <2>6, <3>2 DEF ToSet
  <2> QED BY <2>3, <2>7, <2>8 DEF q
<1> QED BY <1>2, <1>3

-----------------------------------------------------------------------------
(* The dispatcher. *)

\* One worker: its semaphore x has a legal state and its outstanding count n is
\* the load of that semaphore.
Good(x, n) == x \in Semaphores(Calls) /\ SlotsConserved(x) /\ n = Load(x)
Balanced(s, o) == \A w \in Workers : Good(s[w], o[w])
Covered(s, q) == \A r \in Requests, w \in Workers : Present(s[w], <<r, w>>) => w \in q[r].tried

IInv == TypeOK /\ InFlightExact /\ Balanced(sem, outstanding) /\ Covered(sem, req)

LEMMA CallsFinite == IsFiniteSet(Calls)
BY PoolAssumption, FS_Product DEF Calls

\* The load of a semaphore is a natural number, positive while anyone is there.
LEMMA LoadType ==
  ASSUME NEW x \in Semaphores(Calls)
  PROVE  /\ Load(x) \in Nat
         /\ \A c \in Calls : Present(x, c) => Load(x) >= 1
<1>1. /\ IsFiniteSet(x.held) /\ Cardinality(x.held) \in Nat
      /\ x.waiters \in Seq(Calls) /\ Len(x.waiters) \in Nat
  BY CallsFinite, FS_Subset, FS_CardinalityType DEF Semaphores
<1>2. ASSUME NEW c \in Calls, Present(x, c) PROVE Load(x) >= 1
  <2>1. CASE Holding(x, c)
    <3>1. Cardinality(x.held) # 0 BY <1>1, <2>1, FS_EmptySet DEF Holding
    <3> QED BY <1>1, <3>1 DEF Load
  <2>2. CASE Waiting(x, c)
    <3>1. Len(x.waiters) >= 1 BY <1>1, <2>2 DEF Waiting
    <3> QED BY <1>1, <3>1 DEF Load
  <2> QED BY <1>2, <2>1, <2>2 DEF Present
<1> QED BY <1>1, <1>2 DEF Load

\* The three things that happen to one worker's semaphore and count.
LEMMA GoodAcquire ==
  ASSUME NEW x, NEW n, Good(x, n), NEW c \in Calls, ~Present(x, c)
  PROVE  /\ Good(Acquire(x, c), n + 1)
         /\ \A d \in Calls : Present(Acquire(x, c), d) => Present(x, d) \/ d = c
BY CallsFinite, AcquireCorrect DEF Good

LEMMA GoodRelease ==
  ASSUME NEW x, NEW n, Good(x, n), NEW c \in Calls, Holding(x, c)
  PROVE  /\ Good(Release(x, c), n - 1)
         /\ \A d \in Calls : Present(Release(x, c), d) => Present(x, d) /\ d # c
BY CallsFinite, ReleaseCorrect DEF Good

LEMMA GoodCancel ==
  ASSUME NEW x, NEW n, Good(x, n), NEW c \in Calls
  PROVE  /\ Good(CancelWait(x, c), n - (IF Waiting(x, c) THEN 1 ELSE 0))
         /\ \A d \in Calls : Present(CancelWait(x, c), d) => Present(x, d)
BY CallsFinite, CancelWaitCorrect DEF Good

\* What is good for every worker gives the types of sem and outstanding.
LEMMA BalancedType ==
  ASSUME NEW s, NEW o, Balanced(s, o)
  PROVE  \A w \in Workers : s[w] \in Semaphores(Calls) /\ o[w] \in Nat
BY LoadType DEF Balanced, Good

\* A call joins one worker, or leaves it.
LEMMA OneCallJoins ==
  ASSUME NEW s \in [Workers -> Semaphores(Calls)], NEW o \in [Workers -> Nat],
         NEW r \in Requests, NEW w \in Workers,
         Balanced(s, o), ~Present(s[w], <<r, w>>)
  PROVE  LET t == [s EXCEPT ![w] = Acquire(@, <<r, w>>)]
             p == [o EXCEPT ![w] = @ + 1]
         IN  /\ t \in [Workers -> Semaphores(Calls)] /\ p \in [Workers -> Nat]
             /\ Balanced(t, p)
             /\ \A q \in Requests, v \in Workers :
                  Present(t[v], <<q, v>>) => Present(s[v], <<q, v>>) \/ (q = r /\ v = w)
<1> DEFINE t == [s EXCEPT ![w] = Acquire(@, <<r, w>>)]
           p == [o EXCEPT ![w] = @ + 1]
<1>1. \A v \in Workers : t[v] = (IF v = w THEN Acquire(s[w], <<r, w>>) ELSE s[v])
                      /\ p[v] = (IF v = w THEN o[w] + 1 ELSE o[v])
  OBVIOUS
<1>2. <<r, w>> \in Calls BY DEF Calls
<1>3. /\ Good(Acquire(s[w], <<r, w>>), o[w] + 1)
      /\ \A d \in Calls : Present(Acquire(s[w], <<r, w>>), d) => Present(s[w], d) \/ d = <<r, w>>
  BY <1>2, GoodAcquire DEF Balanced
<1>4. Balanced(t, p) BY <1>1, <1>3 DEF Balanced
<1>5. \A v \in Workers : t[v] \in Semaphores(Calls) /\ p[v] \in Nat BY <1>4, BalancedType
<1>6. t \in [Workers -> Semaphores(Calls)] /\ p \in [Workers -> Nat] BY <1>5
<1>7. \A q \in Requests, v \in Workers :
        Present(t[v], <<q, v>>) => Present(s[v], <<q, v>>) \/ (q = r /\ v = w)
  BY <1>1, <1>3 DEF Calls
<1> QED BY <1>4, <1>6, <1>7

LEMMA OneCallLeaves ==
  ASSUME NEW s \in [Workers -> Semaphores(Calls)], NEW o \in [Workers -> Nat],
         NEW r \in Requests, NEW w \in Workers,
         Balanced(s, o), Holding(s[w], <<r, w>>)
  PROVE  LET t == [s EXCEPT ![w] = Release(@, <<r, w>>)]
             p == [o EXCEPT ![w] = @ - 1]
         IN  /\ t \in [Workers -> Semaphores(Calls)] /\ p \in [Workers -> Nat]
             /\ Balanced(t, p)
             /\ \A q \in Requests, v \in Workers :
                  Present(t[v], <<q, v>>) => Present(s[v], <<q, v>>)
<1> DEFINE t == [s EXCEPT ![w] = Release(@, <<r, w>>)]
           p == [o EXCEPT ![w] = @ - 1]
<1>1. \A v \in Workers : t[v] = (IF v = w THEN Release(s[w], <<r, w>>) ELSE s[v])
                      /\ p[v] = (IF v = w THEN o[w] - 1 ELSE o[v])
  OBVIOUS
<1>2. <<r, w>> \in Calls BY DEF Calls
<1>3. /\ Good(Release(s[w], <<r, w>>), o[w] - 1)
      /\ \A d \in Calls : Present(Release(s[w], <<r, w>>), d) => Present(s[w], d)
  BY <1>2, GoodRelease DEF Balanced
<1>4. Balanced(t, p) BY <1>1, <1>3 DEF Balanced
<1>5. \A v \in Workers : t[v] \in Semaphores(Calls) /\ p[v] \in Nat BY <1>4, BalancedType
<1>6. t \in [Workers -> Semaphores(Calls)] /\ p \in [Workers -> Nat]
  <2>1. DOMAIN t = Workers /\ DOMAIN p = Workers OBVIOUS
  <2> QED BY <1>5, <2>1
<1>7. \A q \in Requests, v \in Workers :
        Present(t[v], <<q, v>>) => Present(s[v], <<q, v>>)
  BY <1>1, <1>3 DEF Calls
<1> QED BY <1>4, <1>6, <1>7

-----------------------------------------------------------------------------
\* The in-flight count follows the set of pending requests.
Pending(q) == {r \in Requests : q[r].st = Trying}

LEMMA PendingChanges ==
  ASSUME NEW q, NEW p, NEW r \in Requests, \A u \in Requests \ {r} : p[u].st = q[u].st
  PROVE  /\ Cardinality(Pending(q)) \in Nat
         /\ p[r].st = q[r].st => Cardinality(Pending(p)) = Cardinality(Pending(q))
         /\ q[r].st # Trying /\ p[r].st = Trying =>
              Cardinality(Pending(p)) = Cardinality(Pending(q)) + 1
         /\ q[r].st # Trying /\ p[r].st # Trying =>
              Cardinality(Pending(p)) = Cardinality(Pending(q))
         /\ q[r].st = Trying /\ p[r].st # Trying =>
              /\ Cardinality(Pending(p)) = Cardinality(Pending(q)) - 1
              /\ Cardinality(Pending(p)) \in Nat
<1>1. /\ IsFiniteSet(Pending(q)) /\ Cardinality(Pending(q)) \in Nat
      /\ IsFiniteSet(Pending(p)) /\ Cardinality(Pending(p)) \in Nat
  BY PoolAssumption, FS_Subset, FS_CardinalityType DEF Pending
<1>2. p[r].st = q[r].st => Pending(p) = Pending(q) BY DEF Pending
<1>3. CASE q[r].st # Trying /\ p[r].st = Trying
  <2>1. Pending(p) = Pending(q) \union {r} /\ r \notin Pending(q) BY <1>3 DEF Pending
  <2> QED BY <1>1, <1>3, <2>1, FS_AddElement
<1>4. CASE q[r].st # Trying /\ p[r].st # Trying
  <2>1. Pending(p) = Pending(q) BY <1>4 DEF Pending
  <2> QED BY <1>1, <1>4, <2>1
<1>5. CASE q[r].st = Trying /\ p[r].st # Trying
  <2>1. Pending(p) = Pending(q) \ {r} /\ r \in Pending(q) BY <1>5 DEF Pending
  <2> QED BY <1>1, <1>5, <2>1, FS_RemoveElement
<1>6. CASE q[r].st = Trying /\ p[r].st = Trying BY <1>1, <1>2, <1>6
<1> QED BY <1>1, <1>2, <1>3, <1>4, <1>5, <1>6

\* tryOnce: from a state of semaphores, counts and request that is in order, a
\* try leads to one that is in order.  The request is then being tried.
LEMMA StartTryCorrect ==
  ASSUME TypeOK, NEW r \in Requests, NEW rq \in RequestStates,
         NEW s \in [Workers -> Semaphores(Calls)], NEW o \in [Workers -> Nat], NEW h,
         Balanced(s, o), Covered(s, [req EXCEPT ![r] = rq]),
         StartTry(r, rq, s, o, h)
  PROVE  /\ req' \in [Requests -> RequestStates]
         /\ sem' \in [Workers -> Semaphores(Calls)] /\ outstanding' \in [Workers -> Nat]
         /\ Balanced(sem', outstanding') /\ Covered(sem', req')
         /\ req'[r].st = Trying
         /\ \A u \in Requests \ {r} : req'[u] = req[u]
<1>1. PICK w \in Candidates(rq.tried, h) :
        /\ req' = [req EXCEPT ![r] =
                     [rq EXCEPT !.st = Trying, !.tried = @ \union {w}, !.timer = Hedging]]
        /\ sem' = [s EXCEPT ![w] = Acquire(@, <<r, w>>)]
        /\ outstanding' = [o EXCEPT ![w] = @ + 1]
  BY DEF StartTry
<1>2. w \in Workers /\ w \notin rq.tried BY DEF Candidates, TypeOK
<1>3. req \in [Requests -> RequestStates] /\ [req EXCEPT ![r] = rq][r] = rq BY DEF TypeOK
<1>4. ~Present(s[w], <<r, w>>) BY <1>2, <1>3 DEF Covered
<1>5. /\ sem' \in [Workers -> Semaphores(Calls)] /\ outstanding' \in [Workers -> Nat]
      /\ Balanced(sem', outstanding')
      /\ \A q \in Requests, v \in Workers :
           Present(sem'[v], <<q, v>>) => Present(s[v], <<q, v>>) \/ (q = r /\ v = w)
  BY <1>1, <1>2, <1>4, OneCallJoins
<1>6. [rq EXCEPT !.st = Trying, !.tried = @ \union {w}, !.timer = Hedging] \in RequestStates
  BY <1>2, PoolAssumption DEF RequestStates, Trying
<1>7. /\ req' \in [Requests -> RequestStates] /\ req'[r].st = Trying
      /\ req'[r].tried = rq.tried \union {w}
      /\ \A u \in Requests \ {r} : req'[u] = req[u]
  BY <1>1, <1>3, <1>6 DEF RequestStates
<1>8. Covered(sem', req') BY <1>3, <1>5, <1>7 DEF Covered
<1> QED BY <1>5, <1>7, <1>8

-----------------------------------------------------------------------------
LEMMA InitEstablishes == Init => IInv
<1> SUFFICES ASSUME Init PROVE IInv OBVIOUS
<1>1. Concurrency \in Nat BY ConcurrencyAssumption
<1>2. /\ NewSemaphore \in Semaphores(Calls)
      /\ NewSemaphore.waiters = <<>> /\ NewSemaphore.held = {} /\ NewSemaphore.free = Concurrency
  BY <1>1 DEF NewSemaphore, Semaphores
<1>3. Cardinality({}) = 0 BY FS_EmptySet
<1>4. Good(NewSemaphore, 0)
  BY <1>1, <1>2, <1>3 DEF Good, SlotsConserved, Load
<1>5. Balanced(sem, outstanding) BY <1>4 DEF Init, Balanced
<1>6. Covered(sem, req) BY <1>2 DEF Init, Covered, Present, Holding, Waiting
<1>7. InFlightExact
  <2>1. {r \in Requests : req[r].st = Trying} = {} BY DEF Init, NewRequest, Trying
  <2> QED BY <1>3, <2>1 DEF InFlightExact, Init
<1>8. NewRequest \in RequestStates BY DEF NewRequest, RequestStates
<1>9. TypeOK BY <1>2, <1>8, PoolAssumption DEF Init, TypeOK
<1> QED BY <1>5, <1>6, <1>7, <1>9 DEF IInv

\* route(): a refused request ...
LEMMA RejectKeeps == ASSUME IInv, NEW r \in Requests, Reject(r) PROVE IInv'
<1>1. /\ req' = [req EXCEPT ![r].st = "overloaded"]
      /\ req \in [Requests -> RequestStates] /\ req[r].st = "new"
  BY DEF Reject, IInv, TypeOK
<1>2. /\ req' \in [Requests -> RequestStates]
      /\ \A u \in Requests : req'[u].tried = req[u].tried
      /\ \A u \in Requests \ {r} : req'[u].st = req[u].st
      /\ req'[r].st = "overloaded"
  BY <1>1 DEF RequestStates, Settled
<1>3. InFlightExact'
  <2>1. Cardinality(Pending(req')) = Cardinality(Pending(req))
    BY <1>1, <1>2, PendingChanges DEF Trying
  <2> QED BY <2>1 DEF Reject, IInv, InFlightExact, Pending
<1>4. Balanced(sem, outstanding)' BY DEF Reject, workerVars, IInv, Balanced
<1>5. Covered(sem, req)' BY <1>2 DEF Reject, workerVars, IInv, Covered
<1>6. TypeOK' BY <1>2 DEF Reject, workerVars, poolVars, IInv, TypeOK
<1> QED BY <1>3, <1>4, <1>5, <1>6 DEF IInv

\* ... and an admitted one.
LEMMA AdmitKeeps == ASSUME IInv, NEW r \in Requests, Admit(r) PROVE IInv'
<1>1. /\ TypeOK /\ InFlightExact /\ Balanced(sem, outstanding) /\ Covered(sem, req)
      /\ req \in [Requests -> RequestStates] /\ req[r] \in RequestStates
      /\ sem \in [Workers -> Semaphores(Calls)] /\ outstanding \in [Workers -> Nat]
  BY DEF IInv, TypeOK
<1>2. [req EXCEPT ![r] = req[r]] = req BY <1>1
<1>3. StartTry(r, req[r], sem, outstanding, healthy) /\ req[r].st = "new" /\ inFlight' = inFlight + 1
  BY DEF Admit
<1>4. /\ req' \in [Requests -> RequestStates]
      /\ sem' \in [Workers -> Semaphores(Calls)] /\ outstanding' \in [Workers -> Nat]
      /\ Balanced(sem', outstanding') /\ Covered(sem', req')
      /\ req'[r].st = Trying /\ \A u \in Requests \ {r} : req'[u] = req[u]
  BY <1>1, <1>2, <1>3, StartTryCorrect
<1>5. InFlightExact'
  <2>1. Cardinality(Pending(req')) = Cardinality(Pending(req)) + 1
    BY <1>3, <1>4, PendingChanges DEF Trying
  <2> QED BY <1>1, <1>3, <2>1 DEF InFlightExact, Pending
<1>6. TypeOK' BY <1>1, <1>3, <1>4 DEF Admit, poolVars, TypeOK
<1> QED BY <1>4, <1>5, <1>6 DEF IInv

\* The hedge timer: no worker is left, or the duplicate is aborted from the
\* start, or it joins another worker.
LEMMA HedgeKeeps == ASSUME IInv, NEW r \in Requests, Hedge(r) PROVE IInv'
<1>1. /\ TypeOK /\ InFlightExact /\ Balanced(sem, outstanding) /\ Covered(sem, req)
      /\ req \in [Requests -> RequestStates] /\ req[r] \in RequestStates
      /\ sem \in [Workers -> Semaphores(Calls)] /\ outstanding \in [Workers -> Nat]
  BY DEF IInv, TypeOK
<1>2. UNCHANGED <<poolVars, healthy, failures, inFlight, aborted>> BY DEF Hedge
<1>3. ASSUME req' \in [Requests -> RequestStates], \A u \in Requests : req'[u].st = req[u].st
      PROVE  InFlightExact'
  BY <1>1, <1>2, <1>3 DEF InFlightExact
<1>4. CASE /\ req' = [req EXCEPT ![r].timer = FALSE]
           /\ UNCHANGED <<sem, outstanding>>
  <2>1. /\ req' \in [Requests -> RequestStates]
        /\ \A u \in Requests : req'[u].st = req[u].st /\ req'[u].tried = req[u].tried
    BY <1>1, <1>4 DEF RequestStates
  <2>2. Balanced(sem', outstanding') /\ Covered(sem', req') BY <1>1, <1>4, <2>1 DEF Covered
  <2>3. TypeOK' BY <1>1, <1>2, <1>4, <2>1 DEF TypeOK, poolVars
  <2> QED BY <1>3, <2>1, <2>2, <2>3 DEF IInv
<1>5. ASSUME NEW w \in Candidates(req[r].tried, healthy),
             req' = [req EXCEPT ![r].timer = FALSE, ![r].tried = @ \union {w}],
             IF req[r].timedOut
             THEN UNCHANGED <<sem, outstanding>>
             ELSE /\ sem' = [sem EXCEPT ![w] = Acquire(@, <<r, w>>)]
                  /\ outstanding' = [outstanding EXCEPT ![w] = @ + 1]
      PROVE  IInv'
  <2>1. w \in Workers /\ w \notin req[r].tried BY <1>1 DEF Candidates, TypeOK
  <2>2. /\ req' \in [Requests -> RequestStates]
        /\ \A u \in Requests : req'[u].st = req[u].st
        /\ \A u \in Requests : req[u].tried \subseteq req'[u].tried
        /\ w \in req'[r].tried
    BY <1>1, <1>5, <2>1 DEF RequestStates
  <2>3. ~Present(sem[w], <<r, w>>) BY <1>1, <2>1 DEF Covered
  <2>4. CASE UNCHANGED <<sem, outstanding>>
    <3>1. Balanced(sem', outstanding') /\ Covered(sem', req') BY <1>1, <2>2, <2>4 DEF Covered
    <3>2. TypeOK' BY <1>1, <1>2, <2>2, <2>4 DEF TypeOK, poolVars
    <3> QED BY <1>3, <2>2, <3>1, <3>2 DEF IInv
  <2>5. CASE /\ sem' = [sem EXCEPT ![w] = Acquire(@, <<r, w>>)]
             /\ outstanding' = [outstanding EXCEPT ![w] = @ + 1]
    <3>1. /\ sem' \in [Workers -> Semaphores(Calls)] /\ outstanding' \in [Workers -> Nat]
          /\ Balanced(sem', outstanding')
          /\ \A q \in Requests, v \in Workers :
               Present(sem'[v], <<q, v>>) => Present(sem[v], <<q, v>>) \/ (q = r /\ v = w)
      BY <1>1, <2>1, <2>3, <2>5, OneCallJoins
    <3>2. Covered(sem', req') BY <1>1, <2>2, <3>1 DEF Covered
    <3>3. TypeOK' BY <1>1, <1>2, <2>2, <3>1 DEF TypeOK, poolVars
    <3> QED BY <1>3, <2>2, <3>1, <3>2, <3>3 DEF IInv
  <2> QED BY <1>5, <2>4, <2>5
<1> QED BY <1>4, <1>5 DEF Hedge

\* Aborting the queued calls of a request, on every worker of a set.
LEMMA AbortKeepsBalance ==
  ASSUME NEW r \in Requests, NEW w \in Workers, Good(sem[w], outstanding[w])
  PROVE  /\ Good(SemAfterAbort(r, w), OutstandingAfterAbort(r, w))
         /\ \A q \in Requests : Present(SemAfterAbort(r, w), <<q, w>>) => Present(sem[w], <<q, w>>)
BY GoodCancel DEF SemAfterAbort, OutstandingAfterAbort, Calls

\* The request's timeout.
LEMMA TimeoutKeeps == ASSUME IInv, NEW r \in Requests, Timeout(r) PROVE IInv'
<1>1. /\ TypeOK /\ InFlightExact /\ Balanced(sem, outstanding) /\ Covered(sem, req)
      /\ req \in [Requests -> RequestStates] /\ req[r].st = Trying
  BY DEF IInv, TypeOK, Timeout
<1>2. /\ sem' = [w \in Workers |-> SemAfterAbort(r, w)]
      /\ outstanding' = [w \in Workers |-> OutstandingAfterAbort(r, w)]
  BY DEF Timeout
<1>3. /\ Balanced(sem', outstanding')
      /\ \A q \in Requests, v \in Workers : Present(sem'[v], <<q, v>>) => Present(sem[v], <<q, v>>)
  BY <1>1, <1>2, AbortKeepsBalance DEF Balanced
<1>4. sem' \in [Workers -> Semaphores(Calls)] /\ outstanding' \in [Workers -> Nat]
  <2>1. \A w \in Workers : sem'[w] \in Semaphores(Calls) /\ outstanding'[w] \in Nat
    BY <1>3, BalancedType
  <2> QED BY <1>2, <2>1
<1>5. aborted' \in [Calls -> {"no", "timeout", "hedgeLost"}]
  BY <1>1 DEF Timeout, AbortedCalls, TypeOK
<1>6. /\ req' \in [Requests -> RequestStates]
      /\ \A u \in Requests : req'[u].tried = req[u].tried
      /\ \A u \in Requests \ {r} : req'[u].st = req[u].st
      /\ \/ req'[r].st = req[r].st /\ inFlight' = inFlight
         \/ req'[r].st # Trying /\ inFlight' = inFlight - 1
  <2>1. CASE \E w \in Workers : Holding(sem[w], <<r, w>>)
    <3>1. req' = [req EXCEPT ![r].timedOut = TRUE] /\ inFlight' = inFlight
      BY <2>1 DEF Timeout
    <3> QED BY <1>1, <3>1 DEF RequestStates
  <2>2. CASE ~\E w \in Workers : Holding(sem[w], <<r, w>>)
    <3>1. /\ req' = [req EXCEPT ![r].timedOut = TRUE, ![r].st = "unavailable", ![r].timer = FALSE]
          /\ inFlight' = inFlight - 1
      BY <2>2 DEF Timeout
    <3> QED BY <1>1, <3>1 DEF RequestStates, Settled, Trying
  <2> QED BY <2>1, <2>2
<1>7. Covered(sem', req') BY <1>1, <1>3, <1>6 DEF Covered
<1>8. InFlightExact' /\ inFlight' \in Nat
  <2>1. inFlight = Cardinality(Pending(req)) BY <1>1 DEF InFlightExact, Pending
  <2>2. inFlight' = Cardinality(Pending(req')) /\ inFlight' \in Nat
    BY <1>1, <1>6, <2>1, PendingChanges
  <2> QED BY <2>2 DEF InFlightExact, Pending
<1>9. TypeOK' BY <1>1, <1>4, <1>5, <1>6, <1>8 DEF Timeout, poolVars, TypeOK
<1> QED BY <1>3, <1>7, <1>8, <1>9 DEF IInv

\* A call returns a result: it leaves its worker, and if it settles its request
\* the queued calls of the request on other workers go.
LEMMA CallSucceedsKeeps ==
  ASSUME IInv, NEW r \in Requests, NEW w \in Workers, CallSucceeds(r, w) PROVE IInv'
<1> DEFINE losers == Losers(r, w)
<1>1. /\ TypeOK /\ InFlightExact /\ Balanced(sem, outstanding) /\ Covered(sem, req)
      /\ req \in [Requests -> RequestStates] /\ Holding(sem[w], <<r, w>>)
  BY DEF IInv, TypeOK, CallSucceeds
<1>2. /\ sem' = [v \in Workers |->
                   IF v = w THEN Release(sem[w], <<r, w>>)
                   ELSE IF v \in losers THEN SemAfterAbort(r, v) ELSE sem[v]]
      /\ outstanding' = [v \in Workers |->
                   IF v = w THEN outstanding[w] - 1
                   ELSE IF v \in losers THEN OutstandingAfterAbort(r, v)
                   ELSE outstanding[v]]
      /\ failures' = [failures EXCEPT ![w] = 0]
      /\ aborted' = AbortedCalls(r, losers, "hedgeLost")
      /\ IF req[r].st = Trying THEN Settle(r, "ok") ELSE UNCHANGED <<req, inFlight>>
      /\ UNCHANGED <<poolVars, healthy>>
  BY DEF CallSucceeds
<1> HIDE DEF losers
<1>3. ASSUME NEW v \in Workers
      PROVE  /\ Good(sem'[v], outstanding'[v])
             /\ \A q \in Requests : Present(sem'[v], <<q, v>>) => Present(sem[v], <<q, v>>)
  <2>1. Good(sem[v], outstanding[v]) BY <1>1 DEF Balanced
  <2>2. CASE v = w
    <3>1. sem'[v] = Release(sem[v], <<r, v>>) /\ outstanding'[v] = outstanding[v] - 1
      BY <1>2, <2>2
    <3>2. Holding(sem[v], <<r, v>>) BY <1>1, <2>2
    <3> HIDE <1>2
    <3> QED BY <2>1, <3>1, <3>2, GoodRelease DEF Calls
  <2>3. CASE v # w /\ v \in losers
    BY <1>2, <2>1, <2>3, AbortKeepsBalance
  <2>4. CASE v # w /\ v \notin losers
    BY <1>2, <2>1, <2>4
  <2> QED BY <2>2, <2>3, <2>4
<1>4. sem' \in [Workers -> Semaphores(Calls)] /\ outstanding' \in [Workers -> Nat]
  <2>1. \A v \in Workers : sem'[v] \in Semaphores(Calls) /\ outstanding'[v] \in Nat
    BY <1>3, LoadType DEF Good
  <2> QED BY <1>2, <2>1
<1>5. aborted' \in [Calls -> {"no", "timeout", "hedgeLost"}]
  BY <1>1, <1>2 DEF AbortedCalls, TypeOK
<1>6. /\ req' \in [Requests -> RequestStates]
      /\ \A u \in Requests : req'[u].tried = req[u].tried
      /\ \A u \in Requests \ {r} : req'[u].st = req[u].st
      /\ \/ req'[r].st = req[r].st /\ inFlight' = inFlight
         \/ req[r].st = Trying /\ req'[r].st # Trying /\ inFlight' = inFlight - 1
  <2>1. CASE req[r].st = Trying
    <3>1. req' = [req EXCEPT ![r].st = "ok", ![r].timer = FALSE] /\ inFlight' = inFlight - 1
      BY <1>2, <2>1 DEF Settle
    <3> QED BY <1>1, <2>1, <3>1 DEF RequestStates, Settled, Trying
  <2>2. CASE req[r].st # Trying
    <3>1. req' = req /\ inFlight' = inFlight BY <1>2, <2>2
    <3> QED BY <1>1, <3>1
  <2> QED BY <2>1, <2>2
<1>7. Covered(sem', req') BY <1>1, <1>3, <1>6 DEF Covered
<1>8. InFlightExact' /\ inFlight' \in Nat
  <2>1. inFlight = Cardinality(Pending(req)) BY <1>1 DEF InFlightExact, Pending
  <2>2. inFlight' = Cardinality(Pending(req')) /\ inFlight' \in Nat
    BY <1>1, <1>6, <2>1, PendingChanges
  <2> QED BY <2>2 DEF InFlightExact, Pending
<1>9. TypeOK' BY <1>1, <1>2, <1>4, <1>5, <1>6, <1>8 DEF poolVars, TypeOK
<1> QED BY <1>3, <1>7, <1>8, <1>9 DEF IInv, Balanced

\* A call fails: it leaves its worker; then a retry, the end of the request, or
\* neither.
LEMMA CallFailsKeeps ==
  ASSUME IInv, NEW r \in Requests, NEW w \in Workers,
         NEW kind \in {"invalid", "unavailable"}, CallFails(r, w, kind)
  PROVE  IInv'
<1> DEFINE released == [sem EXCEPT ![w] = Release(@, <<r, w>>)]
           left     == [outstanding EXCEPT ![w] = @ - 1]
           retried  == [req[r] EXCEPT !.attempt = @ + 1]
<1>1. /\ TypeOK /\ InFlightExact /\ Balanced(sem, outstanding) /\ Covered(sem, req)
      /\ req \in [Requests -> RequestStates] /\ req[r] \in RequestStates
      /\ sem \in [Workers -> Semaphores(Calls)] /\ outstanding \in [Workers -> Nat]
      /\ Holding(sem[w], <<r, w>>)
  BY DEF IInv, TypeOK, CallFails
<1>2. /\ released \in [Workers -> Semaphores(Calls)] /\ left \in [Workers -> Nat]
      /\ Balanced(released, left)
      /\ \A q \in Requests, v \in Workers :
           Present(released[v], <<q, v>>) => Present(sem[v], <<q, v>>)
  BY <1>1, OneCallLeaves
<1>3. failures' \in [Workers -> Nat] /\ healthy' \in [Workers -> BOOLEAN]
  BY <1>1 DEF CallFails, FailuresAfter, HealthyAfter, TypeOK
<1>4. /\ \/ req[r].st = Trying /\ StartTry(r, retried, released, left, healthy') /\ inFlight' = inFlight
         \/ /\ sem' = released /\ outstanding' = left
            /\ \/ req[r].st = Trying /\ Settle(r, kind)
               \/ UNCHANGED <<req, inFlight>>
      /\ UNCHANGED <<poolVars, aborted>>
  BY DEF CallFails, Decides
<1> HIDE DEF released, left
<1>5. CASE req[r].st = Trying /\ StartTry(r, retried, released, left, healthy') /\ inFlight' = inFlight
  <2>1. /\ retried \in RequestStates /\ retried.tried = req[r].tried
    BY <1>1 DEF RequestStates
  <2> HIDE DEF retried
  <2>2. \A u \in Requests : [req EXCEPT ![r] = retried][u].tried = req[u].tried
    BY <1>1, <2>1
  <2>3. Covered(released, [req EXCEPT ![r] = retried]) BY <1>1, <1>2, <2>2 DEF Covered
  <2>4. /\ req' \in [Requests -> RequestStates]
        /\ sem' \in [Workers -> Semaphores(Calls)] /\ outstanding' \in [Workers -> Nat]
        /\ Balanced(sem', outstanding') /\ Covered(sem', req')
        /\ req'[r].st = Trying /\ \A u \in Requests \ {r} : req'[u] = req[u]
    BY <1>1, <1>2, <1>5, <2>1, <2>3, StartTryCorrect
  <2>5. InFlightExact'
    <3>1. Cardinality(Pending(req')) = Cardinality(Pending(req))
      BY <1>5, <2>4, PendingChanges
    <3> QED BY <1>1, <1>5, <3>1 DEF InFlightExact, Pending
  <2>6. TypeOK' BY <1>1, <1>3, <1>4, <1>5, <2>4 DEF poolVars, TypeOK
  <2> QED BY <2>4, <2>5, <2>6 DEF IInv
<1>6. CASE /\ sem' = released /\ outstanding' = left
           /\ \/ req[r].st = Trying /\ Settle(r, kind)
              \/ UNCHANGED <<req, inFlight>>
  <2>1. /\ req' \in [Requests -> RequestStates]
        /\ \A u \in Requests : req'[u].tried = req[u].tried
        /\ \A u \in Requests \ {r} : req'[u].st = req[u].st
        /\ \/ req'[r].st = req[r].st /\ inFlight' = inFlight
           \/ req[r].st = Trying /\ req'[r].st # Trying /\ inFlight' = inFlight - 1
    <3>1. CASE req[r].st = Trying /\ Settle(r, kind)
      <4>1. req' = [req EXCEPT ![r].st = kind, ![r].timer = FALSE] /\ inFlight' = inFlight - 1
        BY <3>1 DEF Settle
      <4> QED BY <1>1, <3>1, <4>1 DEF RequestStates, Settled, Trying
    <3>2. CASE UNCHANGED <<req, inFlight>> BY <1>1, <3>2
    <3> QED BY <1>6, <3>1, <3>2
  <2>2. /\ Balanced(sem', outstanding') /\ sem' \in [Workers -> Semaphores(Calls)]
        /\ outstanding' \in [Workers -> Nat]
        /\ Covered(sem', req')
    BY <1>1, <1>2, <1>6, <2>1 DEF Covered
  <2>3. InFlightExact' /\ inFlight' \in Nat
    <3>1. inFlight = Cardinality(Pending(req)) BY <1>1 DEF InFlightExact, Pending
    <3>2. inFlight' = Cardinality(Pending(req')) /\ inFlight' \in Nat
      BY <1>1, <2>1, <3>1, PendingChanges DEF TypeOK
    <3> QED BY <3>2 DEF InFlightExact, Pending
  <2>4. TypeOK' BY <1>1, <1>3, <1>4, <2>1, <2>2, <2>3 DEF poolVars, TypeOK
  <2> QED BY <2>2, <2>3, <2>4 DEF IInv
<1> QED BY <1>4, <1>5, <1>6

\* Health checks and the worker list touch no request and no semaphore.
LEMMA EnvironmentKeeps ==
  ASSUME IInv,
         \/ \E w \in Workers : HealthPass(w) \/ HealthFail(w)
         \/ \E urls \in NewLists : SetWorkers(urls)
  PROVE  IInv'
<1>1. UNCHANGED <<sem, outstanding, inFlight, req, aborted>>
  BY DEF HealthPass, HealthFail, SetWorkers, workerVars
<1>2. /\ healthy' \in [Workers -> BOOLEAN] /\ failures' \in [Workers -> Nat]
      /\ pool' \in SUBSET Workers /\ joined' \in SUBSET Workers /\ pool' \subseteq joined'
  <2>1. TypeOK BY DEF IInv
  <2>2. CASE \E w \in Workers : HealthPass(w) \/ HealthFail(w)
    <3>1. PICK w \in Workers : HealthPass(w) \/ HealthFail(w) BY <2>2
    <3>2. pool' = pool /\ joined' = joined BY <3>1 DEF HealthPass, HealthFail, poolVars
    <3>3. healthy' \in [Workers -> BOOLEAN]
      BY <2>1, <3>1 DEF TypeOK, HealthPass, HealthFail
    <3>4. failures' \in [Workers -> Nat]
      <4>1. CASE HealthPass(w)
        <5>1. (IF healthy[w] THEN failures[w] ELSE 0) \in Nat BY <2>1 DEF TypeOK
        <5> QED BY <2>1, <4>1, <5>1 DEF TypeOK, HealthPass
      <4>2. CASE HealthFail(w) BY <2>1, <4>2 DEF TypeOK, HealthFail
      <4> QED BY <3>1, <4>1, <4>2
    <3> QED BY <2>1, <3>2, <3>3, <3>4 DEF TypeOK
  <2>3. CASE \E urls \in NewLists : SetWorkers(urls)
    BY <2>1, <2>3 DEF TypeOK, SetWorkers, workerVars
  <2> QED BY <2>2, <2>3
<1> QED BY <1>1, <1>2 DEF IInv, TypeOK, InFlightExact, Balanced, Covered

LEMMA NextKeeps == IInv /\ [Next]_vars => IInv'
<1> SUFFICES ASSUME IInv, [Next]_vars PROVE IInv' OBVIOUS
<1>1. CASE UNCHANGED vars
  BY <1>1 DEF vars, poolVars, workerVars, IInv, TypeOK, InFlightExact, Balanced, Covered
<1>2. CASE Next
  BY <1>2, RejectKeeps, AdmitKeeps, HedgeKeeps, TimeoutKeeps, CallSucceedsKeeps, CallFailsKeeps,
     EnvironmentKeeps
  DEF Next
<1> QED BY <1>1, <1>2

LEMMA Invariance == Spec => []IInv
BY InitEstablishes, NextKeeps, PTL DEF Spec

\* Every variable keeps its type; in particular no counter goes below zero.
THEOREM TypeCorrect == Spec => []TypeOK
<1>1. IInv => TypeOK BY DEF IInv
<1> QED BY <1>1, Invariance, PTL

\* No slot of any worker is ever lost or made twice (attempt's finally blocks).
THEOREM SlotsNeverLeak == Spec => []SlotsOK
<1>1. IInv => SlotsOK BY DEF IInv, Balanced, Good, SlotsOK
<1> QED BY <1>1, Invariance, PTL

\* The load figure that the strategies compare never drifts.
THEOREM OutstandingNeverDrifts == Spec => []OutstandingExact
<1>1. IInv => OutstandingExact BY DEF IInv, Balanced, Good, OutstandingExact
<1> QED BY <1>1, Invariance, PTL

\* The count that admission control compares is exact, so the queue allowance
\* never leaks away and never grows.
THEOREM InFlightNeverDrifts == Spec => []InFlightExact
<1>1. IInv => InFlightExact BY DEF IInv
<1> QED BY <1>1, Invariance, PTL

-----------------------------------------------------------------------------
(* What the dispatcher owes its two sides: to the workers the promise of   *)
(* WorkerSlots, to each request an answer that can still come, no work     *)
(* after it, and no new call after the timeout.                            *)
(*                                                                         *)
(* The invariant above says how MANY calls a worker has.  Here it matters  *)
(* WHICH: every action is described by what it does to the calls of the    *)
(* request it acts for (Joins, Leaves, Cancels at the workers it touches); *)
(* to the calls of every other request it does nothing, save that a        *)
(* waiting one may get a slot (Bystander).                                 *)

\* How a worker's semaphore changes from x to y when a call c enters, leaves,
\* or stops waiting; only a call that leaves loses its slot.
KeepsSlots(x, y) == \A d \in Calls : Holding(x, d) => Holding(y, d)
Joins(x, y, c) ==
  /\ \A d \in Calls : Present(y, d) <=> Present(x, d) \/ d = c
  /\ KeepsSlots(x, y)
Leaves(x, y, c) ==
  \A d \in Calls :
    /\ Present(y, d) <=> Present(x, d) /\ d # c
    /\ Holding(x, d) /\ d # c => Holding(y, d)
Cancels(x, y, c) ==
  /\ \A d \in Calls \ {c} : Present(y, d) <=> Present(x, d)
  /\ Present(y, c) <=> Holding(x, c)
  /\ KeepsSlots(x, y)

\* A step of WorkerSlots at one worker, read off the semaphore.
SlotStep(x, y) ==
  LET qx == ToSet(x.waiters)
      qy == ToSet(y.waiters)
  IN  \/ y.held = x.held /\ qy = qx
      \/ \E c \in Calls :
           \/ /\ c \notin x.held \union qx
              /\ IF Cardinality(x.held) < Concurrency
                 THEN y.held = x.held \union {c} /\ qy = qx
                 ELSE qy = qx \union {c} /\ y.held = x.held
           \/ /\ c \in x.held
              /\ IF qx = {}
                 THEN y.held = x.held \ {c} /\ qy = {}
                 ELSE \E d \in qx : y.held = (x.held \ {c}) \union {d} /\ qy = qx \ {d}
           \/ c \in qx /\ qy = qx \ {c} /\ y.held = x.held

\* Presence, in terms of the two sets.
LEMMA PresentIsMember ==
  ASSUME NEW x \in Semaphores(Calls), NEW c
  PROVE  /\ Present(x, c) <=> c \in x.held \/ c \in ToSet(x.waiters)
         /\ Waiting(x, c) <=> c \in ToSet(x.waiters)
         /\ ToSet(x.waiters) \subseteq Calls
<1>1. Waiting(x, c) <=> c \in ToSet(x.waiters) BY WaitingIsQueued
<1>2. ToSet(x.waiters) \subseteq Calls
  <2>1. x.waiters \in Seq(Calls) BY DEF Semaphores
  <2>2. \A i \in DOMAIN x.waiters : x.waiters[i] \in Calls BY <2>1
  <2> QED BY <2>2 DEF ToSet
<1> QED BY <1>1, <1>2 DEF Present, Holding

\* The three operations, each as a change of the calls and as a slot step.
LEMMA AcquireJoins ==
  ASSUME NEW x, NEW n, Good(x, n), NEW c \in Calls, ~Present(x, c)
  PROVE  Joins(x, Acquire(x, c), c) /\ SlotStep(x, Acquire(x, c))
<1> DEFINE y == Acquire(x, c)
<1>1. /\ x \in Semaphores(Calls) /\ SlotsConserved(x) /\ IsFiniteSet(Calls)
      /\ y \in Semaphores(Calls)
  BY CallsFinite, AcquireCorrect DEF Good
<1>2. IF Cardinality(x.held) < Concurrency
      THEN y.held = x.held \union {c} /\ ToSet(y.waiters) = ToSet(x.waiters)
      ELSE y.held = x.held /\ ToSet(y.waiters) = ToSet(x.waiters) \union {c}
  BY <1>1, AcquireEffect
<1> HIDE DEF y
<1>3. SlotStep(x, y) BY <1>1, <1>2, PresentIsMember DEF SlotStep
<1>4. \A d \in Calls : Present(y, d) <=> Present(x, d) \/ d = c
  BY <1>1, <1>2, PresentIsMember
<1>5. KeepsSlots(x, y) BY <1>2 DEF KeepsSlots, Holding
<1> QED BY <1>3, <1>4, <1>5 DEF Joins, y

LEMMA ReleaseLeaves ==
  ASSUME NEW x, NEW n, Good(x, n), NEW c \in Calls, Holding(x, c)
  PROVE  Leaves(x, Release(x, c), c) /\ SlotStep(x, Release(x, c))
<1> DEFINE y == Release(x, c)
<1>1. /\ x \in Semaphores(Calls) /\ SlotsConserved(x) /\ c \in x.held
      /\ y \in Semaphores(Calls)
  BY CallsFinite, ReleaseCorrect DEF Good, Holding
<1>2. IF ToSet(x.waiters) = {}
      THEN y.held = x.held \ {c} /\ ToSet(y.waiters) = {}
      ELSE \E d \in ToSet(x.waiters) :
             y.held = (x.held \ {c}) \union {d} /\ ToSet(y.waiters) = ToSet(x.waiters) \ {d}
  BY <1>1, ReleaseEffect
<1>3. c \notin ToSet(x.waiters)
  <2>1. DOMAIN x.waiters = 1..Len(x.waiters) BY <1>1 DEF Semaphores
  <2> QED BY <1>1, <2>1 DEF SlotsConserved, ToSet
<1> HIDE DEF y
<1>4. SlotStep(x, y) BY <1>1, <1>2 DEF SlotStep
<1>5. ASSUME NEW d \in Calls
      PROVE  /\ Present(y, d) <=> Present(x, d) /\ d # c
             /\ Holding(x, d) /\ d # c => Holding(y, d)
  BY <1>1, <1>2, <1>3, PresentIsMember DEF Holding
<1> QED BY <1>4, <1>5 DEF Leaves, y

LEMMA CancelCancels ==
  ASSUME NEW x, NEW n, Good(x, n), NEW c \in Calls
  PROVE  Cancels(x, CancelWait(x, c), c) /\ SlotStep(x, CancelWait(x, c))
<1> DEFINE y == CancelWait(x, c)
<1>1. /\ x \in Semaphores(Calls) /\ SlotsConserved(x) /\ y \in Semaphores(Calls)
  BY CallsFinite, CancelWaitCorrect DEF Good
<1>2. y.held = x.held /\ ToSet(y.waiters) = ToSet(x.waiters) \ {c}
  BY <1>1, CancelWaitEffect
<1> HIDE DEF y
<1>3. SlotStep(x, y)
  <2>1. CASE c \in ToSet(x.waiters) BY <1>2, <2>1 DEF SlotStep
  <2>2. CASE c \notin ToSet(x.waiters) BY <1>2, <2>2 DEF SlotStep
  <2> QED BY <2>1, <2>2
<1>4. \A d \in Calls \ {c} : Present(y, d) <=> Present(x, d)
  BY <1>1, <1>2, PresentIsMember
<1>5. Present(y, c) <=> Holding(x, c) BY <1>1, <1>2, PresentIsMember DEF Holding
<1>6. KeepsSlots(x, y) BY <1>2 DEF KeepsSlots, Holding
<1> QED BY <1>3, <1>4, <1>5, <1>6 DEF Cancels, y

-----------------------------------------------------------------------------
\* A step for the calls of r, at every worker.
Touches(r, x, y, v) ==
  \/ y = x
  \/ Joins(x, y, <<r, v>>)
  \/ Leaves(x, y, <<r, v>>)
  \/ Cancels(x, y, <<r, v>>)
ActsFor(r) ==
  \A v \in Workers : SlotStep(sem[v], sem'[v]) /\ Touches(r, sem[v], sem'[v], v)

\* What such a step means to another request.
Bystander(q) ==
  /\ req'[q] = req[q]
  /\ \A v \in Workers :
       /\ Present(sem'[v], <<q, v>>) <=> Present(sem[v], <<q, v>>)
       /\ Holding(sem[v], <<q, v>>) => Holding(sem'[v], <<q, v>>)
       /\ aborted'[<<q, v>>] = aborted[<<q, v>>]

\* What a request may count on: before it is admitted nothing has been done for
\* it; while it is tried it has a call; once it is settled its calls are those
\* of a lost race.
Answerable(r) ==
  /\ req[r].st = "new" => req[r].tried = {} /\ ~req[r].timedOut
  /\ req[r].st = Trying => \E w \in Workers : Present(sem[w], <<r, w>>)
  /\ req[r].st \in Settled =>
       \A w \in Workers : Present(sem[w], <<r, w>>) =>
         req[r].st = "ok" /\ Holding(sem[w], <<r, w>>) /\ aborted[<<r, w>>] # "no"

PInv == IInv /\ \A r \in Requests : Answerable(r)

\* A worker that nothing happens to takes a slot step too.
LEMMA NothingIsAStep == ASSUME NEW x, NEW r, NEW v PROVE SlotStep(x, x) /\ Touches(r, x, x, v)
BY DEF SlotStep, Touches

LEMMA OthersStandBy ==
  ASSUME NEW r \in Requests, ActsFor(r), NEW q \in Requests, q # r, req'[q] = req[q],
         \A v \in Workers : aborted'[<<q, v>>] = aborted[<<q, v>>]
  PROVE  Bystander(q)
<1> SUFFICES ASSUME NEW v \in Workers
             PROVE  /\ Present(sem'[v], <<q, v>>) <=> Present(sem[v], <<q, v>>)
                    /\ Holding(sem[v], <<q, v>>) => Holding(sem'[v], <<q, v>>)
  BY DEF Bystander
<1>1. <<q, v>> \in Calls /\ <<q, v>> # <<r, v>> BY DEF Calls
<1>2. Touches(r, sem[v], sem'[v], v) BY DEF ActsFor
<1> QED BY <1>1, <1>2 DEF Touches, Joins, Leaves, Cancels, KeepsSlots

LEMMA BystanderKeeps ==
  ASSUME NEW q \in Requests, Bystander(q), Answerable(q) PROVE Answerable(q)'
BY DEF Bystander, Answerable

\* tryOnce: a call of r's joins a worker that r had not tried.
TriedOn(rq, w) == [rq EXCEPT !.st = Trying, !.tried = @ \union {w}, !.timer = Hedging]

LEMMA TryJoins ==
  ASSUME TypeOK, NEW r \in Requests, NEW rq \in RequestStates,
         NEW s \in [Workers -> Semaphores(Calls)], NEW o \in [Workers -> Nat], NEW h,
         Balanced(s, o), Covered(s, [req EXCEPT ![r] = rq]),
         StartTry(r, rq, s, o, h)
  PROVE  \E w \in Workers \ rq.tried :
           /\ \A v \in Workers \ {w} : sem'[v] = s[v]
           /\ Joins(s[w], sem'[w], <<r, w>>) /\ SlotStep(s[w], sem'[w])
           /\ req'[r] = TriedOn(rq, w) /\ \A q \in Requests \ {r} : req'[q] = req[q]
<1>1. PICK w \in Candidates(rq.tried, h) :
        /\ req' = [req EXCEPT ![r] = TriedOn(rq, w)]
        /\ sem' = [s EXCEPT ![w] = Acquire(@, <<r, w>>)]
  BY DEF StartTry, TriedOn
<1>2. w \in Workers /\ w \notin rq.tried BY DEF Candidates, TypeOK
<1>3. ~Present(s[w], <<r, w>>) BY <1>2 DEF Covered, TypeOK
<1>4. Good(s[w], o[w]) /\ <<r, w>> \in Calls BY <1>2 DEF Balanced, Calls
<1>5. sem'[w] = Acquire(s[w], <<r, w>>) /\ \A v \in Workers \ {w} : sem'[v] = s[v]
  BY <1>1, <1>2
<1>6. Joins(s[w], sem'[w], <<r, w>>) /\ SlotStep(s[w], sem'[w])
  BY <1>3, <1>4, <1>5, AcquireJoins
<1>7. req'[r] = TriedOn(rq, w) /\ \A q \in Requests \ {r} : req'[q] = req[q]
  BY <1>1 DEF TypeOK
<1> QED BY <1>2, <1>5, <1>6, <1>7

-----------------------------------------------------------------------------
(* One lemma per action: whom it acts for, and what becomes of that request. *)

\* The parts of the invariant that the steps use.
LEMMA InvariantFacts ==
  ASSUME IInv
  PROVE  /\ TypeOK /\ Balanced(sem, outstanding) /\ Covered(sem, req)
         /\ req \in [Requests -> RequestStates]
         /\ sem \in [Workers -> Semaphores(Calls)] /\ outstanding \in [Workers -> Nat]
         /\ aborted \in [Calls -> {"no", "timeout", "hedgeLost"}]
         /\ \A r \in Requests, w \in Workers :
              <<r, w>> \in Calls /\ Good(sem[w], outstanding[w])
BY DEF IInv, TypeOK, Balanced, Calls

\* Health checks and the worker list.
LEMMA EnvironmentActs ==
  ASSUME UNCHANGED <<sem, req, aborted>>, NEW r \in Requests
  PROVE  ActsFor(r) /\ (Answerable(r) => Answerable(r)')
         /\ \A q \in Requests : Bystander(q)
<1>1. ActsFor(r) BY NothingIsAStep DEF ActsFor
<1>2. \A q \in Requests : Bystander(q) BY DEF Bystander
<1> QED BY <1>1, <1>2, BystanderKeeps

\* What an action that acts for r does, in one formula.
Served(r) ==
  /\ ActsFor(r)
  /\ Answerable(r) => Answerable(r)'
  /\ \A q \in Requests \ {r} : Bystander(q)

LEMMA RejectServes == ASSUME IInv, NEW r \in Requests, Reject(r) PROVE Served(r)
<1>1. /\ req[r].st = "new" /\ sem' = sem /\ aborted' = aborted
      /\ req' = [req EXCEPT ![r].st = "overloaded"]
  BY DEF Reject, workerVars
<1>2. ActsFor(r) BY <1>1, NothingIsAStep DEF ActsFor
<1>3. ASSUME Answerable(r) PROVE Answerable(r)'
  <2>1. \A w \in Workers : ~Present(sem[w], <<r, w>>)
    BY <1>1, <1>3, InvariantFacts DEF Answerable, Covered
  <2>2. req'[r].st = "overloaded" BY <1>1, InvariantFacts DEF RequestStates
  <2> QED BY <1>1, <2>1, <2>2 DEF Answerable, Trying, Settled
<1>4. \A q \in Requests \ {r} : req'[q] = req[q] BY <1>1, InvariantFacts
<1> QED BY <1>1, <1>2, <1>3, <1>4, OthersStandBy DEF Served

LEMMA AdmitServes == ASSUME IInv, NEW r \in Requests, Admit(r) PROVE Served(r)
<1>1. /\ StartTry(r, req[r], sem, outstanding, healthy) /\ aborted' = aborted
      /\ req \in [Requests -> RequestStates] /\ req[r] \in RequestStates
      /\ [req EXCEPT ![r] = req[r]] = req
  BY InvariantFacts DEF Admit
<1>2. PICK w \in Workers \ req[r].tried :
        /\ \A v \in Workers \ {w} : sem'[v] = sem[v]
        /\ Joins(sem[w], sem'[w], <<r, w>>) /\ SlotStep(sem[w], sem'[w])
        /\ req'[r] = TriedOn(req[r], w) /\ \A q \in Requests \ {r} : req'[q] = req[q]
  <2>1. /\ TypeOK /\ Balanced(sem, outstanding) /\ Covered(sem, [req EXCEPT ![r] = req[r]])
        /\ sem \in [Workers -> Semaphores(Calls)] /\ outstanding \in [Workers -> Nat]
    BY <1>1, InvariantFacts
  <2> QED BY <1>1, <2>1, TryJoins
<1>3. ActsFor(r) BY <1>2, NothingIsAStep DEF ActsFor, Touches
<1>4. Answerable(r)'
  <2>1. Present(sem'[w], <<r, w>>) BY <1>2, InvariantFacts DEF Joins
  <2>2. req'[r].st = Trying BY <1>1, <1>2 DEF RequestStates, TriedOn
  <2> QED BY <2>1, <2>2 DEF Answerable, Trying, Settled
<1>5. \A q \in Requests \ {r} : req'[q] = req[q] BY <1>1, <1>2
<1> QED BY <1>1, <1>3, <1>4, <1>5, OthersStandBy DEF Served

\* A duplicate joins another worker, unless there is none or the request has
\* timed out.
LEMMA HedgeJoins ==
  ASSUME IInv, NEW r \in Requests, Hedge(r)
  PROVE  /\ req[r].st = Trying /\ req'[r].st = Trying
         /\ \A q \in Requests \ {r} : req'[q] = req[q]
         /\ \/ sem' = sem
            \/ /\ ~req[r].timedOut
               /\ \E w \in Workers :
                    /\ \A v \in Workers \ {w} : sem'[v] = sem[v]
                    /\ Joins(sem[w], sem'[w], <<r, w>>) /\ SlotStep(sem[w], sem'[w])
<1>1. req \in [Requests -> RequestStates] /\ req[r] \in RequestStates /\ req[r].st = Trying
  BY InvariantFacts DEF Hedge
<1>2. CASE req' = [req EXCEPT ![r].timer = FALSE] /\ UNCHANGED <<sem, outstanding>>
  BY <1>1, <1>2 DEF RequestStates
<1>3. ASSUME NEW w \in Candidates(req[r].tried, healthy),
             req' = [req EXCEPT ![r].timer = FALSE, ![r].tried = @ \union {w}],
             IF req[r].timedOut
             THEN UNCHANGED <<sem, outstanding>>
             ELSE /\ sem' = [sem EXCEPT ![w] = Acquire(@, <<r, w>>)]
                  /\ outstanding' = [outstanding EXCEPT ![w] = @ + 1]
      PROVE  /\ req'[r].st = Trying
             /\ \A q \in Requests \ {r} : req'[q] = req[q]
             /\ \/ sem' = sem
                \/ /\ ~req[r].timedOut
                   /\ \E v \in Workers :
                        /\ \A u \in Workers \ {v} : sem'[u] = sem[u]
                        /\ Joins(sem[v], sem'[v], <<r, v>>) /\ SlotStep(sem[v], sem'[v])
  <2>1. w \in Workers /\ w \notin req[r].tried BY InvariantFacts DEF Candidates, TypeOK
  <2>2. ~Present(sem[w], <<r, w>>) BY <2>1, InvariantFacts DEF Covered
  <2>3. req'[r].st = Trying /\ \A q \in Requests \ {r} : req'[q] = req[q]
    BY <1>1, <1>3 DEF RequestStates
  <2>4. CASE req[r].timedOut BY <1>3, <2>3, <2>4
  <2>5. CASE ~req[r].timedOut
    <3>1. sem'[w] = Acquire(sem[w], <<r, w>>) /\ \A v \in Workers \ {w} : sem'[v] = sem[v]
      BY <1>3, <2>1, <2>5, InvariantFacts
    <3>2. Joins(sem[w], sem'[w], <<r, w>>) /\ SlotStep(sem[w], sem'[w])
      BY <2>1, <2>2, <3>1, AcquireJoins, InvariantFacts
    <3> QED BY <2>1, <2>3, <2>5, <3>1, <3>2
  <2> QED BY <2>4, <2>5
<1> QED BY <1>1, <1>2, <1>3 DEF Hedge

LEMMA HedgeServes == ASSUME IInv, NEW r \in Requests, Hedge(r) PROVE Served(r)
<1>1. aborted' = aborted BY DEF Hedge
<1>2. /\ ActsFor(r)
      /\ \A w \in Workers : Present(sem[w], <<r, w>>) => Present(sem'[w], <<r, w>>)
  <2>1. CASE sem' = sem BY <2>1, NothingIsAStep DEF ActsFor
  <2>2. CASE \E w \in Workers :
               /\ \A v \in Workers \ {w} : sem'[v] = sem[v]
               /\ Joins(sem[w], sem'[w], <<r, w>>) /\ SlotStep(sem[w], sem'[w])
    BY <2>2, NothingIsAStep, InvariantFacts DEF ActsFor, Touches, Joins
  <2> QED BY <2>1, <2>2, HedgeJoins
<1>3. Answerable(r) => Answerable(r)'
  BY <1>2, HedgeJoins DEF Answerable, Trying, Settled
<1> QED BY <1>1, <1>2, <1>3, HedgeJoins, OthersStandBy DEF Served

\* The abort of all calls of a request at one worker.
LEMMA AbortCancels ==
  ASSUME IInv, NEW r \in Requests, NEW w \in Workers
  PROVE  /\ Cancels(sem[w], SemAfterAbort(r, w), <<r, w>>)
         /\ SlotStep(sem[w], SemAfterAbort(r, w))
BY InvariantFacts, CancelCancels DEF SemAfterAbort

\* An abort marks the running calls of r among the losers, and no other.
LEMMA AbortMarks ==
  ASSUME IInv, NEW r \in Requests, NEW losers \in SUBSET Workers,
         NEW reason \in {"timeout", "hedgeLost"}
  PROVE  /\ \A q \in Requests \ {r}, w \in Workers :
              AbortedCalls(r, losers, reason)[<<q, w>>] = aborted[<<q, w>>]
         /\ \A w \in losers : Holding(sem[w], <<r, w>>) =>
              AbortedCalls(r, losers, reason)[<<r, w>>] # "no"
         /\ losers = {} => \A w \in Workers :
              AbortedCalls(r, losers, reason)[<<r, w>>] = aborted[<<r, w>>]
<1>1. \A q \in Requests, w \in Workers :
        AbortedCalls(r, losers, reason)[<<q, w>>] =
          IF q = r /\ w \in losers /\ aborted[<<q, w>>] = "no" /\ Holding(sem[w], <<q, w>>)
          THEN reason ELSE aborted[<<q, w>>]
  BY DEF AbortedCalls, Calls
<1> QED BY <1>1

LEMMA TimeoutServes == ASSUME IInv, NEW r \in Requests, Timeout(r) PROVE Served(r)
<1>1. /\ req[r].st = Trying /\ sem' = [w \in Workers |-> SemAfterAbort(r, w)]
      /\ aborted' = AbortedCalls(r, Workers, "timeout")
      /\ req \in [Requests -> RequestStates] /\ req[r] \in RequestStates
  BY InvariantFacts DEF Timeout
<1>2. \A w \in Workers : /\ Cancels(sem[w], sem'[w], <<r, w>>)
                         /\ SlotStep(sem[w], sem'[w])
  BY <1>1, AbortCancels
<1>3. ActsFor(r) BY <1>2 DEF ActsFor, Touches
<1>4. \A q \in Requests \ {r}, w \in Workers : aborted'[<<q, w>>] = aborted[<<q, w>>]
  <2>1. Workers \in SUBSET Workers /\ "timeout" \in {"timeout", "hedgeLost"} OBVIOUS
  <2> QED BY <1>1, <2>1, AbortMarks
<1>5. CASE \E w \in Workers : Holding(sem[w], <<r, w>>)
  <2>1. req' = [req EXCEPT ![r].timedOut = TRUE] BY <1>5 DEF Timeout
  <2>2. req'[r].st = Trying /\ \A q \in Requests \ {r} : req'[q] = req[q]
    BY <1>1, <2>1 DEF RequestStates
  <2>3. \E w \in Workers : Present(sem'[w], <<r, w>>) BY <1>2, <1>5 DEF Cancels
  <2>4. Answerable(r)' BY <2>2, <2>3 DEF Answerable, Trying, Settled
  <2> QED BY <1>3, <1>4, <2>2, <2>4, OthersStandBy DEF Served
<1>6. CASE ~\E w \in Workers : Holding(sem[w], <<r, w>>)
  <2>1. req' = [req EXCEPT ![r].timedOut = TRUE, ![r].st = "unavailable", ![r].timer = FALSE]
    BY <1>6 DEF Timeout
  <2>2. req'[r].st = "unavailable" /\ \A q \in Requests \ {r} : req'[q] = req[q]
    BY <1>1, <2>1 DEF RequestStates
  <2>3. \A w \in Workers : ~Present(sem'[w], <<r, w>>) BY <1>2, <1>6 DEF Cancels
  <2>4. Answerable(r)' BY <2>2, <2>3 DEF Answerable, Trying, Settled
  <2> QED BY <1>3, <1>4, <2>2, <2>4, OthersStandBy DEF Served
<1> QED BY <1>5, <1>6

\* A call that returns leaves its worker; if it is the first, the others of its
\* request stop waiting or are told to stop.
LEMMA SuccessChanges ==
  ASSUME IInv, NEW r \in Requests, NEW w \in Workers, CallSucceeds(r, w)
  PROVE  /\ Leaves(sem[w], sem'[w], <<r, w>>) /\ SlotStep(sem[w], sem'[w])
         /\ \A v \in Workers \ {w} :
              IF req[r].st = Trying
              THEN Cancels(sem[v], sem'[v], <<r, v>>) /\ SlotStep(sem[v], sem'[v])
              ELSE sem'[v] = sem[v]
<1>1. /\ Holding(sem[w], <<r, w>>)
      /\ sem' = [v \in Workers |->
                   IF v = w THEN Release(sem[w], <<r, w>>)
                   ELSE IF v \in Losers(r, w) THEN SemAfterAbort(r, v) ELSE sem[v]]
  BY DEF CallSucceeds
<1>2. Leaves(sem[w], Release(sem[w], <<r, w>>), <<r, w>>)
      /\ SlotStep(sem[w], Release(sem[w], <<r, w>>))
  BY <1>1, ReleaseLeaves, InvariantFacts
<1>3. sem'[w] = Release(sem[w], <<r, w>>) BY <1>1
<1>4. ASSUME NEW v \in Workers \ {w}
      PROVE  IF req[r].st = Trying
             THEN Cancels(sem[v], sem'[v], <<r, v>>) /\ SlotStep(sem[v], sem'[v])
             ELSE sem'[v] = sem[v]
  <2>1. CASE req[r].st = Trying
    <3>1. sem'[v] = SemAfterAbort(r, v) BY <1>1, <2>1 DEF Losers
    <3> QED BY <2>1, <3>1, AbortCancels
  <2>2. CASE req[r].st # Trying BY <1>1, <2>2 DEF Losers
  <2> QED BY <2>1, <2>2
<1> QED BY <1>2, <1>3, <1>4

LEMMA SuccessServes ==
  ASSUME IInv, NEW r \in Requests, NEW w \in Workers, CallSucceeds(r, w) PROVE Served(r)
<1>1. /\ aborted' = AbortedCalls(r, Losers(r, w), "hedgeLost") /\ Losers(r, w) \in SUBSET Workers
      /\ req \in [Requests -> RequestStates] /\ req[r] \in RequestStates
      /\ IF req[r].st = Trying THEN Settle(r, "ok") ELSE UNCHANGED <<req, inFlight>>
  BY InvariantFacts DEF CallSucceeds, Losers
<1>2. ActsFor(r)
  BY SuccessChanges, NothingIsAStep DEF ActsFor, Touches
<1>3. \A q \in Requests \ {r}, v \in Workers : aborted'[<<q, v>>] = aborted[<<q, v>>]
  BY <1>1, AbortMarks
<1>4. CASE req[r].st = Trying
  <2>1. req' = [req EXCEPT ![r].st = "ok", ![r].timer = FALSE] BY <1>1, <1>4 DEF Settle
  <2>2. req'[r].st = "ok" /\ \A q \in Requests \ {r} : req'[q] = req[q]
    BY <1>1, <2>1 DEF RequestStates
  <2>3. ASSUME NEW v \in Workers, Present(sem'[v], <<r, v>>)
        PROVE  Holding(sem'[v], <<r, v>>) /\ aborted'[<<r, v>>] # "no"
    <3>1. v # w BY <2>3, SuccessChanges, InvariantFacts DEF Leaves
    <3>2. Cancels(sem[v], sem'[v], <<r, v>>) BY <1>4, <3>1, SuccessChanges
    <3>3. Holding(sem[v], <<r, v>>) BY <2>3, <3>2 DEF Cancels
    <3>4. Holding(sem'[v], <<r, v>>) BY <3>2, <3>3, InvariantFacts DEF Cancels, KeepsSlots
    <3>5. v \in Losers(r, w) BY <1>4, <3>1 DEF Losers
    <3> QED BY <1>1, <3>3, <3>4, <3>5, AbortMarks
  <2>4. Answerable(r)' BY <2>2, <2>3 DEF Answerable, Trying, Settled
  <2> QED BY <1>2, <1>3, <2>2, <2>4, OthersStandBy DEF Served
<1>5. CASE req[r].st # Trying
  <2>1. req' = req BY <1>1, <1>5
  <2>2. \A v \in Workers : aborted'[<<r, v>>] = aborted[<<r, v>>]
    BY <1>1, <1>5, AbortMarks DEF Losers
  <2>3. \A v \in Workers : Present(sem'[v], <<r, v>>) => v # w /\ sem'[v] = sem[v]
    BY <1>5, SuccessChanges, InvariantFacts DEF Leaves
  <2>4. Answerable(r) => Answerable(r)'
    BY <1>5, <2>1, <2>2, <2>3 DEF Answerable
  <2> QED BY <1>2, <1>3, <2>1, <2>4, OthersStandBy DEF Served
<1> QED BY <1>4, <1>5

\* A call that fails leaves its worker.  If it was the last of a try, the request
\* is retried on a worker it has not tried, or it ends.
Alone(r, w) ==
  /\ Leaves(sem[w], sem'[w], <<r, w>>) /\ SlotStep(sem[w], sem'[w])
  /\ \A v \in Workers \ {w} : sem'[v] = sem[v]
Retried(r, w) ==
  \E x \in Workers \ {w} :
    /\ Leaves(sem[w], sem'[w], <<r, w>>) /\ SlotStep(sem[w], sem'[w])
    /\ Joins(sem[x], sem'[x], <<r, x>>) /\ SlotStep(sem[x], sem'[x])
    /\ \A v \in Workers \ {w, x} : sem'[v] = sem[v]

LEMMA FailureChanges ==
  ASSUME IInv, NEW r \in Requests, NEW w \in Workers,
         NEW kind \in {"invalid", "unavailable"}, CallFails(r, w, kind)
  PROVE  /\ aborted' = aborted
         /\ \A q \in Requests \ {r} : req'[q] = req[q]
         /\ \/ Retryable(r, kind) /\ Retried(r, w) /\ req'[r].st = Trying
            \/ Alone(r, w) /\ Live(r) = {w} /\ req'[r].st = kind
            \/ Alone(r, w) /\ ~Decides(r, w) /\ req' = req
<1> DEFINE released == [sem EXCEPT ![w] = Release(@, <<r, w>>)]
           left     == [outstanding EXCEPT ![w] = @ - 1]
           again    == [req[r] EXCEPT !.attempt = @ + 1]
<1>1. /\ TypeOK /\ Balanced(sem, outstanding) /\ Covered(sem, req)
      /\ req \in [Requests -> RequestStates] /\ req[r] \in RequestStates
      /\ sem \in [Workers -> Semaphores(Calls)] /\ outstanding \in [Workers -> Nat]
      /\ Holding(sem[w], <<r, w>>)
  BY InvariantFacts DEF CallFails
<1>2. /\ released \in [Workers -> Semaphores(Calls)] /\ left \in [Workers -> Nat]
      /\ Balanced(released, left)
      /\ \A q \in Requests, v \in Workers :
           Present(released[v], <<q, v>>) => Present(sem[v], <<q, v>>)
  BY <1>1, OneCallLeaves
<1>3. /\ Leaves(sem[w], released[w], <<r, w>>) /\ SlotStep(sem[w], released[w])
      /\ \A v \in Workers \ {w} : released[v] = sem[v]
  BY <1>1, ReleaseLeaves, InvariantFacts
<1>4. /\ aborted' = aborted
      /\ \/ /\ Decides(r, w) /\ Retryable(r, kind)
            /\ StartTry(r, again, released, left, healthy')
         \/ /\ Decides(r, w) /\ sem' = released /\ Settle(r, kind)
         \/ /\ ~Decides(r, w) /\ sem' = released /\ UNCHANGED <<req, inFlight>>
  BY DEF CallFails
<1> HIDE DEF released, left
<1>5. CASE Decides(r, w) /\ Retryable(r, kind) /\ StartTry(r, again, released, left, healthy')
  <2>1. again \in RequestStates /\ again.tried = req[r].tried /\ w \in again.tried
    BY <1>1 DEF RequestStates, Covered, Present
  <2> HIDE DEF again
  <2>2. \A u \in Requests : [req EXCEPT ![r] = again][u].tried = req[u].tried
    BY <1>1, <2>1
  <2>3. Covered(released, [req EXCEPT ![r] = again]) BY <1>1, <1>2, <2>2 DEF Covered
  <2>4. PICK x \in Workers \ again.tried :
          /\ \A v \in Workers \ {x} : sem'[v] = released[v]
          /\ Joins(released[x], sem'[x], <<r, x>>) /\ SlotStep(released[x], sem'[x])
          /\ req'[r] = TriedOn(again, x) /\ \A q \in Requests \ {r} : req'[q] = req[q]
    BY <1>1, <1>2, <1>5, <2>1, <2>3, TryJoins
  <2>5. x # w /\ released[x] = sem[x] /\ sem'[w] = released[w] BY <1>3, <2>1, <2>4
  <2>6. Retried(r, w) BY <1>3, <2>4, <2>5 DEF Retried
  <2>7. req'[r].st = Trying BY <2>1, <2>4 DEF TriedOn, RequestStates
  <2> QED BY <1>4, <1>5, <2>4, <2>6, <2>7
<1>6. CASE Decides(r, w) /\ sem' = released /\ Settle(r, kind)
  <2>1. req' = [req EXCEPT ![r].st = kind, ![r].timer = FALSE] BY <1>6 DEF Settle
  <2>2. req'[r].st = kind /\ \A q \in Requests \ {r} : req'[q] = req[q]
    BY <1>1, <2>1 DEF RequestStates
  <2> QED BY <1>3, <1>4, <1>6, <2>2 DEF Alone, Decides
<1>7. CASE ~Decides(r, w) /\ sem' = released /\ UNCHANGED <<req, inFlight>>
  BY <1>3, <1>4, <1>7 DEF Alone
<1> QED BY <1>4, <1>5, <1>6, <1>7

LEMMA FailureServes ==
  ASSUME IInv, NEW r \in Requests, NEW w \in Workers,
         NEW kind \in {"invalid", "unavailable"}, CallFails(r, w, kind)
  PROVE  Served(r)
<1>1. /\ aborted' = aborted /\ \A q \in Requests \ {r} : req'[q] = req[q]
      /\ Holding(sem[w], <<r, w>>)
  BY FailureChanges DEF CallFails
<1>2. CASE Retried(r, w) /\ req'[r].st = Trying
  <2>1. ActsFor(r) BY <1>2, NothingIsAStep DEF Retried, ActsFor, Touches
  <2>2. \E x \in Workers : Present(sem'[x], <<r, x>>)
    BY <1>2, InvariantFacts DEF Retried, Joins
  <2>3. Answerable(r)' BY <1>2, <2>2 DEF Answerable, Trying, Settled
  <2> QED BY <1>1, <2>1, <2>3, OthersStandBy DEF Served
<1>3. ASSUME Alone(r, w)
      PROVE  /\ ActsFor(r)
             /\ \A v \in Workers : Present(sem'[v], <<r, v>>) <=> Present(sem[v], <<r, v>>) /\ v # w
             /\ \A v \in Workers \ {w} : sem'[v] = sem[v]
  BY <1>3, NothingIsAStep, InvariantFacts DEF Alone, Leaves, ActsFor, Touches
<1>4. CASE Alone(r, w) /\ Live(r) = {w} /\ req'[r].st = kind
  <2>1. \A v \in Workers : ~Present(sem'[v], <<r, v>>) BY <1>3, <1>4 DEF Live
  <2>2. Answerable(r)' BY <1>4, <2>1 DEF Answerable, Trying, Settled
  <2> QED BY <1>1, <1>3, <1>4, <2>2, OthersStandBy DEF Served
<1>5. CASE Alone(r, w) /\ ~Decides(r, w) /\ req' = req
  <2>1. ASSUME Answerable(r) PROVE Answerable(r)'
    <3>1. CASE req[r].st = Trying
      <4>1. PICK v \in Workers : v # w /\ Present(sem[v], <<r, v>>)
        BY <1>1, <1>5, <3>1 DEF Decides, Live, Present
      <4>2. Present(sem'[v], <<r, v>>) BY <1>3, <1>5, <4>1
      <4> QED BY <1>5, <3>1, <4>2 DEF Answerable, Trying, Settled
    <3>2. CASE req[r].st # Trying BY <1>1, <1>3, <1>5, <2>1, <3>2 DEF Answerable
    <3> QED BY <3>1, <3>2
  <2> QED BY <1>1, <1>3, <1>5, <2>1, OthersStandBy DEF Served
<1> QED BY <1>2, <1>4, <1>5, FailureChanges

-----------------------------------------------------------------------------
\* Every step of the pool acts for one request, or for none.
LEMMA StepServes ==
  ASSUME IInv, Next
  PROVE  \/ \E r \in Requests : Served(r)
         \/ UNCHANGED <<sem, req, aborted>>
<1>1. CASE \E r \in Requests : Reject(r) \/ Admit(r) \/ Hedge(r) \/ Timeout(r)
  BY <1>1, RejectServes, AdmitServes, HedgeServes, TimeoutServes
<1>2. CASE \E r \in Requests, w \in Workers :
             \/ CallSucceeds(r, w)
             \/ \E kind \in {"invalid", "unavailable"} : CallFails(r, w, kind)
  BY <1>2, SuccessServes, FailureServes
<1>3. CASE \/ \E w \in Workers : HealthPass(w) \/ HealthFail(w)
           \/ \E urls \in NewLists : SetWorkers(urls)
  BY <1>3 DEF HealthPass, HealthFail, SetWorkers, workerVars
<1> QED BY <1>1, <1>2, <1>3 DEF Next

\* No request is forgotten or outlived by work of its own, inductively.
LEMMA PromisesInitially == Init => PInv
<1> SUFFICES ASSUME Init PROVE PInv OBVIOUS
<1>1. IInv BY InitEstablishes
<1>2. \A r \in Requests : Answerable(r)
  BY DEF Init, Answerable, NewRequest, Trying, Settled
<1> QED BY <1>1, <1>2 DEF PInv

LEMMA PromisesKept == PInv /\ [Next]_vars => PInv'
<1> SUFFICES ASSUME PInv, [Next]_vars PROVE PInv' OBVIOUS
<1>1. IInv /\ IInv' BY NextKeeps DEF PInv
<1>2. CASE \E r \in Requests : Served(r)
  BY <1>1, <1>2, BystanderKeeps DEF PInv, Served
<1>3. CASE UNCHANGED <<sem, req, aborted>>
  BY <1>1, <1>3, EnvironmentActs DEF PInv
<1> QED BY <1>1, <1>2, <1>3, StepServes DEF vars, workerVars

LEMMA Promises == Spec => []PInv
BY PromisesInitially, PromisesKept, PTL DEF Spec

\* A request that was admitted and has no answer has a call that can still give
\* it one, whatever fails, is aborted or times out (tryOnce's pending count).
THEOREM NobodyIsForgotten == Spec => []NobodyForgotten
<1>1. PInv => NobodyForgotten BY DEF PInv, Answerable, NobodyForgotten, Live
<1> QED BY <1>1, Promises, PTL

\* A request that has its answer leaves no work behind but the loser of its
\* race, which has been told to stop (the abort in tryOnce's settle).
THEOREM NoWorkIsOrphaned == Spec => []NoOrphanCalls
<1>1. PInv => NoOrphanCalls
  BY DEF PInv, Answerable, NoOrphanCalls, Live, Settled
<1> QED BY <1>1, Promises, PTL

-----------------------------------------------------------------------------
\* Only the end of a call takes its slot away: it returned or failed.
LEMMA OnlyEndsLeave ==
  ASSUME IInv, [Next]_vars, NEW r \in Requests, NEW w \in Workers,
         Holding(sem[w], <<r, w>>), ~Holding(sem'[w], <<r, w>>)
  PROVE  \/ CallSucceeds(r, w)
         \/ \E kind \in {"invalid", "unavailable"} : CallFails(r, w, kind)
<1>1. sem'[w] # sem[w] /\ ~KeepsSlots(sem[w], sem'[w])
  <2>1. <<r, w>> \in Calls BY InvariantFacts
  <2> QED BY <2>1 DEF KeepsSlots
<1>2. \A x, y, c : Joins(x, y, c) \/ Cancels(x, y, c) => KeepsSlots(x, y) BY DEF Joins, Cancels
<1>3. ~UNCHANGED sem /\ ~UNCHANGED vars BY DEF vars, workerVars
<1>4. ASSUME NEW q \in Requests, Served(q) PROVE q = r
  BY <1>4, InvariantFacts DEF Served, Bystander
<1>5. ASSUME NEW q \in Requests, Reject(q) \/ Admit(q) \/ Hedge(q) \/ Timeout(q) PROVE FALSE
  <2>1. CASE Reject(q) BY <1>3, <2>1 DEF Reject, workerVars
  <2>2. CASE Admit(q)
    <3>1. StartTry(q, req[q], sem, outstanding, healthy) BY <2>2 DEF Admit
    <3>2. /\ TypeOK /\ Balanced(sem, outstanding) /\ req[q] \in RequestStates
          /\ [req EXCEPT ![q] = req[q]] = req
          /\ Covered(sem, [req EXCEPT ![q] = req[q]])
          /\ sem \in [Workers -> Semaphores(Calls)] /\ outstanding \in [Workers -> Nat]
      BY InvariantFacts
    <3>3. \E x \in Workers \ req[q].tried :
            /\ \A v \in Workers \ {x} : sem'[v] = sem[v]
            /\ Joins(sem[x], sem'[x], <<q, x>>)
      BY <3>1, <3>2, TryJoins
    <3> QED BY <1>1, <1>2, <3>3
  <2>3. CASE Hedge(q)
    <3>1. \/ sem' = sem
          \/ \E x \in Workers : /\ \A v \in Workers \ {x} : sem'[v] = sem[v]
                               /\ Joins(sem[x], sem'[x], <<q, x>>)
      BY <2>3, HedgeJoins
    <3> QED BY <1>1, <1>2, <3>1
  <2>4. CASE Timeout(q)
    <3>1. sem'[w] = SemAfterAbort(q, w) BY <2>4 DEF Timeout
    <3>2. Cancels(sem[w], SemAfterAbort(q, w), <<q, w>>) BY AbortCancels
    <3> QED BY <1>1, <1>2, <3>1, <3>2
  <2> QED BY <1>5, <2>1, <2>2, <2>3, <2>4
<1>6. ASSUME NEW q \in Requests, NEW v \in Workers, CallSucceeds(q, v)
      PROVE  q = r /\ v = w
  <2>1. q = r BY <1>4, <1>6, SuccessServes
  <2>2. ASSUME v # w PROVE FALSE
    <3>1. \A x \in Workers \ {v} :
            IF req[q].st = Trying THEN Cancels(sem[x], sem'[x], <<q, x>>) /\ SlotStep(sem[x], sem'[x])
            ELSE sem'[x] = sem[x]
      BY <1>6, SuccessChanges
    <3>2. w \in Workers \ {v} BY <2>2
    <3>3. CASE req[q].st = Trying
      <4>1. Cancels(sem[w], sem'[w], <<q, w>>) BY <3>1, <3>2, <3>3
      <4> QED BY <1>1, <1>2, <4>1
    <3>4. CASE req[q].st # Trying
      <4>1. sem'[w] = sem[w] BY <3>1, <3>2, <3>4
      <4> QED BY <1>1, <4>1
    <3> QED BY <3>3, <3>4
  <2> QED BY <2>1, <2>2
<1>7. ASSUME NEW q \in Requests, NEW v \in Workers, NEW kind \in {"invalid", "unavailable"},
             CallFails(q, v, kind)
      PROVE  q = r /\ v = w
  <2>1. q = r BY <1>4, <1>7, FailureServes
  <2>2. ASSUME v # w PROVE FALSE
    <3>1. Retried(q, v) \/ Alone(q, v) BY <1>7, FailureChanges
    <3>2. CASE Alone(q, v) BY <1>1, <2>2, <3>2 DEF Alone
    <3>3. CASE Retried(q, v) BY <1>1, <1>2, <2>2, <3>3 DEF Retried
    <3> QED BY <3>1, <3>2, <3>3
  <2> QED BY <2>1, <2>2
<1>8. CASE \/ \E v \in Workers : HealthPass(v) \/ HealthFail(v)
           \/ \E urls \in NewLists : SetWorkers(urls)
  BY <1>3, <1>8 DEF HealthPass, HealthFail, SetWorkers, workerVars
<1> QED BY <1>3, <1>5, <1>6, <1>7, <1>8 DEF Next

\* Losing a hedge race is not held against a worker (the hedgeLost test in
\* attempt's catch).
THEOREM LosersAreBlameless == Spec => HedgeLoserBlameless
<1>1. ASSUME PInv, [Next]_vars, NEW r \in Requests, NEW w \in Workers,
             Holding(sem[w], <<r, w>>), aborted[<<r, w>>] = "hedgeLost",
             ~Holding(sem'[w], <<r, w>>)
      PROVE  failures'[w] <= failures[w] /\ healthy'[w] = healthy[w]
  <2>1. IInv /\ failures \in [Workers -> Nat] BY <1>1 DEF PInv, IInv, TypeOK
  <2>2. CASE CallSucceeds(r, w)
    <3>1. failures'[w] = 0 /\ healthy' = healthy BY <2>1, <2>2 DEF CallSucceeds
    <3> QED BY <2>1, <3>1
  <2>3. ASSUME NEW kind \in {"invalid", "unavailable"}, CallFails(r, w, kind)
        PROVE  failures'[w] <= failures[w] /\ healthy'[w] = healthy[w]
    <3>1. failures' = failures /\ healthy' = healthy
      BY <1>1, <2>3 DEF CallFails, FailuresAfter, HealthyAfter, CountsAgainstWorker
    <3> QED BY <2>1, <3>1
  <2> QED BY <1>1, <2>1, <2>2, <2>3, OnlyEndsLeave
<1>2. PInv /\ [Next]_vars =>
        [\A r \in Requests, w \in Workers :
           /\ Holding(sem[w], <<r, w>>) /\ aborted[<<r, w>>] = "hedgeLost"
           /\ ~Holding(sem'[w], <<r, w>>)
           => /\ failures'[w] <= failures[w]
              /\ healthy'[w] = healthy[w]]_vars
  BY <1>1
<1> QED BY <1>2, Promises, PTL DEF Spec, HedgeLoserBlameless

\* After its timeout a request starts no further call: it is past admission, it
\* is not retried, and its duplicate is aborted from the start (route's timeout
\* signal, which every attempt takes).
THEOREM TimeoutIsFinal == Spec => NothingStartsAfterTimeout
<1>1. ASSUME PInv, [Next]_vars, NEW r \in Requests, NEW w \in Workers,
             req[r].timedOut, ~Present(sem[w], <<r, w>>), Present(sem'[w], <<r, w>>)
      PROVE  FALSE
  <2>1. IInv /\ <<r, w>> \in Calls /\ req[r].st # "new"
    BY <1>1, InvariantFacts DEF PInv, Answerable
  <2>2. ~UNCHANGED sem BY <1>1
  <2>3. ASSUME NEW q \in Requests, Served(q) PROVE q = r
    BY <1>1, <2>3 DEF Served, Bystander
  <2>4. ASSUME NEW q \in Requests, Reject(q) \/ Admit(q) PROVE FALSE
    BY <2>1, <2>3, <2>4, RejectServes, AdmitServes DEF Reject, Admit
  <2>5. ASSUME NEW q \in Requests, Hedge(q) PROVE FALSE
    BY <1>1, <2>1, <2>2, <2>3, <2>5, HedgeServes, HedgeJoins
  <2>6. ASSUME NEW q \in Requests, Timeout(q) PROVE FALSE
    BY <1>1, <2>1, <2>3, <2>6, TimeoutServes DEF Timeout
  <2>7. ASSUME NEW q \in Requests, NEW v \in Workers, CallSucceeds(q, v) PROVE FALSE
    <3>1. q = r BY <2>1, <2>3, <2>7, SuccessServes
    <3>2. CASE v = w BY <1>1, <2>1, <2>7, <3>1, <3>2, SuccessChanges DEF Leaves
    <3>3. CASE v # w
      <4>1. w \in Workers \ {v} /\ CallSucceeds(r, v) BY <2>7, <3>1, <3>3
      <4>2. Cancels(sem[w], sem'[w], <<r, w>>) \/ sem'[w] = sem[w]
        BY <2>1, <4>1, SuccessChanges
      <4> QED BY <1>1, <4>2 DEF Cancels, Present
    <3> QED BY <3>2, <3>3
  <2>8. ASSUME NEW q \in Requests, NEW v \in Workers, NEW kind \in {"invalid", "unavailable"},
               CallFails(q, v, kind)
        PROVE  FALSE
    <3>1. q = r BY <2>1, <2>3, <2>8, FailureServes
    <3>2. ~Retryable(r, kind) BY <1>1 DEF Retryable
    <3>3. Alone(r, v) BY <2>1, <2>8, <3>1, <3>2, FailureChanges
    <3> QED BY <1>1, <2>1, <3>3 DEF Alone, Leaves
  <2>9. CASE \/ \E v \in Workers : HealthPass(v) \/ HealthFail(v)
             \/ \E urls \in NewLists : SetWorkers(urls)
    BY <2>2, <2>9 DEF HealthPass, HealthFail, SetWorkers, workerVars
  <2> QED BY <1>1, <2>2, <2>4, <2>5, <2>6, <2>7, <2>8, <2>9 DEF Next, vars, workerVars
<1>2. PInv /\ [Next]_vars =>
        [\A r \in Requests, w \in Workers :
           req[r].timedOut /\ ~Present(sem[w], <<r, w>>) => ~Present(sem'[w], <<r, w>>)]_vars
  BY <1>1
<1> QED BY <1>2, Promises, PTL DEF Spec, NothingStartsAfterTimeout

-----------------------------------------------------------------------------
\* The promise counts with the same cardinality, though in an instance of its own.
LEMMA SameCardinality == ASSUME NEW S PROVE Slots!Cardinality(S) = Cardinality(S)
BY DEF Cardinality, Slots!Cardinality

\* The pool implements WorkerSlots: its first state maps to the first state ...
LEMMA SlotsInitially == Init => Slots!Init
<1> SUFFICES ASSUME Init PROVE Slots!Init OBVIOUS
<1>1. NewSemaphore.held = {} /\ ToSet(NewSemaphore.waiters) = {}
  BY DEF NewSemaphore, ToSet
<1>2. \A w \in Workers : sem[w].held = {} /\ ToSet(sem[w].waiters) = {}
  BY <1>1 DEF Init
<1> QED BY <1>2 DEF Slots!Init

\* ... and each of its steps to a step, or none, of every worker.
LEMMA SlotsStep == IInv /\ [Next]_vars => [Slots!Next]_Slots!vars
<1> SUFFICES ASSUME IInv, [Next]_vars PROVE Slots!Next \/ UNCHANGED Slots!vars
  BY DEF Slots!vars
<1>1. CASE UNCHANGED sem BY <1>1 DEF Slots!vars
<1>2. CASE \E r \in Requests : Served(r)
  <2>1. \A w \in Workers : SlotStep(sem[w], sem'[w]) BY <1>2 DEF Served, ActsFor
  <2>2. ASSUME NEW w \in Workers
        PROVE  \/ Slots!Stay(w)
               \/ \E c \in Calls : Slots!Enter(w, c) \/ Slots!Leave(w, c) \/ Slots!GiveUp(w, c)
    BY <2>1, SameCardinality DEF SlotStep, Slots!Stay, Slots!Enter, Slots!Leave, Slots!GiveUp
  <2> QED BY <2>2 DEF Slots!Next
<1> QED BY <1>1, <1>2, StepServes DEF vars, workerVars

\* At every worker, whatever becomes of the requests: never more than Concurrency
\* calls, nobody waits beside a free slot, a slot given up goes to a waiting call.
THEOREM PoolImplementsSlots == Spec => SlotsPromise
<1>1. Spec => []IInv BY Invariance
<1> QED BY <1>1, SlotsInitially, SlotsStep, PTL DEF Spec, SlotsPromise, Slots!Spec
=============================================================================
