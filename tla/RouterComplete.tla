---------------------------- MODULE RouterComplete ----------------------------
(***************************************************************************)
(* What the search shows, for any timetable, query and limits: nothing     *)
(* that is pointless, the best of every itinerary, and none missed.        *)
(*                                                                         *)
(* Two things can go wrong.  The tests of the code on a completed journey  *)
(* (boards_train_late, leaves_train_early) must find what the reference    *)
(* calls pointless: they do, on every journey.  And the ceilings must not  *)
(* cut off a partial journey that a journey worth showing needs.  They do  *)
(* not as long as no train that goes on to the destination calls at a      *)
(* station twice before (LoopFree): then the train that set the ceiling    *)
(* can be stayed on, and what comes too late is pointless itself.  With    *)
(* such a train the search does miss journeys: the run router_loop.        *)
(*                                                                         *)
(* The invariant CompleteInv says of every journey worth showing that its  *)
(* itinerary is in the answer or a label that waits is on its way.         *)
(***************************************************************************)
EXTENDS RouterProofs, SequenceTheorems

-----------------------------------------------------------------------------
(* Journeys with a leg in the place of others. *)

\* What a splice is, leg by leg.
Spliced(L, S, J, p, q, leg) ==
  /\ L \in Seq(S) /\ Len(L) = Len(J) - (q - p)
  /\ L[p] = leg
  /\ \A i \in 1..p - 1 : L[i] = J[i]
  /\ \A i \in p + 1..Len(J) - (q - p) : L[i] = J[i + (q - p)]

\* Splice is what Spliced says.
LEMMA SpliceFacts ==
  ASSUME NEW S, NEW J \in Seq(S), NEW p \in 1..Len(J), NEW q \in 1..Len(J), p <= q, NEW leg \in S
  PROVE  Spliced(Splice(J, p, q, leg), S, J, p, q, leg)
<1> DEFINE N == Len(J)
           head == SubSeq(J, 1, p - 1)
           tail == SubSeq(J, q + 1, N)
           front == head \o <<leg>>
<1>1. N \in Nat /\ p \in Nat /\ q \in Nat /\ p >= 1 /\ q <= N OBVIOUS
<1>2. head \in Seq(S) /\ Len(head) = p - 1 /\ \A i \in 1..p - 1 : head[i] = J[i] BY <1>1
<1>3. tail \in Seq(S) /\ Len(tail) = N - q /\ \A i \in 1..N - q : tail[i] = J[q + i] BY <1>1
<1> HIDE DEF head, tail
<1>4. front \in Seq(S) /\ Len(front) = p /\ front[p] = leg /\ \A i \in 1..p - 1 : front[i] = head[i]
  BY <1>1, <1>2
<1> HIDE DEF front
<1>5. /\ front \o tail \in Seq(S) /\ Len(front \o tail) = p + (N - q)
      /\ \A i \in 1..p : (front \o tail)[i] = front[i]
      /\ \A i \in p + 1..p + (N - q) : (front \o tail)[i] = tail[i - p]
  <2>1. /\ front \o tail \in Seq(S) /\ Len(front \o tail) = Len(front) + Len(tail)
        /\ \A i \in 1..Len(front) + Len(tail) :
             (front \o tail)[i] = IF i <= Len(front) THEN front[i] ELSE tail[i - Len(front)]
    BY <1>3, <1>4, ConcatProperties
  <2>2. \A i \in 1..p : i \in 1..p + (N - q) /\ i <= p BY <1>1
  <2>3. \A i \in p + 1..p + (N - q) : i \in 1..p + (N - q) /\ ~(i <= p) BY <1>1
  <2>4. \A i \in 1..p + (N - q) : (front \o tail)[i] = IF i <= p THEN front[i] ELSE tail[i - p]
    BY <1>3, <1>4, <2>1
  <2> QED BY <1>3, <1>4, <2>1, <2>2, <2>3, <2>4
<1>6. Splice(J, p, q, leg) = front \o tail BY DEF Splice, front, head, tail, N
<1> HIDE DEF N
<1>7. p + (N - q) = N - (q - p) BY <1>1
<1>8. \A i \in p + 1..N - (q - p) : i - p \in 1..N - q /\ q + (i - p) = i + (q - p) BY <1>1
<1>9. \A i \in p + 1..N - (q - p) : (front \o tail)[i] = J[i + (q - p)] BY <1>3, <1>5, <1>7, <1>8
<1>10. (front \o tail)[p] = leg /\ \A i \in 1..p - 1 : (front \o tail)[i] = J[i]
  <2>1. p \in 1..p /\ \A i \in 1..p - 1 : i \in 1..p BY <1>1
  <2> QED BY <1>2, <1>4, <1>5, <2>1
<1> QED BY <1>5, <1>6, <1>7, <1>9, <1>10 DEF N, Spliced

\* A journey has one leg more than transfers at most.
LEMMA JourneyLength ==
  ASSUME NEW tab \in Timetables, NEW mt \in Nat, NEW J \in AllJourneys(tab, mt)
  PROVE  Len(J) <= mt + 1
<1> DEFINE legs == UsableLegs(tab)
<1>1. PICK P : Built(tab, mt, P) BY JourneysAreBuilt
<1> DEFINE T == {k \in Nat : k + 1 \in 1..mt + 1 => \A Q \in P[k + 1] : Len(Q) = k + 1}
<1>2. \A k \in 1..mt + 1 : /\ P[k] \subseteq Seq(legs)
                           /\ P[k] = IF k = 1 THEN Extensions(tab, {<<>>}) ELSE Extensions(tab, P[k - 1])
  BY <1>1 DEF Built
<1>3. \A js : js \subseteq Seq(legs) => \A Q \in Extensions(tab, js) : \E p \in js : Len(Q) = Len(p) + 1
  <2> SUFFICES ASSUME NEW js, js \subseteq Seq(legs), NEW Q \in Extensions(tab, js)
               PROVE  \E p \in js : Len(Q) = Len(p) + 1
    OBVIOUS
  <2>1. PICK p \in js, l \in legs : Q = Append(p, l) BY DEF Extensions
  <2>2. p \in Seq(legs) OBVIOUS
  <2> HIDE DEF legs
  <2> QED BY <2>1, <2>2
<1>4. 0 \in T
  <2> SUFFICES ASSUME NEW Q \in P[1] PROVE Len(Q) = 1 OBVIOUS
  <2> DEFINE none == {<<>>}
  <2>1. Q \in Extensions(tab, none) BY <1>2
  <2>2. none \subseteq Seq(legs) OBVIOUS
  <2>3. \A p \in none : Len(p) = 0 OBVIOUS
  <2> HIDE DEF legs, none
  <2>4. PICK p \in none : Len(Q) = Len(p) + 1 BY <1>3, <2>1, <2>2
  <2> QED BY <2>3, <2>4
<1>5. ASSUME NEW k \in T PROVE k + 1 \in T
  <2> SUFFICES ASSUME (k + 1) + 1 \in 1..mt + 1, NEW Q \in P[(k + 1) + 1] PROVE Len(Q) = (k + 1) + 1 OBVIOUS
  <2>1. k + 1 \in 1..mt + 1 /\ ((k + 1) + 1) - 1 = k + 1 /\ (k + 1) + 1 # 1 OBVIOUS
  <2>2. Q \in Extensions(tab, P[k + 1]) /\ P[k + 1] \subseteq Seq(legs) BY <1>2, <2>1
  <2>3. PICK p \in P[k + 1] : Len(Q) = Len(p) + 1 BY <1>3, <2>2
  <2>4. Len(p) = k + 1 BY <2>1
  <2> QED BY <2>3, <2>4
<1>6. T = Nat
  <2>1. T \subseteq Nat OBVIOUS
  <2> HIDE DEF T
  <2> QED BY <1>4, <1>5, <2>1, SetInduction
<1>7. PICK n \in 1..mt + 1 : J \in P[n] BY <1>1 DEF Built
<1>8. n - 1 \in T /\ (n - 1) + 1 = n
  <2> HIDE DEF T
  <2> QED BY <1>6
<1>9. Len(J) = n BY <1>7, <1>8
<1> QED BY <1>9

\* A leg in the place of legs p to q, on a train of one of them, from where they
\* start to where they end, no later, and boarded in time: a better journey, if
\* it touches no station twice.
LEMMA SpliceIsBetter ==
  ASSUME NEW tab \in Timetables, NEW mt \in Nat, NEW J \in AllJourneys(tab, mt),
         NEW p \in 1..Len(J), NEW q \in 1..Len(J), p < q, NEW leg \in UsableLegs(tab),
         From(tab, leg) = From(tab, J[p]), To(tab, leg) = To(tab, J[q]),
         NEW w \in p..q, leg.inst[1] = J[w].inst[1],
         LegArr(tab, leg) <= LegArr(tab, J[q]),
         p = 1 => LegDep(tab, leg) \in LegDep(tab, J[1])..LastFirstDeparture,
         p # 1 => LegDep(tab, leg) >= LegArr(tab, J[p - 1]) + TR,
         TouchesOnce(tab, Splice(J, p, q, leg))
  PROVE  /\ Valid(tab, mt, Splice(J, p, q, leg)) /\ Better(tab, Splice(J, p, q, leg), J)
         /\ Splice(J, p, q, leg) \in AllJourneys(tab, mt)
<1> DEFINE L == Splice(J, p, q, leg)
           U == UsableLegs(tab)
           N == Len(J)
           d == q - p
<1>1. /\ J \in Seq(U) /\ N \in Nat /\ N >= 1 /\ Connected(tab, J) /\ To(tab, J[N]) = Destination
      /\ N <= mt + 1 /\ DOMAIN J = 1..N /\ \A i \in 1..N : J[i] \in U
  BY JourneyFacts, JourneyLength
<1>2. /\ L \in Seq(U) /\ Len(L) = N - d /\ L[p] = leg
      /\ \A i \in 1..p - 1 : L[i] = J[i]
      /\ \A i \in p + 1..N - d : L[i] = J[i + d]
  <2>1. J \in Seq(U) /\ leg \in U /\ p <= q BY <1>1
  <2>2. Spliced(L, U, J, p, q, leg)
    <3> HIDE DEF U
    <3> QED BY <2>1, SpliceFacts
  <2> HIDE DEF L, U
  <2> QED BY <2>2 DEF Spliced
<1>3. d \in Nat /\ d >= 1 /\ p \in Nat /\ q = p + d /\ p >= 1 /\ q <= N /\ q \in Nat BY <1>1
<1>4. /\ From(tab, J[1]) = Source /\ LegDep(tab, J[1]) \in QueryTime..LastFirstDeparture
      /\ \A i \in 1..N - 1 : From(tab, J[i + 1]) = To(tab, J[i]) /\ LegDep(tab, J[i + 1]) >= LegArr(tab, J[i]) + TR
      /\ \A i, j \in 1..N : J[i].inst[1] = J[j].inst[1] => i = j
  BY <1>1 DEF Connected, IsInjective
<1>5. /\ \A i \in 1..N : LegDep(tab, J[i]) \in Int /\ LegArr(tab, J[i]) \in Int
      /\ LegDep(tab, leg) \in Int /\ LegArr(tab, leg) \in Int /\ TR \in Nat /\ QueryTime \in Nat
      /\ LastFirstDeparture \in Nat
  BY <1>1, LegFacts, NumberFacts
<1>6. TouchesOnce(tab, L) OBVIOUS
<1>7. \A i \in 1..N - d : L[i] \in U BY <1>2
<1> HIDE DEF L, N, d, U
<1>8. DOMAIN L = 1..N - d BY <1>1, <1>2, <1>3
<1>9. From(tab, L[1]) = Source /\ LegDep(tab, L[1]) \in LegDep(tab, J[1])..LastFirstDeparture
  <2>1. CASE p = 1 BY <1>2, <1>4, <2>1
  <2>2. CASE p # 1
    <3>1. 1 \in 1..p - 1 BY <1>3, <2>2
    <3>2. L[1] = J[1] BY <1>2, <3>1
    <3>3. 1 \in 1..N BY <1>1
    <3> QED BY <1>4, <1>5, <3>2, <3>3
  <2> QED BY <2>1, <2>2
<1>10. ASSUME NEW i \in 1..(N - d) - 1
       PROVE  From(tab, L[i + 1]) = To(tab, L[i]) /\ LegDep(tab, L[i + 1]) >= LegArr(tab, L[i]) + TR
  <2>1. i \in Nat /\ i >= 1 /\ i < N - d BY <1>1, <1>3
  <2>2. CASE i + 1 < p
    <3>1. i \in 1..p - 1 /\ i + 1 \in 1..p - 1 /\ i \in 1..N - 1 BY <1>1, <1>3, <2>1, <2>2
    <3> QED BY <1>2, <1>4, <3>1
  <2>3. CASE i + 1 = p
    <3>1. i \in 1..p - 1 /\ i = p - 1 /\ p # 1 /\ i \in 1..N - 1 BY <1>1, <1>3, <2>1, <2>3
    <3>2. L[i] = J[p - 1] /\ L[i + 1] = leg BY <1>2, <2>3, <3>1
    <3>3. From(tab, J[p]) = To(tab, J[p - 1]) BY <1>4, <2>3, <3>1
    <3> QED BY <3>1, <3>2, <3>3
  <2>4. CASE i = p
    <3>1. i + 1 \in p + 1..N - d /\ (i + 1) + d = q + 1 /\ q \in 1..N - 1 /\ q \in 1..N BY <1>1, <1>3, <2>1, <2>4
    <3>2. L[i] = leg /\ L[i + 1] = J[q + 1] BY <1>2, <2>4, <3>1
    <3>3. From(tab, J[q + 1]) = To(tab, J[q]) /\ LegDep(tab, J[q + 1]) >= LegArr(tab, J[q]) + TR BY <1>4, <3>1
    <3>4. q + 1 \in 1..N BY <1>1, <3>1
    <3>5. LegDep(tab, J[q + 1]) \in Int /\ LegArr(tab, J[q]) \in Int BY <1>5, <3>1, <3>4
    <3>6. LegArr(tab, leg) \in Int /\ LegArr(tab, leg) <= LegArr(tab, J[q]) /\ TR \in Int BY <1>5
    <3>7. LegDep(tab, J[q + 1]) >= LegArr(tab, leg) + TR
      <4> DEFINE x == LegDep(tab, J[q + 1])
                 y == LegArr(tab, J[q])
                 z == LegArr(tab, leg)
      <4>1. x \in Int /\ y \in Int /\ z \in Int /\ x >= y + TR /\ z <= y BY <3>3, <3>5, <3>6
      <4> HIDE DEF x, y, z
      <4>2. x >= z + TR BY <3>6, <4>1
      <4> QED BY <4>2 DEF x, z
    <3>8. From(tab, L[i + 1]) = To(tab, L[i]) BY <1>5, <3>2, <3>3
    <3> QED BY <3>2, <3>7, <3>8
  <2>5. CASE i > p
    <3>1. i \in p + 1..N - d /\ i + 1 \in p + 1..N - d /\ i + d \in 1..N - 1 /\ (i + 1) + d = (i + d) + 1
      BY <1>1, <1>3, <2>1, <2>5
    <3>2. L[i] = J[i + d] /\ L[i + 1] = J[(i + d) + 1]
      <4>1. \A j \in p + 1..N - d : L[j] = J[j + d] BY <1>2
      <4>2. L[i] = J[i + d] /\ L[i + 1] = J[(i + 1) + d] BY <3>1, <4>1
      <4> QED BY <3>1, <4>2
    <3> QED BY <1>4, <3>1, <3>2
  <2> QED BY <1>3, <2>1, <2>2, <2>3, <2>4, <2>5
<1>11. IsInjective([i \in DOMAIN L |-> L[i].inst[1]])
  <2> DEFINE h(i) == IF i < p THEN i ELSE IF i = p THEN w ELSE i + d
  <2>1. w \in Nat /\ p <= w /\ w <= p + d BY <1>3
  <2>2. \A i \in 1..N - d : h(i) \in 1..N BY <1>1, <1>3, <2>1
  <2>3. \A i, j \in 1..N - d : h(i) = h(j) => i = j BY <1>1, <1>3, <2>1
  <2>4. ASSUME NEW i \in 1..N - d PROVE L[i].inst[1] = J[h(i)].inst[1]
    <3>1. CASE i < p
      <4>1. i \in 1..p - 1 BY <1>3, <3>1
      <4> QED BY <1>2, <3>1, <4>1
    <3>2. CASE i = p BY <1>2, <1>3, <3>2
    <3>3. CASE i > p
      <4>1. i \in p + 1..N - d BY <1>1, <1>3, <3>3
      <4>2. h(i) = i + d BY <1>3, <3>3
      <4> QED BY <1>2, <4>1, <4>2
    <3> QED BY <1>3, <3>1, <3>2, <3>3
  <2> HIDE DEF h
  <2>5. \A i, j \in 1..N - d : L[i].inst[1] = L[j].inst[1] => i = j BY <1>4, <2>2, <2>3, <2>4
  <2> QED BY <1>8, <2>5 DEF IsInjective
<1>12. Connected(tab, L)
  <2>1. LegDep(tab, L[1]) \in QueryTime..LastFirstDeparture
    <3>1. 1 \in 1..N BY <1>1
    <3> QED BY <1>4, <1>5, <1>9, <3>1
  <2> QED BY <1>2, <1>6, <1>9, <1>10, <1>11, <2>1 DEF Connected
<1>13. To(tab, L[N - d]) = Destination /\ LegArr(tab, L[N - d]) <= LegArr(tab, J[N])
  <2>1. CASE q = N
    <3>1. N - d = p BY <1>3, <2>1
    <3> QED BY <1>1, <1>2, <2>1, <3>1
  <2>2. CASE q # N
    <3>1. N - d \in p + 1..N - d /\ (N - d) + d = N /\ N \in 1..N BY <1>1, <1>3, <2>2
    <3>2. L[N - d] = J[N] BY <1>2, <3>1
    <3> QED BY <1>1, <1>5, <3>1, <3>2
  <2> QED BY <2>1, <2>2
<1>14. Valid(tab, mt, L)
  <2>1. L # <<>> /\ Len(L) <= mt + 1
    <3>1. Len(L) >= 1 /\ Len(L) <= mt + 1 BY <1>1, <1>2, <1>3
    <3> QED BY <3>1
  <2> QED BY <1>2, <1>7, <1>8, <1>12, <1>13, <2>1 DEF Valid, U
<1>15. Better(tab, L, J)
  <2>1. Arrival(tab, L) <= Arrival(tab, J) BY <1>2, <1>13 DEF Arrival, N
  <2>2. Departure(tab, L) >= Departure(tab, J)
    <3>1. 1 \in 1..N BY <1>1
    <3> QED BY <1>5, <1>9, <3>1 DEF Departure
  <2>3. Len(L) < Len(J) BY <1>1, <1>2, <1>3 DEF N
  <2> QED BY <2>1, <2>2, <2>3 DEF Better
<1>16. L \in AllJourneys(tab, mt) BY <1>2, <1>14, ValidIsJourney DEF U
<1> QED BY <1>14, <1>15, <1>16 DEF L

-----------------------------------------------------------------------------
(* The tests on a completed journey find what the reference calls pointless. *)

\* A usable leg is made of an instance and two of its stops.
LEMMA MadeOfStops ==
  ASSUME NEW tab \in Timetables, NEW i \in Instances(tab, Weekday, Horizon), NEW b \in Nat, NEW a \in Nat,
         1 <= b, b < a, a <= Len(tab[i[1]].stops),
         StationAt(tab[i[1]], b) # NoStation, StationAt(tab[i[1]], a) # NoStation,
         Dep(tab, i, b) >= QueryTime, Arr(tab, i, a) <= Latest
  PROVE  [inst |-> i, board |-> b, alight |-> a] \in UsableLegs(tab)
<1> DEFINE leg == [inst |-> i, board |-> b, alight |-> a]
           M == MaxStops(tab)
<1>1. leg.inst = i /\ leg.board = b /\ leg.alight = a OBVIOUS
<1>2. M \in Nat /\ \A t \in 1..Len(tab) : Len(tab[t].stops) <= M BY MaxStopsType
<1>3. i[1] \in 1..Len(tab) /\ Len(tab[i[1]].stops) \in Nat BY InstanceFacts
<1> HIDE DEF M
<1>4. a \in 1..M /\ b \in 1..M
  <2>1. Len(tab[i[1]].stops) <= M BY <1>2, <1>3
  <2> QED BY <1>2, <1>3, <2>1
<1>5. leg \in Legs(tab) BY <1>4 DEF Legs, M
<1>6. /\ From(tab, leg) = StationAt(tab[i[1]], b) /\ To(tab, leg) = StationAt(tab[i[1]], a)
      /\ LegDep(tab, leg) = Dep(tab, i, b) /\ LegArr(tab, leg) = Arr(tab, i, a)
  BY <1>1 DEF From, To, LegDep, LegArr
<1> HIDE DEF leg
<1>7. leg \in UsableLegs(tab) BY <1>1, <1>5, <1>6 DEF UsableLegs
<1> QED BY <1>7 DEF leg

\* Staying on to a later stop.
LEMMA LongerLeg ==
  ASSUME NEW tab \in Timetables, NEW l \in UsableLegs(tab), NEW z \in Nat, z > l.alight,
         z <= Len(tab[l.inst[1]].stops), StationAt(tab[l.inst[1]], z) # NoStation, Arr(tab, l.inst, z) <= Latest
  PROVE  LET r == [l EXCEPT !.alight = z] IN
         /\ r \in UsableLegs(tab) /\ r.inst = l.inst /\ r.board = l.board /\ r.alight = z
         /\ From(tab, r) = From(tab, l) /\ LegDep(tab, r) = LegDep(tab, l)
         /\ To(tab, r) = StationAt(tab[l.inst[1]], z) /\ LegArr(tab, r) = Arr(tab, l.inst, z)
<1> DEFINE r == [l EXCEPT !.alight = z]
           s == [inst |-> l.inst, board |-> l.board, alight |-> z]
<1>1. PICK i \in Instances(tab, Weekday, Horizon), b \in 1..MaxStops(tab), a \in 1..MaxStops(tab) :
        l = [inst |-> i, board |-> b, alight |-> a]
  BY DEF UsableLegs, Legs
<1>2. r = s BY <1>1
<1>3. r.inst = l.inst /\ r.board = l.board /\ r.alight = z BY <1>2
<1>4. /\ From(tab, r) = From(tab, l) /\ LegDep(tab, r) = LegDep(tab, l)
      /\ To(tab, r) = StationAt(tab[l.inst[1]], z) /\ LegArr(tab, r) = Arr(tab, l.inst, z)
  <2> HIDE DEF r
  <2> QED BY <1>3 DEF From, To, LegDep, LegArr
<1>5. /\ l.inst \in Instances(tab, Weekday, Horizon) /\ l.board \in Nat /\ l.alight \in Nat
      /\ 1 <= l.board /\ l.board < l.alight /\ LegDep(tab, l) >= QueryTime
      /\ From(tab, l) \in Stations /\ NoStation \notin Stations
  BY LegFacts, NumberFacts
<1>6. l.board < z BY <1>5
<1>7. s \in UsableLegs(tab)
  <2>1. StationAt(tab[l.inst[1]], l.board) # NoStation /\ Dep(tab, l.inst, l.board) >= QueryTime
    BY <1>5 DEF From, LegDep
  <2> QED BY <1>5, <1>6, <2>1, MadeOfStops
<1> QED BY <1>2, <1>3, <1>4, <1>7

\* Boarding at an earlier stop.
LEMMA EarlierLeg ==
  ASSUME NEW tab \in Timetables, NEW l \in UsableLegs(tab), NEW b \in Nat, 1 <= b, b < l.board,
         StationAt(tab[l.inst[1]], b) # NoStation, Dep(tab, l.inst, b) >= QueryTime
  PROVE  LET r == [l EXCEPT !.board = b] IN
         /\ r \in UsableLegs(tab) /\ r.inst = l.inst /\ r.board = b /\ r.alight = l.alight
         /\ From(tab, r) = StationAt(tab[l.inst[1]], b) /\ LegDep(tab, r) = Dep(tab, l.inst, b)
         /\ To(tab, r) = To(tab, l) /\ LegArr(tab, r) = LegArr(tab, l)
<1> DEFINE r == [l EXCEPT !.board = b]
           s == [inst |-> l.inst, board |-> b, alight |-> l.alight]
<1>1. PICK i \in Instances(tab, Weekday, Horizon), d \in 1..MaxStops(tab), a \in 1..MaxStops(tab) :
        l = [inst |-> i, board |-> d, alight |-> a]
  BY DEF UsableLegs, Legs
<1>2. r = s BY <1>1
<1>3. r.inst = l.inst /\ r.board = b /\ r.alight = l.alight BY <1>2
<1>4. /\ From(tab, r) = StationAt(tab[l.inst[1]], b) /\ LegDep(tab, r) = Dep(tab, l.inst, b)
      /\ To(tab, r) = To(tab, l) /\ LegArr(tab, r) = LegArr(tab, l)
  <2> HIDE DEF r
  <2> QED BY <1>3 DEF From, To, LegDep, LegArr
<1>5. /\ l.inst \in Instances(tab, Weekday, Horizon) /\ l.board \in Nat /\ l.alight \in Nat
      /\ l.board < l.alight /\ l.alight <= Len(tab[l.inst[1]].stops) /\ LegArr(tab, l) <= Latest
      /\ To(tab, l) \in Stations /\ NoStation \notin Stations
  BY LegFacts, NumberFacts
<1>6. b < l.alight BY <1>5
<1>7. s \in UsableLegs(tab)
  <2>1. StationAt(tab[l.inst[1]], l.alight) # NoStation /\ Arr(tab, l.inst, l.alight) <= Latest
    BY <1>5 DEF To, LegArr
  <2> QED BY <1>5, <1>6, <2>1, MadeOfStops
<1> QED BY <1>2, <1>3, <1>4, <1>7

\* The legs of a journey, and when each is boarded at the earliest.
LEMMA BoardedInTime ==
  ASSUME NEW tab \in Timetables, NEW mt \in Nat, NEW J \in AllJourneys(tab, mt)
  PROVE  /\ J \in Seq(UsableLegs(tab)) /\ Len(J) \in Nat /\ Len(J) >= 1 /\ DOMAIN J = 1..Len(J)
         /\ \A n \in 1..Len(J) : J[n] \in UsableLegs(tab)
         /\ LegDep(tab, J[1]) \in LegDep(tab, J[1])..LastFirstDeparture
         /\ \A n \in 2..Len(J) : LegDep(tab, J[n]) >= LegArr(tab, J[n - 1]) + TR
         /\ \A n \in 2..Len(J) : LegArr(tab, J[n - 1]) >= QueryTime
<1>1. /\ J \in Seq(UsableLegs(tab)) /\ Len(J) \in Nat /\ Len(J) >= 1 /\ Connected(tab, J)
  BY JourneyFacts
<1>2. \A n \in 1..Len(J) : J[n] \in UsableLegs(tab) BY <1>1
<1>3. 1 \in 1..Len(J) BY <1>1
<1>4. LegDep(tab, J[1]) \in LegDep(tab, J[1])..LastFirstDeparture
  <2>1. LegDep(tab, J[1]) \in Int /\ LastFirstDeparture \in Int BY <1>2, <1>3, LegFacts, NumberFacts
  <2>2. LegDep(tab, J[1]) \in QueryTime..LastFirstDeparture BY <1>1 DEF Connected
  <2>3. QueryTime \in Int BY NumberFacts
  <2> QED BY <2>1, <2>2, <2>3
<1>5. ASSUME NEW n \in 2..Len(J)
      PROVE  LegDep(tab, J[n]) >= LegArr(tab, J[n - 1]) + TR /\ LegArr(tab, J[n - 1]) >= QueryTime
  <2>1. n - 1 \in 1..Len(J) - 1 /\ (n - 1) + 1 = n /\ n - 1 \in 1..Len(J) BY <1>1
  <2>2. LegDep(tab, J[(n - 1) + 1]) >= LegArr(tab, J[n - 1]) + TR BY <1>1, <2>1 DEF Connected
  <2>3. J[n - 1] \in UsableLegs(tab) BY <1>2, <2>1
  <2> DEFINE l == J[n - 1]
             i == l.inst
             s == Len(tab[i[1]].stops)
  <2>4. /\ i \in Instances(tab, Weekday, Horizon) /\ l.board \in Nat /\ l.alight \in Nat
        /\ 1 <= l.board /\ l.board < l.alight /\ l.alight <= s
        /\ LegDep(tab, l) \in Int /\ LegArr(tab, l) \in Int /\ LegDep(tab, l) >= QueryTime
    BY <2>3, LegFacts
  <2>5. /\ s \in Nat
        /\ \A k \in 1..s - 1 : Dep(tab, i, k) \in Int /\ Arr(tab, i, k + 1) \in Int /\ Dep(tab, i, k) <= Arr(tab, i, k + 1)
        /\ \A j, k \in 1..s - 1 : j <= k => Dep(tab, i, j) <= Dep(tab, i, k)
    BY <2>4, InstanceFacts
  <2>6. LegDep(tab, l) = Dep(tab, i, l.board) /\ LegArr(tab, l) = Arr(tab, i, l.alight) BY DEF LegDep, LegArr
  <2> HIDE DEF s, i, l
  <2>7. l.board \in 1..s - 1 /\ l.alight - 1 \in 1..s - 1 /\ l.board <= l.alight - 1 /\ (l.alight - 1) + 1 = l.alight
    <3> DEFINE b == l.board
               a == l.alight
    <3>1. b \in Nat /\ a \in Nat /\ s \in Nat /\ 1 <= b /\ b < a /\ a <= s BY <2>4, <2>5
    <3> HIDE DEF a, b
    <3>2. b \in 1..s - 1 /\ a - 1 \in 1..s - 1 /\ b <= a - 1 /\ (a - 1) + 1 = a BY <3>1
    <3> QED BY <3>2 DEF a, b
  <2>8. /\ Dep(tab, i, l.board) <= Dep(tab, i, l.alight - 1) /\ Dep(tab, i, l.alight - 1) <= Arr(tab, i, l.alight)
        /\ Dep(tab, i, l.alight - 1) \in Int
    BY <2>5, <2>7
  <2>9. LegArr(tab, l) >= QueryTime
    <3>1. QueryTime \in Int BY NumberFacts
    <3> QED BY <2>4, <2>6, <2>8, <3>1
  <2> QED BY <2>1, <2>2, <2>9 DEF l
<1> QED BY <1>1, <1>2, <1>4, <1>5

\* leaves_train_early and boards_train_late find the journeys that make J
\* pointless, and no others.
LEMMA LeavingEarlyIsPointless ==
  ASSUME Given, NEW J \in AllJourneys(tt, MaxTransfers), LeavesTrainEarly(J)
  PROVE  \E L \in StayOns(tt, J) :
           Valid(tt, MaxTransfers, L) /\ Better(tt, L, J) /\ L \in AllJourneys(tt, MaxTransfers)
<1> DEFINE N == Len(J)
<1>1. tt \in Timetables /\ MaxTransfers \in Nat BY LimitFacts DEF Given
<1>2. /\ N \in Nat /\ \A n \in 1..N : J[n] \in UsableLegs(tt)
      /\ LegDep(tt, J[1]) \in LegDep(tt, J[1])..LastFirstDeparture
      /\ \A n \in 2..N : LegDep(tt, J[n]) >= LegArr(tt, J[n - 1]) + TR
  BY <1>1, BoardedInTime
<1>3. PICK n \in 1..N : \E m \in n + 1..N :
        LET train == tt[J[n].inst[1]]
            calls == {z \in J[n].alight + 1..Len(train.stops) : StationAt(train, z) = To(tt, J[m])}
        IN  /\ calls # {}
            /\ Arr(tt, J[n].inst, Min(calls)) <= LegArr(tt, J[m])
            /\ TouchesOnce(tt, Splice(J, n, m, [J[n] EXCEPT !.alight = Min(calls)]))
  BY DEF LeavesTrainEarly
<1>31. PICK m \in n + 1..N :
        LET train == tt[J[n].inst[1]]
            calls == {z \in J[n].alight + 1..Len(train.stops) : StationAt(train, z) = To(tt, J[m])}
        IN  /\ calls # {}
            /\ Arr(tt, J[n].inst, Min(calls)) <= LegArr(tt, J[m])
            /\ TouchesOnce(tt, Splice(J, n, m, [J[n] EXCEPT !.alight = Min(calls)]))
  BY <1>3
<1> DEFINE i == J[n].inst
           s == Len(tt[i[1]].stops)
           calls == {x \in J[n].alight + 1..s : StationAt(tt[i[1]], x) = To(tt, J[m])}
           z == Min(calls)
           leg == [J[n] EXCEPT !.alight = z]
           L == Splice(J, n, m, leg)
<1>4. calls # {} /\ Arr(tt, i, z) <= LegArr(tt, J[m]) /\ TouchesOnce(tt, L) BY <1>31
<1>5. n \in Nat /\ m \in 1..N /\ n < m /\ J[n] \in UsableLegs(tt) /\ J[m] \in UsableLegs(tt)
  <2>1. n \in Nat /\ m \in 1..N /\ n < m BY <1>2
  <2> QED BY <1>2, <2>1
<1>6. /\ i \in Instances(tt, Weekday, Horizon) /\ J[n].alight \in Nat /\ J[n].alight >= 1
      /\ To(tt, J[m]) \in Stations /\ LegArr(tt, J[m]) \in Int /\ LegArr(tt, J[m]) <= Latest
  BY <1>1, <1>5, LegFacts
<1>7. s \in Nat /\ \A k \in 1..s - 1 : Arr(tt, i, k + 1) \in Int BY <1>1, <1>6, InstanceFacts
<1>8. z \in calls
  <2>1. calls \subseteq J[n].alight + 1..s /\ J[n].alight + 1 \in Int /\ s \in Int BY <1>6, <1>7
  <2> HIDE DEF calls
  <2> QED BY <1>4, <2>1, MinOf
<1>9. z \in J[n].alight + 1..s /\ StationAt(tt[i[1]], z) = To(tt, J[m])
  <2> HIDE DEF z
  <2> QED BY <1>8
<1> HIDE DEF calls, z, s
<1>10. z \in Nat /\ z > J[n].alight /\ z <= s /\ z \in 1..s /\ z - 1 \in 1..s - 1 /\ (z - 1) + 1 = z
  <2> DEFINE a == J[n].alight
  <2>1. a \in Nat /\ a >= 1 /\ s \in Nat /\ z \in a + 1..s BY <1>6, <1>7, <1>9
  <2> HIDE DEF a
  <2>2. z \in Nat /\ z > a /\ z <= s /\ z \in 1..s /\ z - 1 \in 1..s - 1 /\ (z - 1) + 1 = z BY <2>1
  <2> QED BY <2>2 DEF a
<1>11. Arr(tt, i, z) \in Int /\ Arr(tt, i, z) <= Latest
  <2>1. Arr(tt, i, (z - 1) + 1) \in Int BY <1>7, <1>10
  <2>2. Latest \in Int BY NumberFacts
  <2> QED BY <1>4, <1>6, <1>10, <2>1, <2>2
<1>12. /\ leg \in UsableLegs(tt) /\ leg.inst = i
       /\ From(tt, leg) = From(tt, J[n]) /\ LegDep(tt, leg) = LegDep(tt, J[n])
       /\ To(tt, leg) = StationAt(tt[i[1]], z) /\ LegArr(tt, leg) = Arr(tt, i, z)
  <2>1. StationAt(tt[i[1]], z) # NoStation BY <1>6, <1>9, NumberFacts
  <2> QED BY <1>1, <1>5, <1>10, <1>11, <2>1, LongerLeg DEF s
<1> HIDE DEF leg
<1>13. Valid(tt, MaxTransfers, L) /\ Better(tt, L, J) /\ L \in AllJourneys(tt, MaxTransfers)
  <2>1. n \in n..m /\ leg.inst[1] = J[n].inst[1] BY <1>5, <1>12
  <2>2. n = 1 => LegDep(tt, leg) \in LegDep(tt, J[1])..LastFirstDeparture BY <1>2, <1>12
  <2>3. n # 1 => LegDep(tt, leg) >= LegArr(tt, J[n - 1]) + TR
    <3>1. n # 1 => n \in 2..N BY <1>2, <1>5
    <3> QED BY <1>2, <1>12, <3>1
  <2>4. From(tt, leg) = From(tt, J[n]) /\ To(tt, leg) = To(tt, J[m]) /\ LegArr(tt, leg) <= LegArr(tt, J[m])
    BY <1>4, <1>9, <1>12
  <2> QED BY <1>1, <1>4, <1>5, <1>12, <2>1, <2>2, <2>3, <2>4, SpliceIsBetter
<1>14. L \in StayOns(tt, J)
  <2> DEFINE y == <<n, m, z>>
  <2>1. MaxStops(tt) \in Nat /\ s <= MaxStops(tt)
    <3>1. i[1] \in 1..Len(tt) BY <1>1, <1>6, InstanceFacts
    <3> QED BY <1>1, <3>1, MaxStopsType DEF s
  <2>2. z \in 1..MaxStops(tt) BY <1>7, <1>10, <2>1
  <2>3. y \in (1..Len(J)) \X (1..Len(J)) \X (1..MaxStops(tt)) BY <1>5, <2>2
  <2>4. y[1] = n /\ y[2] = m /\ y[3] = z OBVIOUS
  <2>5. /\ y[1] < y[2] /\ y[3] > J[y[1]].alight /\ y[3] <= Len(tt[J[y[1]].inst[1]].stops)
        /\ StationAt(tt[J[y[1]].inst[1]], y[3]) = To(tt, J[y[2]])
        /\ Arr(tt, J[y[1]].inst, y[3]) <= LegArr(tt, J[y[2]])
    BY <1>4, <1>5, <1>9, <1>10 DEF s
  <2>6. L = Splice(J, y[1], y[2], [J[y[1]] EXCEPT !.alight = y[3]]) BY DEF leg
  <2> HIDE DEF y, L
  <2> QED BY <2>3, <2>5, <2>6 DEF StayOns
<1> QED BY <1>13, <1>14

\* What boards_train_late finds is pointless.
LEMMA BoardingLateIsPointless ==
  ASSUME Given, NEW J \in AllJourneys(tt, MaxTransfers), BoardsTrainLate(J)
  PROVE  \E L \in BoardEarliers(tt, J) :
           Valid(tt, MaxTransfers, L) /\ Better(tt, L, J) /\ L \in AllJourneys(tt, MaxTransfers)
<1> DEFINE N == Len(J)
<1>1. tt \in Timetables /\ MaxTransfers \in Nat BY LimitFacts DEF Given
<1>2. /\ N \in Nat /\ \A n \in 1..N : J[n] \in UsableLegs(tt)
      /\ \A n \in 2..N : LegArr(tt, J[n - 1]) >= QueryTime
  BY <1>1, BoardedInTime
<1>3. PICK n \in 2..N : \E m \in 1..n - 1 : \E b \in 1..J[n].board - 1 :
        LET dep == Dep(tt, J[n].inst, b)
        IN  /\ StationAt(tt[J[n].inst[1]], b) = From(tt, J[m])
            /\ IF m = 1 THEN dep \in LegDep(tt, J[1])..LastFirstDeparture
                        ELSE dep >= LegArr(tt, J[m - 1]) + TR
            /\ TouchesOnce(tt, Splice(J, m, n, [J[n] EXCEPT !.board = b]))
  BY DEF BoardsTrainLate
<1>31. PICK m \in 1..n - 1 : \E b \in 1..J[n].board - 1 :
        LET dep == Dep(tt, J[n].inst, b)
        IN  /\ StationAt(tt[J[n].inst[1]], b) = From(tt, J[m])
            /\ IF m = 1 THEN dep \in LegDep(tt, J[1])..LastFirstDeparture
                        ELSE dep >= LegArr(tt, J[m - 1]) + TR
            /\ TouchesOnce(tt, Splice(J, m, n, [J[n] EXCEPT !.board = b]))
  BY <1>3
<1>32. PICK b \in 1..J[n].board - 1 :
        LET dep == Dep(tt, J[n].inst, b)
        IN  /\ StationAt(tt[J[n].inst[1]], b) = From(tt, J[m])
            /\ IF m = 1 THEN dep \in LegDep(tt, J[1])..LastFirstDeparture
                        ELSE dep >= LegArr(tt, J[m - 1]) + TR
            /\ TouchesOnce(tt, Splice(J, m, n, [J[n] EXCEPT !.board = b]))
  BY <1>31
<1> DEFINE i == J[n].inst
           dep == Dep(tt, i, b)
           leg == [J[n] EXCEPT !.board = b]
           L == Splice(J, m, n, leg)
<1>4. /\ StationAt(tt[i[1]], b) = From(tt, J[m]) /\ TouchesOnce(tt, L)
      /\ m = 1 => dep \in LegDep(tt, J[1])..LastFirstDeparture
      /\ m # 1 => dep >= LegArr(tt, J[m - 1]) + TR
  BY <1>32
<1>5. n \in 1..N /\ m \in 1..N /\ m < n /\ J[n] \in UsableLegs(tt) /\ J[m] \in UsableLegs(tt)
  <2>1. n \in 1..N /\ m \in 1..N /\ m < n BY <1>2
  <2> QED BY <1>2, <2>1
<1>6. /\ i \in Instances(tt, Weekday, Horizon) /\ J[n].board \in Nat /\ J[n].board < J[n].alight
      /\ J[n].alight <= Len(tt[i[1]].stops) /\ J[n].alight \in Nat
      /\ From(tt, J[m]) \in Stations /\ LegArr(tt, J[n]) \in Int
  BY <1>1, <1>5, LegFacts
<1>7. b \in Nat /\ 1 <= b /\ b < J[n].board
  <2> DEFINE d == J[n].board
  <2>1. d \in Nat /\ b \in 1..d - 1 BY <1>6
  <2> HIDE DEF d
  <2>2. b \in Nat /\ 1 <= b /\ b < d BY <2>1
  <2> QED BY <2>2 DEF d
<1>71. dep \in Int
  <2> DEFINE s == Len(tt[i[1]].stops)
  <2>1. s \in Nat /\ \A k \in 1..s - 1 : Dep(tt, i, k) \in Int BY <1>1, <1>6, InstanceFacts
  <2>2. b \in 1..s - 1 
    <3> DEFINE d == J[n].board
               a == J[n].alight
    <3>1. d \in Nat /\ a \in Nat /\ b \in Nat /\ 1 <= b /\ b < d /\ d < a /\ a <= s BY <1>6, <1>7
    <3> HIDE DEF d, a, s
    <3> QED BY <2>1, <3>1
  <2> QED BY <2>1, <2>2
<1>8. dep >= QueryTime
  <2>1. QueryTime \in Int /\ TR \in Nat /\ LastFirstDeparture \in Int BY NumberFacts
  <2>2. CASE m = 1
    <3>1. LegDep(tt, J[1]) \in Int /\ LegDep(tt, J[1]) >= QueryTime BY <1>1, <1>5, <2>2, LegFacts
    <3>2. dep \in LegDep(tt, J[1])..LastFirstDeparture BY <1>4, <2>2
    <3> HIDE DEF dep
    <3> QED BY <1>71, <2>1, <3>1, <3>2
  <2>3. CASE m # 1
    <3>1. m \in 2..N /\ m - 1 \in 1..N BY <1>2, <1>5, <2>3
    <3>2. LegArr(tt, J[m - 1]) >= QueryTime BY <1>2, <3>1
    <3>3. J[m - 1] \in UsableLegs(tt) BY <1>2, <3>1
    <3>4. LegArr(tt, J[m - 1]) \in Int BY <1>1, <3>3, LegFacts
    <3>5. dep >= LegArr(tt, J[m - 1]) + TR BY <1>4, <2>3
    <3> HIDE DEF dep
    <3> QED BY <1>71, <2>1, <3>2, <3>4, <3>5
  <2> QED BY <2>2, <2>3
<1>9. /\ leg \in UsableLegs(tt) /\ leg.inst = i
      /\ From(tt, leg) = StationAt(tt[i[1]], b) /\ LegDep(tt, leg) = dep
      /\ To(tt, leg) = To(tt, J[n]) /\ LegArr(tt, leg) = LegArr(tt, J[n])
  <2>1. StationAt(tt[i[1]], b) # NoStation BY <1>4, <1>6, NumberFacts
  <2> QED BY <1>1, <1>5, <1>7, <1>8, <2>1, EarlierLeg
<1> HIDE DEF leg, dep
<1>13. Valid(tt, MaxTransfers, L) /\ Better(tt, L, J) /\ L \in AllJourneys(tt, MaxTransfers)
  <2>1. n \in m..n /\ leg.inst[1] = J[n].inst[1] BY <1>5, <1>9
  <2>2. m = 1 => LegDep(tt, leg) \in LegDep(tt, J[1])..LastFirstDeparture BY <1>4, <1>9
  <2>3. m # 1 => LegDep(tt, leg) >= LegArr(tt, J[m - 1]) + TR BY <1>4, <1>9
  <2>4. From(tt, leg) = From(tt, J[m]) /\ To(tt, leg) = To(tt, J[n]) /\ LegArr(tt, leg) <= LegArr(tt, J[n])
    BY <1>4, <1>6, <1>9
  <2> QED BY <1>1, <1>4, <1>5, <1>9, <2>1, <2>2, <2>3, <2>4, SpliceIsBetter
<1>14. L \in BoardEarliers(tt, J)
  <2> DEFINE y == <<m, n, b>>
  <2>1. b \in 1..MaxStops(tt)
    <3> DEFINE d == J[n].board
               a == J[n].alight
               s == Len(tt[i[1]].stops)
               M == MaxStops(tt)
    <3>1. i[1] \in 1..Len(tt) /\ s \in Nat BY <1>1, <1>6, InstanceFacts
    <3>2. M \in Nat /\ s <= M BY <1>1, <3>1, MaxStopsType
    <3>3. d \in Nat /\ a \in Nat /\ b \in Nat /\ 1 <= b /\ b < d /\ d < a /\ a <= s BY <1>6, <1>7
    <3> HIDE DEF d, a, s, M
    <3>4. b \in 1..M BY <3>1, <3>2, <3>3
    <3> QED BY <3>4 DEF M
  <2>3. y \in (1..Len(J)) \X (1..Len(J)) \X (1..MaxStops(tt)) BY <1>5, <2>1
  <2>4. y[1] = m /\ y[2] = n /\ y[3] = b OBVIOUS
  <2>5. /\ y[1] < y[2] /\ y[3] < J[y[2]].board
        /\ StationAt(tt[J[y[2]].inst[1]], y[3]) = From(tt, J[y[1]])
    BY <1>4, <1>5, <1>7
  <2>6. L = Splice(J, y[1], y[2], [J[y[2]] EXCEPT !.board = y[3]]) BY DEF leg
  <2> HIDE DEF y, L
  <2> QED BY <2>3, <2>5, <2>6 DEF BoardEarliers
<1> QED BY <1>13, <1>14

\* What changes when a leg ends or starts elsewhere.
LEMMA LegChanged ==
  ASSUME NEW tab \in Timetables, NEW l \in UsableLegs(tab), NEW z
  PROVE  /\ [l EXCEPT !.alight = z].inst = l.inst /\ [l EXCEPT !.alight = z].board = l.board
         /\ [l EXCEPT !.alight = z].alight = z
         /\ [l EXCEPT !.board = z].inst = l.inst /\ [l EXCEPT !.board = z].board = z
         /\ [l EXCEPT !.board = z].alight = l.alight
<1>1. PICK i \in Instances(tab, Weekday, Horizon), d \in 1..MaxStops(tab), a \in 1..MaxStops(tab) :
        l = [inst |-> i, board |-> d, alight |-> a]
  BY DEF UsableLegs, Legs
<1> QED BY <1>1

\* leaves_train_early finds every stay-on that the reference accepts ...
LEMMA StayingOnIsFound ==
  ASSUME Given, NEW J \in AllJourneys(tt, MaxTransfers), NEW L \in StayOns(tt, J), Valid(tt, MaxTransfers, L)
  PROVE  LeavesTrainEarly(J)
<1> DEFINE N == Len(J)
<1>1. tt \in Timetables /\ MaxTransfers \in Nat BY LimitFacts DEF Given
<1>2. J \in Seq(UsableLegs(tt)) /\ N \in Nat /\ \A n \in 1..N : J[n] \in UsableLegs(tt)
  BY <1>1, BoardedInTime
<1>3. PICK y \in (1..Len(J)) \X (1..Len(J)) \X (1..MaxStops(tt)) :
        /\ L = Splice(J, y[1], y[2], [J[y[1]] EXCEPT !.alight = y[3]])
        /\ y[1] < y[2] /\ y[3] > J[y[1]].alight /\ y[3] <= Len(tt[J[y[1]].inst[1]].stops)
        /\ StationAt(tt[J[y[1]].inst[1]], y[3]) = To(tt, J[y[2]])
        /\ Arr(tt, J[y[1]].inst, y[3]) <= LegArr(tt, J[y[2]])
  BY DEF StayOns
<1> DEFINE n == y[1]
           m == y[2]
           z == y[3]
           i == J[n].inst
           s == Len(tt[i[1]].stops)
           leg == [J[n] EXCEPT !.alight = z]
           calls == {x \in J[n].alight + 1..s : StationAt(tt[i[1]], x) = To(tt, J[m])}
           f == Min(calls)
<1>4. /\ n \in 1..N /\ m \in 1..N /\ n < m /\ L = Splice(J, n, m, leg) /\ z > J[n].alight /\ z <= s
      /\ StationAt(tt[i[1]], z) = To(tt, J[m]) /\ Arr(tt, i, z) <= LegArr(tt, J[m])
      /\ J[n] \in UsableLegs(tt) /\ J[m] \in UsableLegs(tt) /\ z \in 1..MaxStops(tt)
  BY <1>2, <1>3
<1> HIDE DEF n, m, z
<1>5. /\ i \in Instances(tt, Weekday, Horizon) /\ J[n].alight \in Nat /\ J[n].board \in Nat
      /\ J[n].board < J[n].alight /\ To(tt, J[m]) \in Stations /\ NoStation \notin Stations
  BY <1>1, <1>4, LegFacts, NumberFacts
<1>6. s \in Nat /\ MaxStops(tt) \in Nat BY <1>1, <1>5, InstanceFacts, MaxStopsType
<1>7. leg \in UsableLegs(tt)
  <2> DEFINE M == MaxStops(tt)
             legs == Legs(tt)
             p == J[n]
  <2>1. PICK k \in Instances(tt, Weekday, Horizon), d \in 1..M, a \in 1..M :
          p = [inst |-> k, board |-> d, alight |-> a]
    BY <1>4 DEF UsableLegs, Legs
  <2>2. leg = [inst |-> k, board |-> d, alight |-> z] BY <2>1
  <2>3. leg \in Legs(tt) BY <1>4, <2>2 DEF Legs
  <2>4. leg.inst = i /\ leg.board = p.board /\ leg.alight = z BY <2>1, <2>2
  <2>5. From(tt, leg) = From(tt, p) /\ LegDep(tt, leg) = LegDep(tt, p)
        /\ To(tt, leg) = To(tt, J[m]) /\ LegArr(tt, leg) = Arr(tt, i, z)
    <3> HIDE DEF leg
    <3> QED BY <1>4, <2>4 DEF From, To, LegDep, LegArr
  <2>6. /\ From(tt, p) \in Stations /\ LegDep(tt, p) >= QueryTime
        /\ LegArr(tt, J[m]) <= Latest /\ LegArr(tt, J[m]) \in Int /\ Latest \in Int
    <3>1. From(tt, p) \in Stations /\ LegDep(tt, p) >= QueryTime BY <1>1, <1>4, LegFacts
    <3>2. LegArr(tt, J[m]) <= Latest /\ LegArr(tt, J[m]) \in Int BY <1>1, <1>4, LegFacts
    <3> QED BY <3>1, <3>2, NumberFacts
  <2>7. Arr(tt, i, z) \in Int
    <3> DEFINE a1 == p.alight
    <3>1. \A j \in 1..s - 1 : Arr(tt, i, j + 1) \in Int BY <1>1, <1>5, InstanceFacts
    <3>2. p.alight \in Nat /\ p.alight >= 1 /\ z \in Nat
      <4>1. z \in Nat BY <1>4, <1>6
      <4>2. p.alight \in Nat /\ p.board \in Nat /\ p.board >= 1 /\ p.board < p.alight BY <1>1, <1>4, LegFacts
      <4> HIDE DEF p
      <4> QED BY <4>1, <4>2
    <3>3. z - 1 \in 1..s - 1 /\ (z - 1) + 1 = z
      <4>1. z > a1 /\ z <= s /\ a1 \in Nat /\ a1 >= 1 BY <1>4, <3>2
      <4> HIDE DEF a1, s
      <4> QED BY <1>6, <3>2, <4>1
    <3> QED BY <3>1, <3>3
  <2>8. LegArr(tt, leg) <= Latest BY <1>4, <2>5, <2>6, <2>7
  <2>9. leg.board < leg.alight
    <3> DEFINE a1 == p.alight
               b1 == p.board
    <3>1. z > a1 /\ a1 \in Nat /\ b1 \in Nat /\ b1 < a1 /\ z \in Nat BY <1>4, <1>5, <1>6
    <3> HIDE DEF a1, b1
    <3>2. b1 < z BY <3>1
    <3> QED BY <2>4, <3>2 DEF b1
  <2>10. leg.alight <= Len(tt[leg.inst[1]].stops) BY <1>4, <2>4
  <2>11. From(tt, leg) # NoStation /\ To(tt, leg) # NoStation /\ LegDep(tt, leg) >= QueryTime
    BY <1>5, <2>5, <2>6
  <2> HIDE DEF leg
  <2> QED BY <2>3, <2>8, <2>9, <2>10, <2>11 DEF UsableLegs
<1>8. leg.inst = i /\ leg.board = J[n].board /\ leg.alight = z BY <1>1, <1>4, LegChanged
<1> HIDE DEF leg
<1>9. L \in Seq(UsableLegs(tt)) /\ L[n] = leg /\ n \in DOMAIN L
  <2>1. Spliced(L, UsableLegs(tt), J, n, m, leg)
    <3>1. n <= m /\ n \in 1..Len(J) /\ m \in 1..Len(J) BY <1>4
    <3> QED BY <1>2, <1>4, <1>7, <3>1, SpliceFacts
  <2>2. L \in Seq(UsableLegs(tt)) /\ Len(L) = N - (m - n) /\ L[n] = leg BY <2>1 DEF Spliced
  <2>3. n \in 1..Len(L) BY <1>2, <1>4, <2>2
  <2> QED BY <2>2, <2>3
<1>10. z \in calls BY <1>4, <1>5, <1>6
<1>11. f \in calls /\ \A x \in calls : f <= x
  <2>1. calls \subseteq J[n].alight + 1..s /\ J[n].alight + 1 \in Int /\ s \in Int BY <1>5, <1>6
  <2> HIDE DEF calls
  <2> QED BY <1>10, <2>1, MinOf
<1>12. f \in J[n].alight + 1..s /\ StationAt(tt[i[1]], f) = To(tt, J[m])
  <2> HIDE DEF f
  <2> QED BY <1>11
<1>13. f <= z BY <1>10, <1>11
<1> HIDE DEF f
<1>14. f = z
  <2>1. <<n, f>> \in Calls(L) /\ <<n, z>> \in Calls(L)
    <3> DEFINE a == J[n].alight
               b == J[n].board
    <3>1. /\ a \in Nat /\ b \in Nat /\ b < a /\ f \in a + 1..s /\ z \in Nat /\ z > a /\ s \in Nat /\ f <= z
      BY <1>4, <1>5, <1>6, <1>12, <1>13
    <3> HIDE DEF a, b, s
    <3>2. f \in b + 1..z /\ z \in b + 1..z BY <3>1
    <3>3. f \in L[n].board + 1..L[n].alight /\ z \in L[n].board + 1..L[n].alight BY <1>8, <1>9, <3>2 DEF b
    <3>4. <<n, f>> \in {n} \X (L[n].board + 1..L[n].alight) /\ <<n, z>> \in {n} \X (L[n].board + 1..L[n].alight)
      BY <3>3
    <3> QED BY <1>9, <3>4 DEF Calls
  <2>2. CalledAt(tt, L, <<n, f>>) = To(tt, J[m]) /\ CalledAt(tt, L, <<n, z>>) = To(tt, J[m])
    BY <1>4, <1>8, <1>9, <1>12 DEF CalledAt
  <2>3. TouchesOnce(tt, L) BY DEF Valid, Connected
  <2>4. CalledAt(tt, L, <<n, f>>) # NoStation BY <1>5, <2>2
  <2>5. <<n, f>> = <<n, z>> BY <2>1, <2>2, <2>3, <2>4 DEF TouchesOnce
  <2> QED BY <2>5
<1>15. /\ calls # {} /\ Arr(tt, J[n].inst, Min(calls)) <= LegArr(tt, J[m])
       /\ TouchesOnce(tt, Splice(J, n, m, [J[n] EXCEPT !.alight = Min(calls)]))
  <2>1. Min(calls) = z BY <1>14 DEF f
  <2>2. TouchesOnce(tt, L) BY DEF Valid, Connected
  <2>3. L = Splice(J, n, m, [J[n] EXCEPT !.alight = z]) BY <1>4 DEF leg
  <2> HIDE DEF calls
  <2> QED BY <1>4, <1>10, <2>1, <2>2, <2>3
<1>16. m \in n + 1..N BY <1>2, <1>4
<1> QED BY <1>4, <1>15, <1>16 DEF LeavesTrainEarly

\* ... and boards_train_late every earlier boarding.
LEMMA BoardingEarlierIsFound ==
  ASSUME Given, NEW J \in AllJourneys(tt, MaxTransfers), NEW L \in BoardEarliers(tt, J),
         Valid(tt, MaxTransfers, L), Better(tt, L, J)
  PROVE  BoardsTrainLate(J)
<1> DEFINE N == Len(J)
<1>1. tt \in Timetables /\ MaxTransfers \in Nat BY LimitFacts DEF Given
<1>2. J \in Seq(UsableLegs(tt)) /\ N \in Nat /\ \A n \in 1..N : J[n] \in UsableLegs(tt)
  BY <1>1, BoardedInTime
<1>3. PICK y \in (1..Len(J)) \X (1..Len(J)) \X (1..MaxStops(tt)) :
        /\ L = Splice(J, y[1], y[2], [J[y[2]] EXCEPT !.board = y[3]])
        /\ y[1] < y[2] /\ y[3] < J[y[2]].board
        /\ StationAt(tt[J[y[2]].inst[1]], y[3]) = From(tt, J[y[1]])
  BY DEF BoardEarliers
<1> DEFINE m == y[1]
           n == y[2]
           b == y[3]
           i == J[n].inst
           leg == [J[n] EXCEPT !.board = b]
           dep == Dep(tt, i, b)
<1>4. /\ n \in 1..N /\ m \in 1..N /\ m < n /\ L = Splice(J, m, n, leg) /\ b < J[n].board
      /\ StationAt(tt[i[1]], b) = From(tt, J[m])
      /\ J[n] \in UsableLegs(tt) /\ J[m] \in UsableLegs(tt) /\ b \in 1..MaxStops(tt)
  BY <1>2, <1>3
<1> HIDE DEF n, m, b
<1>5. /\ i \in Instances(tt, Weekday, Horizon) /\ J[n].alight \in Nat /\ J[n].board \in Nat
      /\ J[n].board < J[n].alight /\ MaxStops(tt) \in Nat
  BY <1>1, <1>4, LegFacts, MaxStopsType
<1>6. b \in 1..J[n].board - 1 /\ n \in 2..N /\ m \in 1..n - 1
  <2> DEFINE d == J[n].board
             M == MaxStops(tt)
  <2>1. d \in Nat /\ M \in Nat /\ b \in 1..M /\ b < d BY <1>4, <1>5
  <2> HIDE DEF d, M
  <2>2. b \in 1..d - 1 BY <2>1
  <2>3. n \in 2..N /\ m \in 1..n - 1 BY <1>2, <1>4
  <2> QED BY <2>2, <2>3 DEF d
<1>7. leg.inst = i /\ leg.board = b /\ leg.alight = J[n].alight BY <1>1, <1>4, LegChanged
<1>8. LegDep(tt, leg) = dep
  <2> HIDE DEF leg
  <2> QED BY <1>7 DEF LegDep
<1>9. L[m] = leg /\ (m # 1 => L[m - 1] = J[m - 1]) /\ Len(L) = N - (n - m)
  <2>1. Spliced(L, {J[j] : j \in 1..N} \cup {leg}, J, m, n, leg)
    <3>1. m <= n /\ m \in 1..Len(J) /\ n \in 1..Len(J) BY <1>4
    <3> DEFINE S == {J[j] : j \in 1..N} \cup {leg}
    <3>2. leg \in S OBVIOUS
    <3>3. J \in Seq(S)
      <4>1. J \in [1..N -> UsableLegs(tt)] BY <1>2
      <4>2. J \in [1..N -> S] BY <4>1
      <4> HIDE DEF S
      <4> QED BY <1>2, <4>2
    <3> HIDE DEF S
    <3>4. Spliced(Splice(J, m, n, leg), S, J, m, n, leg) BY <3>1, <3>2, <3>3, SpliceFacts
    <3> QED BY <1>4, <3>4 DEF S
  <2>2. m # 1 => m - 1 \in 1..m - 1 BY <1>2, <1>4
  <2> QED BY <2>1, <2>2 DEF Spliced
<1>10. Connected(tt, L) BY DEF Valid
<1>11. CASE m = 1
  <2>1. LegDep(tt, L[1]) \in QueryTime..LastFirstDeparture BY <1>10 DEF Connected
  <2>2. dep \in QueryTime..LastFirstDeparture BY <1>8, <1>9, <1>11, <2>1
  <2>3. dep >= LegDep(tt, J[1]) BY <1>8, <1>9, <1>11 DEF Better, Departure
  <2>4. J[1] \in UsableLegs(tt) BY <1>4, <1>11
  <2>5. LegDep(tt, J[1]) \in Int /\ QueryTime \in Int /\ LastFirstDeparture \in Int BY <1>1, <2>4, LegFacts, NumberFacts
  <2> HIDE DEF dep
  <2>6. dep \in LegDep(tt, J[1])..LastFirstDeparture BY <2>2, <2>3, <2>5
  <2>7. TouchesOnce(tt, Splice(J, m, n, [J[n] EXCEPT !.board = b])) BY <1>4, <1>10 DEF Connected
  <2> QED BY <1>4, <1>6, <1>11, <2>6, <2>7 DEF BoardsTrainLate, dep
<1>12. CASE m # 1
  <2>1. m - 1 \in 1..Len(L) - 1 /\ (m - 1) + 1 = m
    <3>1. Len(L) = N - (n - m) BY <1>9
    <3>2. N \in Nat /\ n \in 1..N /\ m \in 1..N /\ m < n BY <1>2, <1>4
    <3> HIDE DEF N
    <3>3. m - 1 \in 1..(N - (n - m)) - 1 /\ (m - 1) + 1 = m BY <1>12, <3>2
    <3> QED BY <3>1, <3>3
  <2>2. LegDep(tt, L[(m - 1) + 1]) >= LegArr(tt, L[m - 1]) + TR BY <1>10, <2>1 DEF Connected
  <2>3. dep >= LegArr(tt, J[m - 1]) + TR BY <1>8, <1>9, <1>12, <2>1, <2>2
  <2>7. TouchesOnce(tt, Splice(J, m, n, [J[n] EXCEPT !.board = b])) BY <1>4, <1>10 DEF Connected
  <2> HIDE DEF dep
  <2> QED BY <1>4, <1>6, <1>12, <2>3, <2>7 DEF BoardsTrainLate, dep
<1> QED BY <1>11, <1>12

\* Dominated is the code's test, Pointless the reference's: they agree on every
\* journey.
LEMMA DominatedIsPointless ==
  ASSUME Given, NEW J \in AllJourneys(tt, MaxTransfers)
  PROVE  Dominated(J) <=> Pointless(tt, MaxTransfers, J)
BY LeavingEarlyIsPointless, BoardingLateIsPointless, StayingOnIsFound, BoardingEarlierIsFound
   DEF Dominated, Pointless

\* What is dropped is dropped for a better journey.
LEMMA DominatedIsBeaten ==
  ASSUME Given, NEW J \in AllJourneys(tt, MaxTransfers), Dominated(J)
  PROVE  \E L \in AllJourneys(tt, MaxTransfers) : Better(tt, L, J)
BY LeavingEarlyIsPointless, BoardingLateIsPointless DEF Dominated

-----------------------------------------------------------------------------
(* Ceilings. *)

\* No train that goes on to the destination has called twice at a station before.
LoopFree(tab) ==
  PruneStayOn => \A t \in 1..Len(tab) : \A i, j, m \in 1..Len(tab[t].stops) :
    i < j /\ j < m /\ StationAt(tab[t], m) = Destination
      => StationAt(tab[t], i) # StationAt(tab[t], j) \/ StationAt(tab[t], i) = NoStation

\* The train of leg n goes on to the destination at stop m, and neither passes
\* it before nor comes to a station that J has called at up to leg n.
GoesOn(J, n, m) ==
  /\ PruneStayOn
  /\ m > J[n].alight /\ m <= Stops(J[n].inst)
  /\ StationAt(Train(J[n].inst), m) = Destination
  /\ \A j \in J[n].alight + 1..m - 1 :
       LET s == StationAt(Train(J[n].inst), j) IN
       /\ s # Destination /\ s # Source
       /\ s # NoStation => \A x \in Calls(J) : x[1] <= n => CalledAt(tt, J, x) # s

\* Without loops, a journey that leaves such a train and is no sooner at the
\* destination is pointless.
LEMMA LateIsPointless ==
  ASSUME Given, LoopFree(tt), NEW J \in AllJourneys(tt, MaxTransfers), NEW n \in 1..Len(J), n < Len(J),
         NEW m \in Nat, GoesOn(J, n, m), Arr(tt, J[n].inst, m) <= Arrival(tt, J)
  PROVE  Pointless(tt, MaxTransfers, J)
<1> DEFINE N == Len(J)
           i == J[n].inst
           s == Len(tt[i[1]].stops)
           a == J[n].alight
           leg == [J[n] EXCEPT !.alight = m]
           L == Splice(J, n, N, leg)
<1>1. tt \in Timetables /\ MaxTransfers \in Nat BY LimitFacts DEF Given
<1>2. /\ J \in Seq(UsableLegs(tt)) /\ N \in Nat /\ N >= 1 /\ DOMAIN J = 1..N
      /\ \A k \in 1..N : J[k] \in UsableLegs(tt)
      /\ LegDep(tt, J[1]) \in LegDep(tt, J[1])..LastFirstDeparture
      /\ \A k \in 2..N : LegDep(tt, J[k]) >= LegArr(tt, J[k - 1]) + TR
  BY <1>1, BoardedInTime
<1>3. Connected(tt, J) /\ To(tt, J[N]) = Destination BY <1>1, JourneyFacts
<1>4. From(tt, J[1]) = Source /\ TouchesOnce(tt, J) BY <1>3 DEF Connected
<1>5. n \in Nat /\ n >= 1 /\ N \in 1..N /\ n <= N BY <1>2
<1>6. /\ i \in Instances(tt, Weekday, Horizon) /\ J[n].board \in Nat /\ a \in Nat /\ J[n].board < a
      /\ J[N].alight \in Nat /\ J[N].board \in Nat /\ J[N].board < J[N].alight
      /\ LegArr(tt, J[N]) <= Latest /\ LegArr(tt, J[N]) \in Int
      /\ a >= 1
  <2>1. /\ i \in Instances(tt, Weekday, Horizon) /\ J[n].board \in Nat /\ a \in Nat /\ J[n].board < a /\ a >= 1
    BY <1>1, <1>2, LegFacts
  <2>2. /\ J[N].alight \in Nat /\ J[N].board \in Nat /\ J[N].board < J[N].alight
        /\ LegArr(tt, J[N]) <= Latest /\ LegArr(tt, J[N]) \in Int
    BY <1>1, <1>2, <1>5, LegFacts
  <2> QED BY <2>1, <2>2
<1>7. s \in Nat /\ i[1] \in 1..Len(tt) /\ \A k \in 1..s - 1 : Arr(tt, i, k + 1) \in Int
  BY <1>1, <1>6, InstanceFacts
<1>8. /\ PruneStayOn /\ m > a /\ m <= s /\ StationAt(tt[i[1]], m) = Destination
      /\ \A j \in a + 1..m - 1 :
           /\ StationAt(tt[i[1]], j) # Destination /\ StationAt(tt[i[1]], j) # Source
           /\ StationAt(tt[i[1]], j) # NoStation =>
                \A x \in Calls(J) : x[1] <= n => CalledAt(tt, J, x) # StationAt(tt[i[1]], j)
  BY DEF GoesOn, Train, Stops
<1> HIDE DEF s, a
<1>9. Arr(tt, i, m) \in Int /\ Arr(tt, i, m) <= LegArr(tt, J[N])
  <2>1. m - 1 \in 1..s - 1 /\ (m - 1) + 1 = m BY <1>6, <1>7, <1>8
  <2>2. Arr(tt, i, (m - 1) + 1) \in Int BY <1>7, <2>1
  <2> QED BY <2>1, <2>2 DEF Arrival
<1>10. /\ Destination \in Stations /\ Destination # Source /\ Destination # NoStation /\ Latest \in Int
  BY NumberFacts, QueryAssumption
<1>11. /\ leg \in UsableLegs(tt) /\ leg.inst = i /\ leg.board = J[n].board /\ leg.alight = m
       /\ From(tt, leg) = From(tt, J[n]) /\ LegDep(tt, leg) = LegDep(tt, J[n])
       /\ To(tt, leg) = Destination /\ LegArr(tt, leg) = Arr(tt, i, m)
  <2>1. Arr(tt, i, m) <= Latest BY <1>6, <1>9, <1>10
  <2>2. J[n] \in UsableLegs(tt) BY <1>2
  <2> QED BY <1>1, <1>8, <1>10, <2>1, <2>2, LongerLeg DEF s, a
<1> HIDE DEF leg
<1>12. L \in Seq(UsableLegs(tt)) /\ Len(L) = n /\ L[n] = leg /\ \A k \in 1..n - 1 : L[k] = J[k]
  <2>1. Spliced(L, UsableLegs(tt), J, n, N, leg) BY <1>2, <1>5, <1>11, SpliceFacts
  <2>2. N - (N - n) = n BY <1>5
  <2> QED BY <2>1, <2>2 DEF Spliced
<1> DEFINE Old(x) == x \in Calls(J) /\ x[1] <= n /\ CalledAt(tt, L, x) = CalledAt(tt, J, x)
           Middle(x) == /\ x = <<n, x[2]>> /\ x[2] \in a + 1..m - 1
                        /\ CalledAt(tt, L, x) = StationAt(tt[i[1]], x[2])
           End(x) == x = <<n, m>> /\ CalledAt(tt, L, x) = Destination
<1> HIDE DEF L
<1>13. ASSUME NEW x \in Calls(L) PROVE Old(x) \/ Middle(x) \/ End(x)
  <2>1. PICK k \in DOMAIN L : x \in {k} \X (L[k].board + 1..L[k].alight) BY DEF Calls
  <2>2. k \in 1..n BY <1>12, <2>1
  <2>3. x = <<k, x[2]>> /\ x[1] = k /\ x[2] \in L[k].board + 1..L[k].alight BY <2>1
  <2>4. CASE k # n
    <3>1. k \in 1..n - 1 /\ k \in 1..N /\ k <= n BY <1>2, <1>5, <2>2, <2>4
    <3>2. L[k] = J[k] BY <1>12, <3>1
    <3>3. x \in {k} \X (J[k].board + 1..J[k].alight) BY <2>1, <3>2
    <3>4. x \in Calls(J) BY <1>2, <3>1, <3>3 DEF Calls
    <3>5. CalledAt(tt, L, x) = CalledAt(tt, J, x) BY <2>3, <3>2 DEF CalledAt
    <3> QED BY <2>3, <3>1, <3>4, <3>5
  <2>5. CASE k = n
    <3> DEFINE b == J[n].board
    <3>1. x = <<n, x[2]>> /\ x[1] = n /\ x[2] \in b + 1..m BY <1>11, <1>12, <2>3, <2>5
    <3>2. CalledAt(tt, L, x) = StationAt(tt[i[1]], x[2]) BY <1>11, <1>12, <3>1 DEF CalledAt
    <3>3. b \in Nat BY <1>6
    <3> HIDE DEF b
    <3>4. x[2] \in b + 1..a \/ x[2] \in a + 1..m - 1 \/ x[2] = m BY <1>6, <1>8, <3>1, <3>3
    <3>5. CASE x[2] \in b + 1..a
      <4>1. x \in {n} \X (J[n].board + 1..J[n].alight) BY <3>1, <3>5 DEF a, b
      <4>2. x \in Calls(J) BY <1>2, <4>1 DEF Calls
      <4>3. CalledAt(tt, J, x) = StationAt(tt[i[1]], x[2]) BY <3>1 DEF CalledAt
      <4> QED BY <1>5, <3>1, <3>2, <4>2, <4>3
    <3>6. CASE x[2] \in a + 1..m - 1 BY <3>1, <3>2, <3>6
    <3>7. CASE x[2] = m BY <1>8, <3>1, <3>2, <3>7
    <3> QED BY <3>4, <3>5, <3>6, <3>7
  <2> QED BY <2>4, <2>5
<1>14. ASSUME NEW x, Old(x), CalledAt(tt, L, x) # NoStation
       PROVE  CalledAt(tt, L, x) # Source /\ CalledAt(tt, L, x) # Destination
  <2>1. CalledAt(tt, J, x) # Source BY <1>4, <1>14 DEF TouchesOnce
  <2> DEFINE e == <<N, J[N].alight>>
  <2>2. e \in Calls(J)
    <3>1. J[N].alight \in J[N].board + 1..J[N].alight
      <4> DEFINE p == J[N].alight
                 q == J[N].board
      <4>1. p \in Nat /\ q \in Nat /\ q < p BY <1>6
      <4> HIDE DEF p, q
      <4>2. p \in q + 1..p BY <4>1
      <4> QED BY <4>2 DEF p, q
    <3>2. e \in {N} \X (J[N].board + 1..J[N].alight) BY <3>1
    <3> QED BY <1>2, <1>5, <3>2 DEF Calls
  <2>3. CalledAt(tt, J, e) = Destination BY <1>3 DEF CalledAt, To
  <2>4. x # e
    <3>1. e[1] = N OBVIOUS
    <3> QED BY <1>5, <1>14, <3>1
  <2>5. CalledAt(tt, J, x) # Destination BY <1>4, <1>10, <1>14, <2>2, <2>3, <2>4 DEF TouchesOnce
  <2> QED BY <1>14, <2>1, <2>5
<1>15. ASSUME NEW x, Middle(x), CalledAt(tt, L, x) # NoStation
       PROVE  /\ CalledAt(tt, L, x) # Source /\ CalledAt(tt, L, x) # Destination
              /\ \A y : Old(y) => CalledAt(tt, L, y) # CalledAt(tt, L, x)
  BY <1>8, <1>15
<1>16. ASSUME NEW x, NEW y, Old(x), Old(y), CalledAt(tt, L, x) # NoStation,
              CalledAt(tt, L, y) = CalledAt(tt, L, x)
       PROVE  y = x
  BY <1>4, <1>16 DEF TouchesOnce
<1>17. ASSUME NEW x, NEW y, Middle(x), Middle(y), CalledAt(tt, L, x) # NoStation,
              CalledAt(tt, L, y) = CalledAt(tt, L, x)
       PROVE  y = x
  <2> DEFINE j == x[2]
             k == y[2]
  <2>1. j \in a + 1..m - 1 /\ k \in a + 1..m - 1 BY <1>17
  <2>2. StationAt(tt[i[1]], j) = StationAt(tt[i[1]], k) /\ StationAt(tt[i[1]], j) # NoStation BY <1>17
  <2> HIDE DEF j, k
  <2>3. j \in 1..s /\ k \in 1..s /\ m \in 1..s /\ j < m /\ k < m BY <1>6, <1>7, <1>8, <2>1
  <2>4. \A p, q, r \in 1..s :
          p < q /\ q < r /\ StationAt(tt[i[1]], r) = Destination
            => StationAt(tt[i[1]], p) # StationAt(tt[i[1]], q) \/ StationAt(tt[i[1]], p) = NoStation
    BY <1>7, <1>8 DEF LoopFree, s
  <2>5. ~(j < k) /\ ~(k < j) BY <1>8, <2>2, <2>3, <2>4
  <2>6. j = k BY <1>7, <2>3, <2>5
  <2> QED BY <1>17, <2>6 DEF j, k
<1> HIDE DEF Old, Middle
<1>18. ASSUME NEW x \in Calls(L), CalledAt(tt, L, x) # NoStation
       PROVE  /\ CalledAt(tt, L, x) # Source
              /\ \A y \in Calls(L) : CalledAt(tt, L, y) = CalledAt(tt, L, x) => y = x
  <2>1. CalledAt(tt, L, x) # Source BY <1>10, <1>13, <1>14, <1>15, <1>18
  <2>2. ASSUME NEW y \in Calls(L), CalledAt(tt, L, y) = CalledAt(tt, L, x) PROVE y = x
    <3>1. CalledAt(tt, L, y) # NoStation BY <1>18, <2>2
    <3>2. Old(y) \/ Middle(y) \/ End(y) BY <1>13
    <3>3. CASE Old(x) BY <1>14, <1>15, <1>16, <1>18, <2>2, <3>1, <3>2, <3>3
    <3>4. CASE Middle(x) BY <1>15, <1>17, <1>18, <2>2, <3>1, <3>2, <3>4
    <3>5. CASE End(x) BY <1>14, <1>15, <1>18, <2>2, <3>1, <3>2, <3>5
    <3> QED BY <1>13, <3>3, <3>4, <3>5
  <2> QED BY <2>1, <2>2
<1>19. From(tt, L[1]) = Source
  <2>1. CASE n = 1 BY <1>4, <1>11, <1>12, <2>1
  <2>2. CASE n # 1
    <3>1. 1 \in 1..n - 1 BY <1>5, <2>2
    <3> QED BY <1>4, <1>12, <3>1
  <2> QED BY <2>1, <2>2
<1>20. TouchesOnce(tt, L) BY <1>18, <1>19 DEF TouchesOnce
<1>21. Valid(tt, MaxTransfers, L) /\ Better(tt, L, J)
  <2>1. n \in 1..N /\ N \in 1..N /\ n \in n..N BY <1>5
  <2>2. leg.inst[1] = J[n].inst[1] BY <1>11
  <2>3. From(tt, leg) = From(tt, J[n]) /\ To(tt, leg) = To(tt, J[N]) BY <1>3, <1>11
  <2>4. LegArr(tt, leg) <= LegArr(tt, J[N]) BY <1>9, <1>11
  <2>5. n = 1 => LegDep(tt, leg) \in LegDep(tt, J[1])..LastFirstDeparture BY <1>2, <1>11
  <2>6. n # 1 => LegDep(tt, leg) >= LegArr(tt, J[n - 1]) + TR
    <3>1. n # 1 => n \in 2..N BY <1>5
    <3> QED BY <1>2, <1>11, <3>1
  <2> QED BY <1>1, <1>11, <1>20, <2>1, <2>2, <2>3, <2>4, <2>5, <2>6, SpliceIsBetter DEF L
<1>22. L \in StayOns(tt, J)
  <2> DEFINE y == <<n, N, m>>
  <2>1. m \in 1..MaxStops(tt)
    <3> DEFINE M == MaxStops(tt)
    <3>1. M \in Nat /\ s <= M BY <1>1, <1>7, MaxStopsType DEF s
    <3> HIDE DEF M
    <3>2. m \in 1..M BY <1>6, <1>7, <1>8, <3>1
    <3> QED BY <3>2 DEF M
  <2>2. y \in (1..Len(J)) \X (1..Len(J)) \X (1..MaxStops(tt)) BY <1>5, <2>1
  <2>3. y[1] = n /\ y[2] = N /\ y[3] = m OBVIOUS
  <2>4. /\ y[1] < y[2] /\ y[3] > J[y[1]].alight /\ y[3] <= Len(tt[J[y[1]].inst[1]].stops)
        /\ StationAt(tt[J[y[1]].inst[1]], y[3]) = To(tt, J[y[2]])
        /\ Arr(tt, J[y[1]].inst, y[3]) <= LegArr(tt, J[y[2]])
    BY <1>3, <1>8, <1>9, <2>3 DEF s, a
  <2>5. L = Splice(J, y[1], y[2], [J[y[1]] EXCEPT !.alight = y[3]]) BY DEF leg, L
  <2> HIDE DEF y
  <2> QED BY <2>2, <2>4, <2>5 DEF StayOns
<1> QED BY <1>8, <1>21, <1>22 DEF Pointless

\* Where a label's ceiling comes from: a train it left that goes on to the
\* destination.
StaysOn(l, n, m) ==
  /\ GoesOn(l.legs, n, m)
  /\ n < Len(l.legs) \/ (l.kind = "atStation" /\ StationOf(l) # Destination)
  /\ l.ceiling = Arr(tt, l.legs[n].inst, m)
CeilingSound(l) == l.ceiling = Inf \/ \E n \in 1..Len(l.legs) : \E m \in Nat : StaysOn(l, n, m)

\* The label is a partial journey of J.
OnWay(l, J) ==
  LET n == Len(l.legs) IN
  /\ n <= Len(J)
  /\ \A i \in 1..n - 1 : l.legs[i] = J[i]
  /\ l.kind = "atStation" => l.legs[n] = J[n]
  /\ l.kind = "onboard" =>
       /\ l.legs[n].inst = J[n].inst /\ l.legs[n].board = J[n].board
       /\ l.legs[n].alight <= J[n].alight

\* The ceiling of a label passes on to those that extend its journey.
LEMMA CeilingPasses ==
  ASSUME NEW l, NEW r, NEW S, l.legs \in Seq(S), r.legs \in Seq(S), r.ceiling = l.ceiling, CeilingSound(l),
         \A n \in 1..Len(l.legs) :
           n < Len(l.legs) \/ (l.kind = "atStation" /\ StationOf(l) # Destination) =>
             n < Len(r.legs) /\ \A i \in 1..n : r.legs[i] = l.legs[i]
  PROVE  CeilingSound(r)
<1>1. CASE l.ceiling = Inf BY <1>1 DEF CeilingSound
<1>2. CASE l.ceiling # Inf
  <2>1. PICK n \in 1..Len(l.legs) : \E m \in Nat : StaysOn(l, n, m) BY <1>2 DEF CeilingSound
  <2>2. PICK m \in Nat : StaysOn(l, n, m) BY <2>1
  <2> DEFINE Q == l.legs
             R == r.legs
  <2>3. n < Len(R) /\ \A i \in 1..n : R[i] = Q[i] BY <2>2 DEF StaysOn
  <2>4. Q \in Seq(S) /\ R \in Seq(S) /\ n \in 1..Len(Q) OBVIOUS
  <2>5. GoesOn(Q, n, m) /\ l.ceiling = Arr(tt, Q[n].inst, m) BY <2>2 DEF StaysOn
  <2> HIDE DEF Q, R
  <2>6. n \in 1..Len(R) /\ n \in 1..n /\ R[n] = Q[n] BY <2>3, <2>4
  <2>7. ASSUME NEW x \in Calls(R), x[1] <= n PROVE x \in Calls(Q) /\ CalledAt(tt, Q, x) = CalledAt(tt, R, x)
    <3>1. PICK k \in DOMAIN R : x \in {k} \X (R[k].board + 1..R[k].alight) BY DEF Calls
    <3>2. x[1] = k BY <3>1
    <3>3. k \in 1..Len(R) BY <2>4, <3>1
    <3>4. k \in 1..n /\ k \in 1..Len(Q) BY <2>4, <2>7, <3>2, <3>3
    <3>5. R[k] = Q[k] BY <2>3, <3>4
    <3>6. x \in {k} \X (Q[k].board + 1..Q[k].alight) /\ k \in DOMAIN Q BY <2>4, <3>1, <3>4, <3>5
    <3>7. x \in Calls(Q) BY <3>6 DEF Calls
    <3> QED BY <3>2, <3>5, <3>7 DEF CalledAt
  <2>8. GoesOn(R, n, m) BY <2>5, <2>6, <2>7 DEF GoesOn
  <2>9. StaysOn(r, n, m) BY <2>3, <2>5, <2>6, <2>8 DEF StaysOn, Q, R
  <2> QED BY <2>6, <2>9 DEF CeilingSound, R
<1> QED BY <1>1, <1>2

\* The ceiling that what is left here gets, whatever its key.
Left(l, key) ==
  Label("atStation", l.legs, FALSE, IF StationOf(l) = Destination THEN l.ceiling ELSE Ceiling(l), key)

\* The ceiling that alighting sets is sound: it is the one kept, or that of the
\* train just left.
LEMMA LeftCeiling ==
  ASSUME BoundsInv, NEW l, KeySound(l), l.kind = "onboard", CeilingSound(l), NEW key
  PROVE  CeilingSound(Left(l, key))
<1> DEFINE r == Left(l, key)
           leg == Riding(l)
           i == leg.inst
           train == tt[i[1]]
           stops == leg.alight + 1..Len(train.stops)
           ends == {m \in stops : StationAt(train, m) = Destination}
           met == {m \in stops : StationAt(train, m) \in ChainStations(l)}
           e == Min(ends)
           n == Len(l.legs)
<1>1. /\ r.kind = "atStation" /\ r.legs = l.legs
      /\ r.ceiling = IF StationOf(l) = Destination THEN l.ceiling ELSE Ceiling(l)
      /\ StationOf(r) = StationOf(l)
  BY DEF Left, Label, StationOf, Riding
<1>2. Given BY DEF BoundsInv
<1>3. l.legs \in Seq(Rides) /\ n \in Nat /\ n >= 1 /\ leg \in Rides /\ leg = l.legs[n] /\ l.ceiling \in Int
  BY <1>2, RidingFacts DEF Riding
<1> HIDE DEF r
<1>4. CASE r.ceiling = l.ceiling
  <2>1. \A k \in 1..Len(l.legs) :
          k < Len(l.legs) \/ (l.kind = "atStation" /\ StationOf(l) # Destination) =>
            k < Len(r.legs) /\ \A j \in 1..k : r.legs[j] = l.legs[j]
    BY <1>1
  <2>2. r.legs \in Seq(Rides) BY <1>1, <1>3
  <2> QED BY <1>3, <1>4, <2>1, <2>2, CeilingPasses DEF r
<1>5. CASE r.ceiling # l.ceiling
  <2>1. StationOf(l) # Destination /\ Ceiling(l) # l.ceiling /\ r.ceiling = Ceiling(l) BY <1>1, <1>5
  <2> HIDE DEF leg
  <2>2. /\ PruneStayOn /\ ends # {} /\ ~\E m \in met : m < e
        /\ Ceiling(l) = Min({l.ceiling, Arr(tt, i, e)})
    BY <2>1 DEF Ceiling, leg
  <2>3. /\ i \in Insts /\ leg.alight \in Nat /\ leg.alight >= 1 /\ Stops(i) \in Nat
    <3>1. i \in Insts /\ leg.alight \in Nat /\ leg.board \in Nat /\ Stops(i) \in Nat BY <1>2, <1>3, RideFacts
    <3>2. 1 <= leg.board /\ leg.board < leg.alight BY <1>3 DEF Rides
    <3> DEFINE p == leg.alight
               q == leg.board
    <3>3. p \in Nat /\ q \in Nat /\ 1 <= q /\ q < p BY <3>1, <3>2
    <3> HIDE DEF p, q
    <3>4. p >= 1 BY <3>3
    <3> QED BY <3>1, <3>4 DEF p
  <2>4. e \in ends /\ \A m \in ends : e <= m
    <3>1. ends \subseteq leg.alight + 1..Stops(i) /\ leg.alight + 1 \in Int /\ Stops(i) \in Int
      BY <2>3 DEF Stops, Train
    <3> HIDE DEF ends
    <3> QED BY <2>2, <3>1, MinOf
  <2>5. e \in leg.alight + 1..Stops(i) /\ StationAt(Train(i), e) = Destination
    <3> HIDE DEF e
    <3> QED BY <2>4 DEF Stops, Train
  <2>6. e \in Nat /\ e > leg.alight /\ e <= Stops(i) /\ e - 1 \in 1..Stops(i) - 1 /\ (e - 1) + 1 = e
    <3> HIDE DEF e
    <3> DEFINE p == leg.alight
               q == Stops(i)
    <3>1. p \in Nat /\ p >= 1 /\ q \in Nat /\ e \in p + 1..q BY <2>3, <2>5
    <3> HIDE DEF p, q
    <3>2. e \in Nat /\ e > p /\ e <= q /\ e - 1 \in 1..q - 1 /\ (e - 1) + 1 = e BY <3>1
    <3> QED BY <3>2 DEF p, q
  <2>7. Arr(tt, i, e) \in Int
    <3>1. \A k \in 1..Stops(i) - 1 : Arr(tt, i, k + 1) \in Int
      BY <1>2, <2>3, InstanceFacts DEF Given, Insts, Stops, Train
    <3> HIDE DEF e
    <3> QED BY <2>6, <3>1
  <2>8. Ceiling(l) = Arr(tt, i, e)
    <3>1. Min({l.ceiling, Arr(tt, i, e)}) \in {l.ceiling, Arr(tt, i, e)}
      <4> DEFINE x == l.ceiling
                 y == Arr(tt, i, e)
      <4>1. x \in Int /\ y \in Int BY <1>3, <2>7
      <4> HIDE DEF x, y
      <4>2. CASE x <= y
        <5> DEFINE S == {x, y}
        <5>1. S \subseteq x..y /\ S # {} BY <4>1, <4>2
        <5> HIDE DEF S
        <5>2. Min(S) \in S BY <4>1, <5>1, MinOf
        <5> QED BY <5>2 DEF S, x, y
      <4>3. CASE y <= x
        <5> DEFINE S == {x, y}
        <5>1. S \subseteq y..x /\ S # {} BY <4>1, <4>3
        <5> HIDE DEF S
        <5>2. Min(S) \in S BY <4>1, <5>1, MinOf
        <5> QED BY <5>2 DEF S, x, y
      <4> QED BY <4>1, <4>2, <4>3 DEF x, y
    <3> QED BY <2>1, <2>2, <3>1
  <2>9. ASSUME NEW j \in leg.alight + 1..e - 1
        PROVE  LET s == StationAt(Train(i), j) IN
               /\ s # Destination /\ s # Source
               /\ s # NoStation => \A x \in Calls(l.legs) : x[1] <= n => CalledAt(tt, l.legs, x) # s
    <3> DEFINE s == StationAt(Train(i), j)
    <3> HIDE DEF e
    <3>1. j \in stops /\ j < e
      <4> DEFINE p == leg.alight
                 q == Stops(i)
      <4>1. p \in Nat /\ e \in Nat /\ q \in Nat /\ e <= q /\ j \in p + 1..e - 1 BY <2>3, <2>6
      <4> HIDE DEF p, q
      <4>2. j \in p + 1..q /\ j < e BY <4>1
      <4> QED BY <4>2 DEF p, q, Stops, Train
    <3>2. s # Destination
      <4>1. j \notin ends
        <5>1. j \in Int /\ e \in Int BY <2>3, <2>6
        <5> HIDE DEF ends
        <5> QED BY <2>4, <3>1, <5>1
      <4> QED BY <3>1, <4>1 DEF Train
    <3>3. s \notin ChainStations(l) BY <2>2, <3>1 DEF Train
    <3>4. s # Source BY <1>2, <1>3, <3>3, ChainCovers
    <3>5. \A x \in Calls(l.legs) : CalledAt(tt, l.legs, x) # NoStation => CalledAt(tt, l.legs, x) \in ChainStations(l)
      BY <1>2, <1>3, ChainCovers
    <3> QED BY <3>2, <3>3, <3>4, <3>5
  <2>10. GoesOn(r.legs, n, e)
    <3> HIDE DEF e
    <3>1. r.legs = l.legs /\ l.legs[n] = leg BY <1>1, <1>3
    <3> QED BY <2>2, <2>5, <2>6, <2>9, <3>1 DEF GoesOn
  <2>11. StaysOn(r, n, e) BY <1>1, <1>3, <2>1, <2>8, <2>10 DEF StaysOn
  <2>12. n \in 1..Len(r.legs) BY <1>1, <1>3
  <2>13. e \in Nat BY <2>6
  <2> HIDE DEF e
  <2>14. CeilingSound(r) BY <2>11, <2>12, <2>13 DEF CeilingSound
  <2> QED BY <2>14 DEF r
<1> QED BY <1>4, <1>5 DEF r

-----------------------------------------------------------------------------
(* Labels on the way of a journey. *)

\* The legs of a journey are rides.
LEMMA JourneyRides ==
  ASSUME Given, NEW J \in AllJourneys(tt, MaxTransfers)
  PROVE  /\ J \in Seq(Rides) /\ Len(J) \in Nat /\ Len(J) >= 1 /\ DOMAIN J = 1..Len(J)
         /\ \A n \in 1..Len(J) : J[n] \in Rides
<1>1. tt \in Timetables /\ MaxTransfers \in Nat BY LimitFacts DEF Given
<1>2. J \in Seq(UsableLegs(tt)) /\ Len(J) \in Nat /\ Len(J) >= 1 BY <1>1, JourneyFacts
<1>3. UsableLegs(tt) \subseteq Rides
  <2> SUFFICES ASSUME NEW l \in UsableLegs(tt) PROVE l \in Rides OBVIOUS
  <2>1. PICK i \in Instances(tt, Weekday, Horizon), b \in 1..MaxStops(tt), a \in 1..MaxStops(tt) :
          l = [inst |-> i, board |-> b, alight |-> a]
    BY DEF UsableLegs, Legs
  <2>2. l.inst = i /\ l.board = b /\ l.alight = a BY <2>1
  <2>3. /\ l.inst \in Instances(tt, Weekday, Horizon) /\ l.board \in Nat /\ l.alight \in Nat
        /\ 1 <= l.board /\ l.board < l.alight /\ l.alight <= Len(tt[l.inst[1]].stops)
        /\ LegDep(tt, l) >= QueryTime
    BY <1>1, LegFacts
  <2>4. l \in [inst : Insts, board : Nat, alight : Nat] BY <2>1, <2>2, <2>3 DEF Insts
  <2> QED BY <2>3, <2>4 DEF Rides, Stops, Train
<1>4. J \in Seq(Rides) BY <1>2, <1>3
<1> QED BY <1>2, <1>4

\* A label's legs beside those of the journey it is on the way of.
Way(l, J) ==
  /\ l.legs \in Seq(Rides) /\ J \in Seq(Rides) /\ Len(l.legs) <= Len(J) /\ Len(l.legs) \in Nat
  /\ DOMAIN l.legs = 1..Len(l.legs) /\ Len(J) \in Nat /\ Len(J) >= 1 /\ DOMAIN J = 1..Len(J)
  /\ \A i \in 1..Len(l.legs) :
       /\ i \in 1..Len(J)
       /\ l.legs[i].inst = J[i].inst /\ l.legs[i].board = J[i].board /\ l.legs[i].alight <= J[i].alight
       /\ i < Len(l.legs) \/ l.kind = "atStation" => l.legs[i] = J[i]

\* Being on the way, leg by leg.
LEMMA WayFacts ==
  ASSUME Given, NEW l, l.legs \in Seq(Rides), l.kind \in {"onboard", "atStation"} \/ l.legs = <<>>,
         NEW J \in AllJourneys(tt, MaxTransfers), OnWay(l, J)
  PROVE  Way(l, J)
<1> DEFINE Q == l.legs
           n == Len(Q)
<1>1. /\ J \in Seq(Rides) /\ Len(J) \in Nat /\ Len(J) >= 1 /\ DOMAIN J = 1..Len(J)
      /\ \A i \in 1..Len(J) : J[i] \in Rides
  BY JourneyRides
<1>2. Q \in Seq(Rides) /\ n \in Nat /\ DOMAIN Q = 1..n OBVIOUS
<1>3. n <= Len(J) /\ \A i \in 1..n - 1 : Q[i] = J[i] BY DEF OnWay
<1>4. ASSUME NEW i \in 1..n
      PROVE  /\ i \in 1..Len(J)
             /\ Q[i].inst = J[i].inst /\ Q[i].board = J[i].board /\ Q[i].alight <= J[i].alight
             /\ i < n \/ l.kind = "atStation" => Q[i] = J[i]
  <2>1. i \in 1..Len(J) BY <1>1, <1>2, <1>3
  <2>2. J[i] \in Rides /\ J[i].alight \in Nat BY <1>1, <2>1 DEF Rides
  <2>3. J[i].alight <= J[i].alight BY <2>2
  <2>4. CASE i < n
    <3>1. i \in 1..n - 1 BY <1>2, <2>4
    <3> QED BY <1>3, <2>1, <2>3, <3>1
  <2>5. CASE i = n
    <3>1. l.kind \in {"onboard", "atStation"} BY <1>2
    <3>2. l.kind = "atStation" => Q[n] = J[n] BY DEF OnWay
    <3>3. l.kind = "onboard" => Q[n].inst = J[n].inst /\ Q[n].board = J[n].board /\ Q[n].alight <= J[n].alight
      BY DEF OnWay
    <3> QED BY <2>1, <2>3, <2>5, <3>1, <3>2, <3>3
  <2> QED BY <1>2, <2>4, <2>5
<1> HIDE DEF Q
<1>5. Way(l, J) BY <1>1, <1>2, <1>3, <1>4 DEF Way, Q
<1> QED BY <1>5

\* A journey worth showing arrives before the ceiling of every label on its way.
LEMMA CeilingIsLate ==
  ASSUME BoundsInv, LoopFree(tt), NEW J \in Worthwhile(tt, MaxTransfers), NEW l, Way(l, J),
         l.ceiling \in Int, CeilingSound(l)
  PROVE  Arrival(tt, J) < l.ceiling
<1> DEFINE Q == l.legs
<1>1. Given BY DEF BoundsInv
<1>2. J \in AllJourneys(tt, MaxTransfers) /\ ~Pointless(tt, MaxTransfers, J) BY DEF Worthwhile
<1>3. tt \in Timetables /\ MaxTransfers \in Nat BY <1>1, LimitFacts DEF Given
<1>4. /\ J \in Seq(UsableLegs(tt)) /\ Len(J) \in Nat /\ Len(J) >= 1
      /\ To(tt, J[Len(J)]) = Destination
  BY <1>2, <1>3, JourneyFacts
<1>5. Arrival(tt, J) \in Int /\ Arrival(tt, J) <= Latest
  <2>1. J[Len(J)] \in UsableLegs(tt) BY <1>4
  <2> QED BY <1>3, <2>1, LegFacts DEF Arrival
<1>6. CASE l.ceiling = Inf
  <2>1. Latest \in Int /\ Latest < Inf /\ Inf \in Int BY NumberFacts, Sizes
  <2> QED BY <1>5, <1>6, <2>1
<1>7. CASE l.ceiling # Inf
  <2>1. PICK n \in 1..Len(Q) : \E m \in Nat : StaysOn(l, n, m) BY <1>7 DEF CeilingSound
  <2>2. PICK m \in Nat : StaysOn(l, n, m) BY <2>1
  <2>3. /\ Len(Q) \in Nat /\ Len(Q) <= Len(J) /\ DOMAIN Q = 1..Len(Q) /\ DOMAIN J = 1..Len(J)
        /\ \A i \in 1..Len(Q) : i < Len(Q) \/ l.kind = "atStation" => Q[i] = J[i]
    BY DEF Way
  <2>4. n < Len(Q) \/ (l.kind = "atStation" /\ StationOf(l) # Destination) BY <2>2 DEF StaysOn
  <2>5. \A i \in 1..n : i \in 1..Len(Q) /\ Q[i] = J[i] BY <2>3, <2>4
  <2>6. n \in 1..n /\ n \in 1..Len(J) /\ Q[n] = J[n] BY <2>3, <2>5
  <2>7. n < Len(J)
    <3>1. CASE n < Len(Q) BY <2>3, <3>1
    <3>2. CASE ~(n < Len(Q))
      <4>1. n = Len(Q) /\ l.kind = "atStation" /\ StationOf(l) # Destination BY <2>3, <2>4, <3>2
      <4>2. StationOf(l) = To(tt, Q[n]) BY <4>1 DEF StationOf, Riding
      <4>3. n # Len(J) BY <1>4, <2>6, <4>1, <4>2
      <4> QED BY <2>6, <4>3
    <3> QED BY <3>1, <3>2
  <2>8. GoesOn(Q, n, m) /\ l.ceiling = Arr(tt, Q[n].inst, m) BY <2>2 DEF StaysOn
  <2> HIDE DEF Q
  <2>9. ASSUME NEW x \in Calls(J), x[1] <= n PROVE x \in Calls(Q) /\ CalledAt(tt, Q, x) = CalledAt(tt, J, x)
    <3>1. PICK k \in DOMAIN J : x \in {k} \X (J[k].board + 1..J[k].alight) BY DEF Calls
    <3>2. x[1] = k BY <3>1
    <3>3. k \in 1..Len(J) BY <2>3, <3>1
    <3>4. k \in 1..n BY <1>4, <2>9, <3>2, <3>3
    <3>5. k \in DOMAIN Q /\ Q[k] = J[k] BY <2>3, <2>5, <3>4
    <3>6. x \in Calls(Q) BY <3>1, <3>5 DEF Calls
    <3> QED BY <3>2, <3>5, <3>6 DEF CalledAt
  <2>10. GoesOn(J, n, m) BY <2>6, <2>8, <2>9 DEF GoesOn
  <2>11. ~(Arr(tt, J[n].inst, m) <= Arrival(tt, J))
    BY <1>1, <1>2, <2>6, <2>7, <2>10, LateIsPointless
  <2> QED BY <1>5, <2>6, <2>8, <2>11
<1> QED BY <1>6, <1>7

\* What a chain has been to: the source and where its legs call.
LEMMA ChainMeets ==
  ASSUME Given, NEW l, l.legs \in Seq(Rides), l.legs # <<>> => Connected(tt, l.legs), NEW s \in ChainStations(l)
  PROVE  /\ s # NoStation
         /\ s # Source => \E x \in Calls(l.legs) : CalledAt(tt, l.legs, x) = s
<1> DEFINE Q == l.legs
<1>1. Q \in Seq(Rides) /\ Len(Q) \in Nat /\ DOMAIN Q = 1..Len(Q) /\ ToSet(Q) = {Q[i] : i \in 1..Len(Q)}
  BY DEF ToSet
<1>2. CASE s = Source BY <1>2, NumberFacts
<1>3. CASE s # Source
  <2>1. PICK leg \in ToSet(Q) : s \in StationsBetween(tt[leg.inst[1]], leg.board, leg.alight)
    BY <1>3 DEF ChainStations
  <2>2. PICK i \in 1..Len(Q) : leg = Q[i] BY <1>1, <2>1
  <2>3. s # NoStation /\ \E k \in leg.board..leg.alight : s = StationAt(tt[leg.inst[1]], k)
    BY <2>1 DEF StationsBetween
  <2>4. PICK k \in leg.board..leg.alight : s = StationAt(tt[leg.inst[1]], k) BY <2>3
  <2>5. leg \in Rides BY <1>1, <2>2
  <2>6. leg.board \in Nat /\ leg.alight \in Nat /\ leg.board < leg.alight BY <2>5 DEF Rides
  <2>7. Q # <<>> BY <1>1, <2>2
  <2>8. Connected(tt, Q) BY <2>7
  <2>9. CASE k # leg.board
    <3> DEFINE x == <<i, k>>
               b == leg.board
               a == leg.alight
    <3>1. b \in Nat /\ a \in Nat /\ k \in b..a /\ k # b BY <2>4, <2>6, <2>9
    <3> HIDE DEF b, a
    <3>2. k \in b + 1..a BY <3>1
    <3>3. x \in {i} \X (Q[i].board + 1..Q[i].alight) BY <2>2, <3>2 DEF a, b
    <3>4. x \in Calls(Q) BY <1>1, <3>3 DEF Calls
    <3>5. CalledAt(tt, Q, x) = s BY <2>2, <2>4 DEF CalledAt
    <3> QED BY <2>3, <3>4, <3>5
  <2>10. CASE k = leg.board
    <3>1. s = From(tt, Q[i]) BY <2>2, <2>4, <2>10 DEF From
    <3>2. From(tt, Q[1]) = Source BY <2>8 DEF Connected
    <3>3. i # 1 BY <1>3, <3>1, <3>2
    <3>4. i - 1 \in 1..Len(Q) - 1 /\ (i - 1) + 1 = i /\ i - 1 \in 1..Len(Q) BY <1>1, <2>2, <3>3
    <3>5. From(tt, Q[(i - 1) + 1]) = To(tt, Q[i - 1]) BY <2>8, <3>4 DEF Connected
    <3> DEFINE p == Q[i - 1]
               x == <<i - 1, p.alight>>
               b == p.board
               a == p.alight
    <3>6. p \in Rides BY <1>1, <3>4
    <3>7. b \in Nat /\ a \in Nat /\ b < a BY <3>6 DEF Rides
    <3> HIDE DEF b, a
    <3>8. a \in b + 1..a BY <3>7
    <3>9. x \in {i - 1} \X (Q[i - 1].board + 1..Q[i - 1].alight) BY <3>8 DEF a, b
    <3>10. x \in Calls(Q) BY <1>1, <3>4, <3>9 DEF Calls
    <3>11. CalledAt(tt, Q, x) = s BY <3>1, <3>4, <3>5 DEF CalledAt, To
    <3> QED BY <2>3, <3>10, <3>11
  <2> QED BY <2>9, <2>10
<1> QED BY <1>2, <1>3

\* Where a journey calls after the part that a label has done, it has not been.
LEMMA AheadIsNew ==
  ASSUME Given, NEW J \in AllJourneys(tt, MaxTransfers), NEW l, Way(l, J),
         l.legs # <<>> => Connected(tt, l.legs),
         NEW z \in Calls(J),
         z[1] > Len(l.legs) \/ (z[1] = Len(l.legs) /\ z[2] > l.legs[Len(l.legs)].alight)
  PROVE  CalledAt(tt, J, z) \notin ChainStations(l)
<1> DEFINE Q == l.legs
           s == CalledAt(tt, J, z)
<1> SUFFICES ASSUME s \in ChainStations(l) PROVE FALSE OBVIOUS
<1>1. tt \in Timetables /\ MaxTransfers \in Nat BY LimitFacts DEF Given
<1>2. Connected(tt, J) BY <1>1, JourneyFacts
<1>3. TouchesOnce(tt, J) /\ From(tt, J[1]) = Source BY <1>2 DEF Connected
<1>4. /\ Q \in Seq(Rides) /\ J \in Seq(Rides) /\ Len(Q) \in Nat /\ DOMAIN Q = 1..Len(Q) /\ DOMAIN J = 1..Len(J)
      /\ \A i \in 1..Len(Q) :
           /\ i \in 1..Len(J)
           /\ Q[i].inst = J[i].inst /\ Q[i].board = J[i].board /\ Q[i].alight <= J[i].alight
  BY DEF Way
<1>5. s # NoStation /\ (s # Source => \E x \in Calls(Q) : CalledAt(tt, Q, x) = s) BY <1>4, ChainMeets
<1>6. s # Source BY <1>3, <1>5 DEF TouchesOnce
<1>7. PICK x \in Calls(Q) : CalledAt(tt, Q, x) = s BY <1>5, <1>6
<1>8. PICK k \in DOMAIN Q : x \in {k} \X (Q[k].board + 1..Q[k].alight) BY <1>7 DEF Calls
<1>9. k \in 1..Len(Q) /\ k \in 1..Len(J) /\ x = <<k, x[2]>> /\ x[1] = k /\ x[2] \in Q[k].board + 1..Q[k].alight
  BY <1>4, <1>8
<1>10. Q[k] \in Rides /\ J[k] \in Rides BY <1>4, <1>9
<1>11. Q[k].board \in Nat /\ Q[k].alight \in Nat /\ J[k].alight \in Nat BY <1>10 DEF Rides
<1>12. x[2] \in J[k].board + 1..J[k].alight
  <2> DEFINE b == Q[k].board
             a == Q[k].alight
             c == J[k].alight
  <2>1. b \in Nat /\ a \in Nat /\ c \in Nat /\ a <= c /\ x[2] \in b + 1..a BY <1>4, <1>9, <1>11
  <2> HIDE DEF a, b, c
  <2>2. x[2] \in b + 1..c BY <2>1
  <2> QED BY <1>4, <1>9, <2>2 DEF b, c
<1>13. x \in Calls(J)
  <2>1. x \in {k} \X (J[k].board + 1..J[k].alight) BY <1>9, <1>12
  <2> QED BY <1>4, <1>9, <2>1 DEF Calls
<1>14. CalledAt(tt, J, x) = s BY <1>4, <1>7, <1>9 DEF CalledAt
<1>15. x = z BY <1>3, <1>5, <1>13, <1>14 DEF TouchesOnce
<1>16. CASE z[1] > Len(Q) BY <1>4, <1>9, <1>15, <1>16
<1>17. CASE z[1] = Len(Q) /\ z[2] > Q[Len(Q)].alight
  <2>1. k = Len(Q) BY <1>9, <1>15, <1>17
  <2> DEFINE b == Q[k].board
             a == Q[k].alight
             y == x[2]
  <2>2. b \in Nat /\ a \in Nat /\ y \in b + 1..a /\ y > a BY <1>9, <1>11, <1>15, <1>17, <2>1
  <2> HIDE DEF a, b, y
  <2> QED BY <2>2
<1> QED BY <1>16, <1>17

\* Where a journey boards: the connection, and what the scan promises there.
LEMMA BoardingPoints ==
  ASSUME BoundsInv, phase # "scan", NEW J \in AllJourneys(tt, MaxTransfers), NEW n \in 1..Len(J)
  PROVE  LET c == <<J[n].inst, J[n].board>> IN
         /\ c \in conns /\ Consistent(c) /\ c[1] = J[n].inst /\ c[2] = J[n].board
         /\ Val(c) = val[<<J[n].inst, J[n].board + 1>>] /\ Val(c) \in Bounds
         /\ FromOf(c) = From(tt, J[n]) /\ DepAt(c) = LegDep(tt, J[n])
         /\ J[n].board + 1 \in J[n].board + 1..J[n].alight
         /\ Arrival(tt, J) \in Int
         /\ AtMost(Val(c), <<Arrival(tt, J), Len(J) - n>>)
<1> DEFINE i == J[n].inst
           b == J[n].board
           a == J[n].alight
           c == <<i, b>>
           s == Stops(i)
<1>1. Given BY DEF BoundsInv
<1>2. tt \in Timetables /\ MaxTransfers \in Nat BY <1>1, LimitFacts DEF Given
<1>3. J[n] \in UsableLegs(tt) BY <1>2, BoardedInTime
<1>4. /\ i \in Insts /\ b \in Nat /\ a \in Nat /\ 1 <= b /\ b < a /\ a <= s
      /\ LegDep(tt, J[n]) >= QueryTime /\ LegArr(tt, J[n]) <= Latest /\ LegArr(tt, J[n]) \in Int
  BY <1>2, <1>3, LegFacts DEF Insts, Stops, Train
<1>5. /\ s \in Nat /\ \A k \in 1..s - 1 : Arr(tt, i, k + 1) \in Int
      /\ \A j, k \in 2..s : j <= k => Arr(tt, i, j) <= Arr(tt, i, k)
  BY <1>2, <1>4, InstanceFacts DEF Insts, Stops, Train
<1>6. LegDep(tt, J[n]) = Dep(tt, i, b) /\ LegArr(tt, J[n]) = Arr(tt, i, a) BY DEF LegDep, LegArr
<1>7. b + 1 \in b + 1..a /\ From(tt, J[n]) = StationAt(tt[i[1]], b)
  <2>1. From(tt, J[n]) = StationAt(tt[i[1]], b) BY DEF From
  <2>2. b + 1 \in b + 1..a
    <3> HIDE DEF a, b, s
    <3> QED BY <1>4
  <2> QED BY <2>1, <2>2
<1>8. AtMost(val[<<i, b + 1>>], <<Arrival(tt, J), Len(J) - n>>) /\ val[<<i, b + 1>>] \in Bounds /\ Arrival(tt, J) \in Int
  BY <1>7, NoJourneyBeatsBounds
<1> HIDE DEF a, b, s, i
<1>9. b \in 1..s - 1 /\ b + 1 \in 2..s /\ a \in 2..s /\ b + 1 <= a BY <1>4, <1>5
<1>10. Arr(tt, i, b + 1) <= Latest
  <2>1. Arr(tt, i, b + 1) <= Arr(tt, i, a) /\ Arr(tt, i, b + 1) \in Int BY <1>5, <1>9
  <2>2. Latest \in Int BY NumberFacts
  <2> QED BY <1>4, <1>6, <2>1, <2>2
<1>11. /\ c \in conns /\ Consistent(c) /\ DepAt(c) = Dep(tt, i, b)
       /\ FromOf(c) = StationAt(tt[i[1]], b) /\ Val(c) = val[<<i, b + 1>>] /\ c[1] = i /\ c[2] = b
  <2>1. Dep(tt, i, b) >= QueryTime /\ b <= b BY <1>4, <1>6
  <2> HIDE DEF c
  <2> QED BY <1>4, <1>9, <1>10, <2>1, Scanned DEF c, s
<1> QED BY <1>6, <1>7, <1>8, <1>11 DEF i, b, a

\* What the profile of a change promises is no worse than what the journey does.
LEMMA PromiseKept ==
  ASSUME BoundsInv, phase # "scan", NEW J \in AllJourneys(tt, MaxTransfers), NEW n \in 1..Len(J), n < Len(J)
  PROVE  LET p == ProfileEval(profile[To(tt, J[n])], LegArr(tt, J[n]) + TR) IN
         p \in Bounds /\ AtMost(p, <<Arrival(tt, J), Len(J) - (n + 1)>>)
<1> DEFINE c == <<J[n + 1].inst, J[n + 1].board>>
           t == LegArr(tt, J[n]) + TR
           p == ProfileEval(profile[To(tt, J[n])], t)
<1>1. Given /\ BoundTypes BY DEF BoundsInv
<1>2. tt \in Timetables /\ MaxTransfers \in Nat BY <1>1, LimitFacts DEF Given
<1>3. Connected(tt, J) /\ Len(J) \in Nat BY <1>2, JourneyFacts
<1>4. n \in 1..Len(J) - 1 /\ n + 1 \in 1..Len(J) BY <1>3
<1>5. From(tt, J[n + 1]) = To(tt, J[n]) /\ LegDep(tt, J[n + 1]) >= t BY <1>3, <1>4 DEF Connected
<1>6. /\ J[n] \in UsableLegs(tt) /\ J[n + 1] \in UsableLegs(tt) BY <1>2, <1>4, BoardedInTime
<1>7. LegArr(tt, J[n]) \in Int /\ To(tt, J[n]) \in Stations /\ LegDep(tt, J[n + 1]) \in Int BY <1>2, <1>6, LegFacts
<1>8. t \in Int BY <1>7, NumberFacts
<1>9. /\ Consistent(c) /\ Val(c) \in Bounds /\ FromOf(c) = From(tt, J[n + 1]) /\ DepAt(c) = LegDep(tt, J[n + 1])
      /\ Arrival(tt, J) \in Int /\ AtMost(Val(c), <<Arrival(tt, J), Len(J) - (n + 1)>>)
  BY <1>4, BoardingPoints
<1> HIDE DEF t, c
<1>10. profile[To(tt, J[n])] \in Profiles BY <1>1, <1>7 DEF BoundTypes
<1>11. p \in Bounds BY <1>8, <1>10, EvalType
<1>12. AtMost(p, Val(c))
  <2>1. FromOf(c) = To(tt, J[n]) /\ FromOf(c) \in Stations /\ t <= DepAt(c) BY <1>5, <1>7, <1>9
  <2>2. \A u \in Int : u <= DepAt(c) => AtMost(ProfileEval(profile[FromOf(c)], u), Val(c))
    BY <1>9, <2>1 DEF Consistent
  <2> QED BY <1>8, <2>1, <2>2
<1>13. AtMost(p, <<Arrival(tt, J), Len(J) - (n + 1)>>)
  <2> DEFINE u == <<Arrival(tt, J), Len(J) - (n + 1)>>
  <2>1. u \in Int \X Int BY <1>3, <1>9
  <2> HIDE DEF u, p
  <2> QED BY <1>9, <1>11, <1>12, <2>1, AtMostOrder, BoundsArePairs DEF u
<1> QED BY <1>11, <1>13 DEF t

\* A journey has waited no longer part of the way than at its end.
LEMMA WaitingGrows ==
  ASSUME Given, NEW J \in AllJourneys(tt, MaxTransfers), NEW l, Way(l, J), l.legs # <<>>
  PROVE  Waiting(tt, l.legs) <= Waiting(tt, J) /\ Waiting(tt, l.legs) \in Int /\ Waiting(tt, J) \in Int
<1> DEFINE Q == l.legs
           n == Len(Q)
           N == Len(J)
<1>1. /\ Q \in Seq(Rides) /\ J \in Seq(Rides) /\ n \in Nat /\ N \in Nat /\ N >= 1 /\ n <= N /\ DOMAIN Q = 1..n
      /\ \A i \in 1..n :
           /\ i \in 1..N /\ Q[i].inst = J[i].inst /\ Q[i].board = J[i].board
           /\ i < n => Q[i] = J[i]
  BY DEF Way
<1>2. n >= 1 /\ J # <<>>
  <2> HIDE DEF Q
  <2> QED BY <1>1 DEF Q
<1>3. PICK f : Waits(Q, f) /\ Waiting(tt, Q) = f[n] BY <1>1, WaitingIs
<1>4. PICK g : Waits(J, g) /\ Waiting(tt, J) = g[N] BY <1>1, <1>2, WaitingIs
<1> HIDE DEF Q, n, N
<1>5. f[n] = g[n]
  <2>1. \A i \in 1..n : LegDep(tt, Q[i]) = LegDep(tt, J[i]) BY <1>1 DEF LegDep
  <2>2. \A i \in 1..n - 1 : LegArr(tt, Q[i]) = LegArr(tt, J[i])
    <3> SUFFICES ASSUME NEW i \in 1..n - 1 PROVE LegArr(tt, Q[i]) = LegArr(tt, J[i]) OBVIOUS
    <3>1. i \in 1..n /\ i < n BY <1>1
    <3>2. Q[i] = J[i] BY <1>1, <3>1
    <3> QED BY <3>2
  <2>3. n <= Len(Q) /\ n <= Len(J) BY <1>1 DEF n, N
  <2> QED BY <1>1, <1>2, <1>3, <1>4, <2>1, <2>2, <2>3, WaitAlike
<1>6. /\ g \in [1..N -> Int]
      /\ \A k \in 2..N : g[k] = g[k - 1] + (LegDep(tt, J[k]) - LegArr(tt, J[k - 1]))
  BY <1>4 DEF Waits, N
<1>7. \A k \in 2..N : g[k - 1] <= g[k]
  <2> SUFFICES ASSUME NEW k \in 2..N PROVE g[k - 1] <= g[k] OBVIOUS
  <2>1. tt \in Timetables /\ MaxTransfers \in Nat BY LimitFacts DEF Given
  <2>2. LegDep(tt, J[k]) >= LegArr(tt, J[k - 1]) + TR BY <2>1, BoardedInTime DEF N
  <2>3. k \in 1..N /\ k - 1 \in 1..N BY <1>1
  <2>4. J[k] \in UsableLegs(tt) /\ J[k - 1] \in UsableLegs(tt) BY <2>1, <2>3, BoardedInTime DEF N
  <2>5. LegDep(tt, J[k]) \in Int /\ LegArr(tt, J[k - 1]) \in Int BY <2>1, <2>4, LegFacts
  <2>6. g[k] = g[k - 1] + (LegDep(tt, J[k]) - LegArr(tt, J[k - 1])) /\ g[k] \in Int /\ g[k - 1] \in Int BY <1>6, <2>3
  <2> QED BY <2>2, <2>5, <2>6, NumberFacts
<1>8. g[n] <= g[N]
  <2> DEFINE T == {d \in Nat : n + d <= N => g[n] <= g[n + d]}
  <2>1. n \in 1..N BY <1>1, <1>2
  <2>2. 0 \in T
    <3>1. g[n] \in Int BY <1>6, <2>1
    <3>2. n + 0 = n BY <2>1
    <3>3. g[n] <= g[n + 0] BY <3>1, <3>2
    <3> QED BY <3>3
  <2>3. ASSUME NEW d \in Nat, n + d <= N => g[n] <= g[n + d], n + (d + 1) <= N
        PROVE  g[n] <= g[n + (d + 1)]
    <3>1. /\ n + d <= N /\ n + d \in 1..N /\ n + (d + 1) \in 2..N /\ n + (d + 1) \in 1..N
          /\ (n + (d + 1)) - 1 = n + d
      BY <1>1, <2>1, <2>3
    <3>2. g[n] <= g[n + d] BY <2>3, <3>1
    <3>3. g[n + d] <= g[n + (d + 1)]
      <4> DEFINE e == n + (d + 1)
      <4>1. e \in 2..N /\ e - 1 = n + d BY <3>1
      <4> HIDE DEF e
      <4>2. g[e - 1] <= g[e] BY <1>7, <4>1
      <4> QED BY <4>1, <4>2 DEF e
    <3>4. g[n] \in Int /\ g[n + d] \in Int /\ g[n + (d + 1)] \in Int BY <1>6, <2>1, <3>1
    <3> QED BY <3>2, <3>3, <3>4
  <2>31. ASSUME NEW d \in T PROVE d + 1 \in T
    <3>1. d \in Nat /\ d + 1 \in Nat /\ (n + d <= N => g[n] <= g[n + d]) OBVIOUS
    <3>2. n + (d + 1) <= N => g[n] <= g[n + (d + 1)] BY <2>3, <3>1
    <3> QED BY <3>1, <3>2
  <2>4. T \subseteq Nat OBVIOUS
  <2> HIDE DEF T
  <2>5. T = Nat BY <2>2, <2>31, <2>4, SetInduction
  <2>6. N - n \in Nat /\ n + (N - n) = N BY <1>1, <2>1
  <2>7. N - n \in T BY <2>5, <2>6
  <2>8. n + (N - n) <= N => g[n] <= g[n + (N - n)] BY <2>7 DEF T
  <2> QED BY <1>1, <2>6, <2>8
<1>9. g[n] \in Int /\ g[N] \in Int BY <1>1, <1>2, <1>6
<1> QED BY <1>3, <1>4, <1>5, <1>8, <1>9 DEF Q

\* A journey calls at the destination when it is over.
LEMMA DestinationIsLast ==
  ASSUME Given, NEW J \in AllJourneys(tt, MaxTransfers), NEW n \in 1..Len(J), NEW k \in J[n].board + 1..J[n].alight,
         StationAt(tt[J[n].inst[1]], k) = Destination
  PROVE  n = Len(J) /\ k = J[n].alight
<1> DEFINE N == Len(J)
           x == <<n, k>>
           e == <<N, J[N].alight>>
<1>1. tt \in Timetables /\ MaxTransfers \in Nat BY LimitFacts DEF Given
<1>2. Connected(tt, J) /\ To(tt, J[N]) = Destination BY <1>1, JourneyFacts
<1>3. TouchesOnce(tt, J) BY <1>2 DEF Connected
<1>4. N \in Nat /\ N >= 1 /\ DOMAIN J = 1..N /\ \A i \in 1..N : J[i] \in Rides BY JourneyRides
<1>5. N \in 1..N BY <1>4
<1>6. J[N].board \in Nat /\ J[N].alight \in Nat /\ J[N].board < J[N].alight
  <2>1. J[N] \in Rides BY <1>4, <1>5
  <2> QED BY <2>1 DEF Rides
<1>7. e \in Calls(J)
  <2> DEFINE p == J[N].alight
             q == J[N].board
  <2>1. p \in Nat /\ q \in Nat /\ q < p BY <1>6
  <2> HIDE DEF p, q
  <2>2. p \in q + 1..p BY <2>1
  <2>3. <<N, p>> \in {N} \X (q + 1..p) BY <2>2
  <2> QED BY <1>4, <1>5, <2>3 DEF Calls, p, q
<1>8. x \in Calls(J)
  <2>1. x \in {n} \X (J[n].board + 1..J[n].alight) OBVIOUS
  <2> QED BY <1>4, <2>1 DEF Calls
<1>9. CalledAt(tt, J, x) = Destination BY DEF CalledAt
<1>10. CalledAt(tt, J, e) = Destination BY <1>2 DEF CalledAt, To
<1>11. Destination # NoStation BY NumberFacts
<1>12. x = e BY <1>3, <1>7, <1>8, <1>9, <1>10, <1>11 DEF TouchesOnce
<1> QED BY <1>12

\* A label that can be left at the destination is the whole journey.
LEMMA ArrivedIsWhole ==
  ASSUME Given, NEW J \in AllJourneys(tt, MaxTransfers), NEW l, Way(l, J), l.legs # <<>>,
         l.kind = "atStation"
  PROVE  /\ StationOf(l) = To(tt, J[Len(l.legs)]) /\ TimeOf(l) = LegArr(tt, J[Len(l.legs)])
         /\ Len(l.legs) \in 1..Len(J) /\ l.legs[Len(l.legs)] = J[Len(l.legs)]
         /\ StationOf(l) = Destination => l.legs = J
         /\ StationOf(l) # Destination => Len(l.legs) < Len(J)
<1> DEFINE Q == l.legs
           n == Len(Q)
<1>1. /\ Q \in Seq(Rides) /\ J \in Seq(Rides) /\ n \in Nat /\ n <= Len(J) /\ DOMAIN Q = 1..n
      /\ Len(J) \in Nat /\ Len(J) >= 1 /\ DOMAIN J = 1..Len(J)
      /\ \A i \in 1..n : i \in 1..Len(J) /\ Q[i] = J[i]
  BY DEF Way
<1>2. Q # <<>> OBVIOUS
<1>21. StationOf(l) = To(tt, Q[n]) /\ TimeOf(l) = LegArr(tt, Q[n]) BY DEF StationOf, TimeOf, Riding
<1> HIDE DEF Q
<1>3. n >= 1 BY <1>1, <1>2
<1>4. n \in 1..n BY <1>1, <1>3
<1>5. n \in 1..Len(J) /\ Q[n] = J[n] BY <1>1, <1>4
<1>7. StationOf(l) = Destination => Q = J
  <2> SUFFICES ASSUME StationOf(l) = Destination PROVE Q = J OBVIOUS
  <2>1. J[n] \in Rides BY <1>1, <1>5
  <2> DEFINE a == J[n].alight
             b == J[n].board
  <2>2. a \in Nat /\ b \in Nat /\ b < a BY <2>1 DEF Rides
  <2>3. StationAt(tt[J[n].inst[1]], a) = Destination BY <1>5, <1>21 DEF To
  <2>4. a \in b + 1..a
    <3> HIDE DEF a, b
    <3> QED BY <2>2
  <2>5. n = Len(J) BY <1>5, <2>3, <2>4, DestinationIsLast
  <2> QED BY <1>1, <2>5
<1>8. StationOf(l) # Destination => n < Len(J)
  <2>1. To(tt, J[Len(J)]) = Destination
    <3>1. tt \in Timetables /\ MaxTransfers \in Nat BY LimitFacts DEF Given
    <3> QED BY <3>1, JourneyFacts
  <2> QED BY <1>1, <1>5, <1>21, <2>1
<1> QED BY <1>5, <1>7, <1>8, <1>21 DEF Q

\* No key is before itself.
LEMMA NotBeforeItself ==
  ASSUME NEW a \in Enumeration!Keys PROVE ~Enumeration!KeyBefore(a, a)
<1>1. a[1] \in Int /\ a[2] \in Int /\ a[3] \in Int /\ a[4] \in Int BY DEF Enumeration!Keys
<1> QED BY <1>1 DEF Enumeration!KeyBefore

\* The key of a label is no more than the rank of any journey on whose way it is.
LEMMA KeyBelow ==
  ASSUME BoundsInv, phase # "scan", NEW l, LabelSound(l),
         NEW J \in AllJourneys(tt, MaxTransfers), OnWay(l, J)
  PROVE  Rank(tt, J) \in Enumeration!Keys /\ ~Enumeration!KeyBefore(Rank(tt, J), l.key)
<1> DEFINE N == Len(J)
           A == Arrival(tt, J)
           D == Departure(tt, J)
           W == Waiting(tt, J)
           Q == l.legs
           n == Len(Q)
<1>1. Given /\ KeySound(l) /\ l \in LabelRecords BY DEF BoundsInv, LabelSound, KeySound
<1>2. tt \in Timetables /\ MaxTransfers \in Nat BY <1>1, LimitFacts DEF Given
<1>3. /\ J \in Seq(Rides) /\ N \in Nat /\ N >= 1 /\ \A i \in 1..N : J[i] \in Rides BY <1>1, JourneyRides
<1>4. 1 \in 1..N /\ N \in 1..N /\ J # <<>> BY <1>3
<1>5. /\ J[1] \in UsableLegs(tt) /\ J[N] \in UsableLegs(tt)
      /\ D \in D..LastFirstDeparture
  BY <1>2, <1>4, BoardedInTime DEF Departure
<1>6. D \in Int /\ D >= QueryTime /\ A \in Int /\ A <= Latest
  BY <1>2, <1>5, LegFacts DEF Departure, Arrival
<1>7. W \in Int
  <2>1. PICK f : Waits(J, f) /\ W = f[Len(J)] BY <1>1, <1>3, <1>4, WaitingIs
  <2> QED BY <1>4, <2>1 DEF Waits
<1>8. Rank(tt, J) = <<A, -D, N - 1, W>> BY DEF Rank
<1> HIDE DEF A, D, W, N
<1>9. Rank(tt, J) \in Enumeration!Keys BY <1>3, <1>6, <1>7, <1>8 DEF Enumeration!Keys
<1>10. CASE l.kind = "root"
  <2>1. l.key = <<0, -Inf, 0, 0>> BY <1>1, <1>10 DEF KeySound, Root, Label
  <2>2. A >= 0
    <3> DEFINE d == LegDep(tt, J[N])
    <3>1. J[N] \in Rides BY <1>3, <1>4
    <3>2. d \in Int /\ d >= QueryTime /\ d <= A BY <1>1, <3>1, RideFacts DEF A, Arrival, N
    <3>3. QueryTime \in Nat BY NumberFacts
    <3> HIDE DEF d
    <3> QED BY <1>6, <3>2, <3>3
  <2>3. D < Inf
    <3> DEFINE a == LegArr(tt, J[1])
    <3>1. J[1] \in Rides BY <1>3, <1>4
    <3>2. a \in Int /\ D <= a BY <1>1, <3>1, RideFacts DEF D, Departure
    <3>3. a <= Latest BY <1>2, <1>5, LegFacts
    <3>4. Latest \in Int /\ Latest < Inf /\ Inf \in Int BY NumberFacts, Sizes
    <3> HIDE DEF a
    <3> QED BY <1>6, <3>2, <3>3, <3>4
  <2>4. Inf \in Int BY Sizes
  <2>5. ~Enumeration!KeyBefore(<<A, -D, N - 1, W>>, <<0, -Inf, 0, 0>>)
    BY <1>6, <2>2, <2>3, <2>4 DEF Enumeration!KeyBefore
  <2> QED BY <1>8, <1>9, <2>1, <2>5
<1>11. CASE l.kind # "root"
  <2>1. /\ Q \in Seq(Rides) /\ Q # <<>> /\ n \in Nat /\ n >= 1 /\ TransfersOf(l) = n - 1
        /\ StationOf(l) = To(tt, Q[n]) /\ TimeOf(l) = LegArr(tt, Q[n])
        /\ l.key = <<l.key[1], -Departure(tt, Q), l.key[3], Waiting(tt, Q)>>
        /\ Departure(tt, Q) \in Int
    BY <1>1, <1>11, RidingFacts DEF Riding, TransfersOf
  <2>2. l.kind \in {"onboard", "atStation"} BY <1>1, <1>11 DEF LabelRecords
  <2>3. Way(l, J) BY <1>1, <2>1, <2>2, WayFacts
  <2>4. Waiting(tt, Q) <= W /\ Waiting(tt, Q) \in Int BY <1>1, <2>1, <2>3, WaitingGrows DEF W
  <2>5. /\ n \in 1..N /\ 1 \in 1..n
        /\ \A i \in 1..n : Q[i].inst = J[i].inst /\ Q[i].board = J[i].board /\ Q[i].alight <= J[i].alight
    <3>1. n \in 1..n /\ 1 \in 1..n BY <2>1
    <3> QED BY <2>3, <3>1 DEF Way, N
  <2>6. Departure(tt, Q) = D BY <2>5 DEF Departure, LegDep, D
  <2> DEFINE w == Waiting(tt, Q)
  <2> HIDE DEF Q, n, w
  <2>7. ASSUME NEW v \in Int \X Int, NEW t \in Int, NEW u \in Int, AtMost(v, <<A, u>>), t + u = N - 1,
               l.key[1] = v[1], l.key[3] = t + v[2]
        PROVE  ~Enumeration!KeyBefore(Rank(tt, J), l.key)
    <3>1. <<A, u>> \in Int \X Int /\ -D \in Int BY <1>6
    <3>2. ~Enumeration!KeyBefore(<<<<A, u>>[1], -D, t + <<A, u>>[2], W>>, <<v[1], -D, t + v[2], w>>)
      BY <1>7, <2>4, <2>7, <3>1, KeysKeepUp DEF w
    <3>3. l.key = <<v[1], -D, t + v[2], w>> BY <2>1, <2>6, <2>7 DEF w
    <3>4. Rank(tt, J) = <<<<A, u>>[1], -D, t + <<A, u>>[2], W>> BY <1>8, <2>7
    <3> QED BY <3>2, <3>3, <3>4
  <2>8. CASE l.kind = "onboard"
    <3> DEFINE v == val[EventOf(l)]
               a == Q[n].alight
    <3>1. l.key[1] = v[1] /\ l.key[3] = (n - 1) + v[2] BY <1>1, <2>1, <2>8 DEF KeySound
    <3>2. Q[n] \in Rides /\ J[n] \in Rides
      <4>1. n \in 1..Len(Q) /\ n \in 1..N BY <2>1, <2>5 DEF n
      <4> QED BY <1>3, <2>1, <4>1
    <3>3. a \in J[n].board + 1..J[n].alight
      <4> DEFINE b == J[n].board
                 c == J[n].alight
      <4>1. b \in Nat /\ c \in Nat /\ a \in Nat /\ b < a /\ a <= c
        <5>1. n \in 1..n BY <2>1
        <5> QED BY <2>5, <3>2, <5>1 DEF Rides
      <4> HIDE DEF a, b, c
      <4>2. a \in b + 1..c BY <4>1
      <4> QED BY <4>2 DEF b, c
    <3>4. EventOf(l) = <<J[n].inst, a>>
      <4>1. n \in 1..n BY <2>1
      <4> QED BY <2>5, <4>1 DEF EventOf, Riding, Q, n
    <3>5. AtMost(v, <<A, N - n>>) /\ v \in Bounds
      <4> HIDE DEF a
      <4> QED BY <2>5, <3>3, <3>4, NoJourneyBeatsBounds DEF A, N
    <3> HIDE DEF v, a
    <3> DEFINE t == n - 1
               u == N - n
    <3>6. v \in Int \X Int BY <3>5, BoundsArePairs
    <3>7. t \in Int /\ u \in Int /\ t + u = N - 1 BY <1>3, <2>1
    <3>8. l.key[3] = t + v[2] /\ AtMost(v, <<A, u>>) BY <3>1, <3>5
    <3> HIDE DEF t, u
    <3> QED BY <1>9, <2>7, <3>1, <3>6, <3>7, <3>8
  <2>9. CASE l.kind = "atStation"
    <3>1. /\ StationOf(l) = To(tt, J[n]) /\ TimeOf(l) = LegArr(tt, J[n])
          /\ StationOf(l) = Destination => Q = J
          /\ StationOf(l) # Destination => n < N
      BY <1>1, <2>1, <2>3, <2>9, ArrivedIsWhole DEF Q, n, N
    <3>2. CASE StationOf(l) = Destination
      <4>1. l.key[1] = TimeOf(l) /\ l.key[3] = n - 1 BY <1>1, <2>1, <2>9, <3>2 DEF KeySound
      <4>2. n = N /\ Q = J BY <3>1, <3>2 DEF n, N, Q
      <4>3. TimeOf(l) = A BY <3>1, <4>2 DEF A, Arrival, N
      <4>4. l.key = Rank(tt, J) BY <1>8, <2>1, <2>6, <4>1, <4>2, <4>3 DEF W
      <4> QED BY <1>9, <4>4, NotBeforeItself
    <3>3. CASE StationOf(l) # Destination
      <4> DEFINE v == Promised(l)
      <4>1. l.key[1] = v[1] /\ l.key[3] = (n - 1) + (v[2] + 1) BY <1>1, <2>1, <2>9, <3>3 DEF KeySound
      <4>2. v \in Bounds /\ AtMost(v, <<A, N - (n + 1)>>)
        BY <2>5, <3>1, <3>3, PromiseKept DEF Promised, A, N
      <4> HIDE DEF v
      <4>3. v \in Int \X Int /\ v[2] \in Int BY <4>2, BoundsArePairs
      <4> DEFINE u == N - (n + 1)
      <4>4. n \in Int /\ u \in Int /\ n + u = N - 1 /\ (n - 1) + (v[2] + 1) = n + v[2]
        BY <1>3, <2>1, <4>3
      <4>5. l.key[1] = v[1] /\ l.key[3] = n + v[2] /\ AtMost(v, <<A, u>>) BY <4>1, <4>2, <4>4
      <4> HIDE DEF u
      <4> QED BY <1>9, <2>7, <4>3, <4>4, <4>5
    <3> QED BY <3>2, <3>3
  <2> QED BY <2>2, <2>8, <2>9
<1> QED BY <1>9, <1>10, <1>11

-----------------------------------------------------------------------------
(* A label on the way of a journey is replaced by one on its way. *)

\* A label that stands where the journey alights is left there.
LEMMA AlightingCovers ==
  ASSUME BoundsInv, phase # "scan", LoopFree(tt), NEW J \in Worthwhile(tt, MaxTransfers),
         NEW l, LabelSound(l), CeilingSound(l), l.kind = "onboard", OnWay(l, J),
         Riding(l).alight = J[Len(l.legs)].alight
  PROVE  \E m : Alighted(l) = <<m>> /\ OnWay(m, J)
<1> DEFINE Q == l.legs
           n == Len(Q)
           N == Len(J)
           A == Arrival(tt, J)
           st == StationOf(l)
           final == st = Destination
           on == ProfileEval(profile[st], TimeOf(l) + TR)
           bound == IF final THEN <<TimeOf(l), 0>> ELSE <<on[1], on[2] + 1>>
           key == <<bound[1], l.key[2], TransfersOf(l) + bound[2], Wait(l)>>
           r == Left(l, key)
<1>1. Given /\ KeySound(l) BY DEF BoundsInv, LabelSound
<1>2. tt \in Timetables /\ MaxTransfers \in Nat BY <1>1, LimitFacts DEF Given
<1>3. J \in AllJourneys(tt, MaxTransfers) BY DEF Worthwhile
<1>4. /\ Q \in Seq(Rides) /\ Q # <<>> /\ n \in Nat /\ n >= 1 /\ Riding(l) \in Rides /\ Riding(l) = Q[n]
      /\ l.ceiling \in Int /\ StationOf(l) = To(tt, Q[n]) /\ TimeOf(l) = LegArr(tt, Q[n]) /\ TransfersOf(l) = n - 1
  BY <1>1, RidingFacts DEF Riding, TransfersOf
<1>5. Way(l, J)
  <2>1. l.kind \in {"onboard", "atStation"} OBVIOUS
  <2> QED BY <1>1, <1>3, <1>4, <2>1, WayFacts
<1>6. /\ n \in 1..N /\ Q[n].inst = J[n].inst /\ Q[n].board = J[n].board /\ Q[n].alight = J[n].alight
      /\ J \in Seq(Rides) /\ N \in Nat
  <2>1. n \in 1..n BY <1>4
  <2> QED BY <1>4, <1>5, <2>1 DEF Way
<1>7. Q[n] = J[n]
  <2>1. J[n] \in Rides /\ Q[n] \in Rides BY <1>4, <1>6
  <2>2. J[n] \in [inst : Insts, board : Nat, alight : Nat] /\ Q[n] \in [inst : Insts, board : Nat, alight : Nat]
    BY <2>1 DEF Rides
  <2> QED BY <1>6, <2>2
<1>8. r.kind = "atStation" /\ r.legs = Q /\ r.ceiling = IF final THEN l.ceiling ELSE Ceiling(l)
  BY DEF Left, Label
<1>9. CeilingSound(r) BY <1>1, LeftCeiling
<1> HIDE DEF r
<1>10. OnWay(r, J) BY <1>7, <1>8 DEF OnWay
<1>11. Way(r, J)
  <2>1. r.legs \in Seq(Rides) /\ r.kind \in {"onboard", "atStation"} BY <1>4, <1>8
  <2> QED BY <1>1, <1>3, <1>10, <2>1, WayFacts
<1>12. r.ceiling \in Int BY <1>1, <1>4, <1>8, CeilingType
<1>13. A < r.ceiling BY <1>9, <1>11, <1>12, CeilingIsLate
<1>14. /\ StationOf(l) = To(tt, J[n]) /\ TimeOf(l) = LegArr(tt, J[n])
       /\ final => n = N
       /\ ~final => n < N
  <2>1. StationOf(r) = StationOf(l) BY <1>4, <1>8 DEF StationOf, Riding
  <2>2. r.legs # <<>> BY <1>4, <1>8
  <2>3. /\ StationOf(r) = Destination => r.legs = J
        /\ StationOf(r) # Destination => Len(r.legs) < Len(J)
    BY <1>1, <1>3, <1>8, <1>11, <2>2, ArrivedIsWhole
  <2> QED BY <1>4, <1>7, <1>8, <2>1, <2>3
<1>15. J[n] \in UsableLegs(tt) /\ J[N] \in UsableLegs(tt)
  <2>1. N \in 1..N BY <1>6
  <2> QED BY <1>2, <1>3, <1>6, <2>1, BoardedInTime
<1>16. st # NoStation
  <2>1. To(tt, J[n]) \in Stations BY <1>2, <1>15, LegFacts
  <2> QED BY <1>14, <2>1, NumberFacts
<1>17. A \in Int /\ A <= Latest /\ Latest \in Int BY <1>2, <1>15, LegFacts, NumberFacts DEF Arrival
<1>18. final \/ MayChange(l)
  <2>1. N <= MaxTransfers + 1 BY <1>2, <1>3, JourneyLength
  <2>2. ~final => n - 1 < MaxTransfers BY <1>2, <1>4, <1>6, <1>14, <2>1
  <2> QED BY <1>4, <2>2 DEF MayChange
<1>19. bound[1] \in Int /\ bound[1] <= A
  <2>1. CASE final
    <3>1. bound[1] = A BY <1>14, <2>1 DEF Arrival
    <3> QED BY <1>17, <3>1
  <2>2. CASE ~final
    <3>1. on \in Bounds /\ AtMost(on, <<A, N - (n + 1)>>)
      BY <1>3, <1>6, <1>14, <2>2, PromiseKept
    <3>2. bound[1] = on[1] BY <2>2
    <3> HIDE DEF on, bound
    <3>3. on[1] \in Int BY <3>1, BoundsArePairs
    <3>4. on[1] <= A BY <1>17, <3>1, <3>3 DEF AtMost
    <3> QED BY <3>2, <3>3, <3>4
  <2> QED BY <2>1, <2>2
<1>20. Alighted(l) = <<r>>
  <2>1. bound[1] <= Latest /\ bound[1] < r.ceiling
    <3> HIDE DEF bound
    <3> QED BY <1>12, <1>13, <1>17, <1>19
  <2>2. bound[1] < (IF final THEN l.ceiling ELSE Ceiling(l)) BY <1>8, <2>1
  <2>3. /\ st # NoStation
        /\ final \/ MayChange(l)
        /\ bound[1] < (IF final THEN l.ceiling ELSE Ceiling(l)) /\ bound[1] <= Latest
    BY <1>16, <1>18, <2>1, <2>2
  <2> QED BY <2>3 DEF Alighted, Left, r
<1> QED BY <1>10, <1>20

\* A label that has not come so far yet rides on.
LEMMA RidingCovers ==
  ASSUME BoundsInv, phase # "scan", LoopFree(tt), NEW J \in Worthwhile(tt, MaxTransfers),
         NEW l, LabelSound(l), CeilingSound(l), l.kind = "onboard", OnWay(l, J),
         Riding(l).alight # J[Len(l.legs)].alight
  PROVE  \E m : Ridden(l) = <<m>> /\ OnWay(m, J)
<1> DEFINE Q == l.legs
           n == Len(Q)
           N == Len(J)
           A == Arrival(tt, J)
           leg == Riding(l)
           k == leg.alight + 1
           v == val[<<leg.inst, k>>]
           R == [Q EXCEPT ![n].alight = k]
           m == Label("onboard", [l.legs EXCEPT ![Len(l.legs)].alight = k], FALSE, l.ceiling,
                      <<v[1], l.key[2], TransfersOf(l) + v[2], Wait(l)>>)
<1>1. Given /\ KeySound(l) /\ ChainSound(l) BY DEF BoundsInv, LabelSound
<1>2. tt \in Timetables /\ MaxTransfers \in Nat BY <1>1, LimitFacts DEF Given
<1>3. J \in AllJourneys(tt, MaxTransfers) BY DEF Worthwhile
<1>4. /\ Q \in Seq(Rides) /\ Q # <<>> /\ n \in Nat /\ n >= 1 /\ leg \in Rides /\ leg = Q[n]
      /\ l.ceiling \in Int /\ StationOf(l) = To(tt, Q[n])
  BY <1>1, RidingFacts DEF Riding
<1>5. Way(l, J)
  <2>1. l.kind \in {"onboard", "atStation"} OBVIOUS
  <2> QED BY <1>1, <1>3, <1>4, <2>1, WayFacts
<1>6. /\ n \in 1..N /\ leg.inst = J[n].inst /\ leg.board = J[n].board /\ leg.alight <= J[n].alight
      /\ J \in Seq(Rides) /\ N \in Nat /\ DOMAIN J = 1..N
      /\ \A i \in 1..n : i < n => Q[i] = J[i]
  <2>1. n \in 1..n BY <1>4
  <2> QED BY <1>4, <1>5, <2>1 DEF Way
<1>7. /\ leg.board \in Nat /\ leg.alight \in Nat /\ J[n].alight \in Nat /\ leg.board < leg.alight
      /\ J[n].alight <= Stops(leg.inst) /\ Stops(leg.inst) \in Nat
  <2>1. J[n] \in Rides BY <1>6
  <2>2. leg.board < leg.alight BY <1>4 DEF Rides
  <2>3. J[n].alight <= Stops(leg.inst) BY <1>6, <2>1 DEF Rides
  <2> QED BY <1>1, <1>4, <2>1, <2>2, <2>3, RideFacts
<1>8. /\ leg.alight \in J[n].board + 1..J[n].alight /\ k \in J[n].board + 1..J[n].alight
      /\ k <= J[n].alight /\ k <= Stops(leg.inst) /\ leg.alight < k
  <2> DEFINE a == leg.alight
             b == J[n].board
             c == J[n].alight
             s == Stops(leg.inst)
  <2>1. a \in Nat /\ b \in Nat /\ c \in Nat /\ s \in Nat /\ b < a /\ a <= c /\ a # c /\ c <= s BY <1>6, <1>7
  <2> HIDE DEF a, b, c, s
  <2>2. a \in b + 1..c /\ a + 1 \in b + 1..c /\ a + 1 <= c /\ a + 1 <= s /\ a < a + 1 BY <2>1
  <2> QED BY <2>2 DEF a, b, c, s
<1>9. StationOf(l) # Destination
  <2> SUFFICES ASSUME StationOf(l) = Destination PROVE FALSE OBVIOUS
  <2>1. StationAt(tt[J[n].inst[1]], leg.alight) = Destination BY <1>4, <1>6 DEF To
  <2> HIDE DEF leg
  <2>2. leg.alight = J[n].alight BY <1>1, <1>3, <1>6, <1>8, <2>1, DestinationIsLast
  <2> QED BY <2>2 DEF leg
<1>10. A \in Int /\ A <= Latest /\ Latest \in Int
  <2>1. N \in 1..N BY <1>6
  <2>2. J[N] \in UsableLegs(tt) BY <1>2, <1>3, <2>1, BoardedInTime
  <2> QED BY <1>2, <2>2, LegFacts, NumberFacts DEF Arrival
<1>11. A < l.ceiling BY <1>4, <1>5, CeilingIsLate
<1> HIDE DEF k, leg
<1>12. v[1] <= Latest /\ v[1] < l.ceiling
  <2>1. AtMost(v, <<A, N - n>>) /\ v \in Bounds BY <1>3, <1>6, <1>8, NoJourneyBeatsBounds
  <2> HIDE DEF v, A
  <2>2. v[1] \in Int BY <2>1, BoundsArePairs
  <2>3. v[1] <= A BY <1>10, <2>1, <2>2 DEF AtMost
  <2> QED BY <1>4, <1>10, <1>11, <2>2, <2>3
<1>13. StationAt(tt[leg.inst[1]], k) \notin ChainStations(l)
  <2> DEFINE z == <<n, k>>
  <2>1. z \in Calls(J)
    <3>1. z \in {n} \X (J[n].board + 1..J[n].alight) BY <1>8
    <3> QED BY <1>6, <3>1 DEF Calls
  <2>2. z[1] = Len(l.legs) /\ z[2] > l.legs[Len(l.legs)].alight
    <3>1. k > leg.alight /\ l.legs[Len(l.legs)] = leg BY <1>4, <1>7, <1>8 DEF k
    <3> QED BY <3>1
  <2>3. l.legs # <<>> => Connected(tt, l.legs) BY <1>1 DEF ChainSound
  <2>4. CalledAt(tt, J, z) \notin ChainStations(l) BY <1>1, <1>3, <1>5, <2>1, <2>2, <2>3, AheadIsNew
  <2>5. CalledAt(tt, J, z) = StationAt(tt[leg.inst[1]], k) BY <1>6 DEF CalledAt
  <2> QED BY <2>4, <2>5
<1>14. Ridden(l) = <<m>>
  <2>1. StationOf(l) # Destination /\ k <= Len(tt[leg.inst[1]].stops) BY <1>8, <1>9 DEF Stops, Train
  <2> QED BY <1>12, <1>13, <2>1 DEF Ridden, k, leg
<1>15. m.kind = "onboard" /\ m.legs = R BY DEF Label
<1>16. /\ Len(R) = n /\ \A i \in 1..n - 1 : R[i] = J[i]
       /\ R[n].inst = J[n].inst /\ R[n].board = J[n].board /\ R[n].alight = k
  <2>1. R = [i \in DOMAIN Q |-> IF i = n THEN [Q[n] EXCEPT !.alight = k] ELSE Q[i]] OBVIOUS
  <2>2. DOMAIN Q = 1..n BY <1>4
  <2>3. Len(R) = n BY <1>4, <2>1, <2>2
  <2>4. n \in 1..n /\ \A i \in 1..n - 1 : i \in 1..n /\ i # n /\ i < n BY <1>4
  <2>5. R[n] = [leg EXCEPT !.alight = k] BY <1>4, <2>1, <2>2, <2>4
  <2>6. \A i \in 1..n - 1 : R[i] = J[i] BY <1>6, <2>1, <2>2, <2>4
  <2>7. leg \in [inst : Insts, board : Nat, alight : Nat] BY <1>4 DEF Rides
  <2>8. R[n].inst = leg.inst /\ R[n].board = leg.board /\ R[n].alight = k BY <2>5, <2>7
  <2> QED BY <1>6, <2>3, <2>6, <2>8
<1> HIDE DEF m, R
<1>17. OnWay(m, J)
  <2>1. n <= N BY <1>6
  <2> QED BY <1>8, <1>15, <1>16, <2>1 DEF OnWay
<1> QED BY <1>14, <1>17

\* A label at the place where the journey boards boards with it.
LEMMA BoardingCovers ==
  ASSUME BoundsInv, phase # "scan", LoopFree(tt), NEW J \in Worthwhile(tt, MaxTransfers),
         NEW l, LabelSound(l), CeilingSound(l), OnWay(l, J),
         l.kind = "root" \/ (l.kind = "atStation" /\ StationOf(l) # Destination)
  PROVE  \E c \in Boardable(l) : OnWay(Boarded(l, c), J)
<1> DEFINE Q == l.legs
           n == Len(Q)
           N == Len(J)
           A == Arrival(tt, J)
           j == n + 1
           c == <<J[j].inst, J[j].board>>
<1>1. Given /\ KeySound(l) /\ ChainSound(l) /\ l \in LabelRecords BY DEF BoundsInv, LabelSound, KeySound
<1>2. tt \in Timetables /\ MaxTransfers \in Nat BY <1>1, LimitFacts DEF Given
<1>3. J \in AllJourneys(tt, MaxTransfers) BY DEF Worthwhile
<1>4. Q \in Seq(Rides) /\ n \in Nat /\ l.ceiling \in Int BY <1>1 DEF LabelRecords
<1>5. l.kind = "root" => Q = <<>> BY <1>1 DEF KeySound, Root, Label
<1>6. Way(l, J)
  <2>1. l.kind \in {"onboard", "atStation"} \/ l.legs = <<>> BY <1>5
  <2> QED BY <1>1, <1>3, <1>4, <2>1, WayFacts
<1>7. /\ J \in Seq(Rides) /\ N \in Nat /\ N >= 1 /\ DOMAIN J = 1..N /\ DOMAIN Q = 1..n
      /\ \A i \in 1..n : i \in 1..N /\ Q[i].inst = J[i].inst
      /\ \A i \in 1..n : l.kind = "atStation" => Q[i] = J[i]
  BY <1>6 DEF Way
<1>8. /\ l.kind = "root" => n = 0
      /\ l.kind = "atStation" =>
           Q # <<>> /\ n >= 1 /\ n < N /\ StationOf(l) = To(tt, J[n]) /\ TimeOf(l) = LegArr(tt, J[n])
  <2>1. CASE l.kind = "root" BY <1>5, <2>1
  <2>2. CASE l.kind = "atStation"
    <3>1. Q # <<>> /\ n >= 1 BY <1>1, <2>2, RidingFacts
    <3> QED BY <1>1, <1>3, <1>6, <2>2, <3>1, ArrivedIsWhole
  <2> QED BY <2>1, <2>2
<1> HIDE DEF Q, n, N
<1>9. j \in 1..N /\ n < j BY <1>4, <1>7, <1>8
<1>10. /\ c \in conns /\ c[1] = J[j].inst /\ c[2] = J[j].board
       /\ Val(c) = val[<<J[j].inst, J[j].board + 1>>] /\ Val(c) \in Bounds
       /\ FromOf(c) = From(tt, J[j]) /\ DepAt(c) = LegDep(tt, J[j])
       /\ J[j].board + 1 \in J[j].board + 1..J[j].alight
       /\ A \in Int
       /\ AtMost(Val(c), <<A, N - j>>)
  <2> HIDE DEF j
  <2> QED BY <1>3, <1>9, BoardingPoints DEF N
<1>11. J[j] \in UsableLegs(tt) /\ J[N] \in UsableLegs(tt) /\ Connected(tt, J)
  <2>1. N \in 1..N BY <1>7
  <2> QED BY <1>2, <1>3, <1>9, <2>1, BoardedInTime, JourneyFacts DEF N
<1>12. /\ LegDep(tt, J[j]) \in Int /\ LegDep(tt, J[j]) <= Latest /\ From(tt, J[j]) \in Stations
       /\ LegDep(tt, J[j]) >= QueryTime
       /\ A <= Latest /\ Latest \in Int /\ J[j].board \in Nat /\ J[j].alight \in Nat /\ J[j].board < J[j].alight
  <2>1. J[j] \in Rides BY <1>7, <1>9 DEF N
  <2>2. LegDep(tt, J[j]) <= LegArr(tt, J[j]) BY <1>1, <2>1, RideFacts
  <2>3. /\ LegDep(tt, J[j]) \in Int /\ LegArr(tt, J[j]) \in Int /\ LegArr(tt, J[j]) <= Latest
        /\ LegDep(tt, J[j]) >= QueryTime /\ From(tt, J[j]) \in Stations
        /\ J[j].board \in Nat /\ J[j].alight \in Nat /\ J[j].board < J[j].alight
    BY <1>2, <1>11, LegFacts
  <2>4. A <= Latest BY <1>2, <1>11, LegFacts DEF Arrival, N
  <2> QED BY <2>2, <2>3, <2>4, NumberFacts
<1>13. StationOf(l) = From(tt, J[j])
  <2>1. CASE l.kind = "root"
    <3>1. j = 1 BY <1>8, <2>1
    <3> QED BY <1>11, <2>1, <3>1 DEF StationOf, Connected
  <2>2. CASE l.kind = "atStation"
    <3>1. n \in 1..N - 1 BY <1>4, <1>7, <1>8, <2>2
    <3> QED BY <1>8, <1>11, <2>2, <3>1 DEF Connected, N
  <2> QED BY <2>1, <2>2
<1>14. /\ l.kind = "root" => LegDep(tt, J[j]) \in QueryTime..LastFirstDeparture
       /\ l.kind = "atStation" => LegDep(tt, J[j]) >= TimeOf(l) + TR
  <2>1. CASE l.kind = "root"
    <3>1. j = 1 BY <1>8, <2>1
    <3> QED BY <1>11, <2>1, <3>1 DEF Connected
  <2>2. CASE l.kind = "atStation"
    <3>1. n \in 1..N - 1 BY <1>4, <1>7, <1>8, <2>2
    <3> QED BY <1>8, <1>11, <2>2, <3>1 DEF Connected, N
  <2> QED BY <2>1, <2>2
<1>15. A < l.ceiling BY <1>4, <1>6, CeilingIsLate
<1>16. Val(c)[1] <= Latest /\ Val(c)[1] < l.ceiling
  <2> DEFINE v == Val(c)
  <2>1. v \in Bounds /\ AtMost(v, <<A, N - j>>) BY <1>10
  <2> HIDE DEF v, A
  <2>2. v[1] \in Int BY <2>1, BoundsArePairs
  <2>3. v[1] <= A BY <1>10, <2>1, <2>2 DEF AtMost
  <2>4. v[1] <= Latest /\ v[1] < l.ceiling BY <1>4, <1>10, <1>12, <1>15, <2>2, <2>3
  <2> QED BY <2>4 DEF v
<1>17. c[1][1] \notin ChainTrains(l)
  <2> SUFFICES ASSUME c[1][1] \in ChainTrains(l) PROVE FALSE OBVIOUS
  <2>1. PICK leg \in ToSet(l.legs) : leg.inst[1] = c[1][1] BY DEF ChainTrains
  <2>2. PICK i \in 1..n : leg = Q[i] BY <1>7, <2>1 DEF ToSet, Q
  <2>3. i \in 1..N /\ i # j BY <1>4, <1>7, <1>9, <2>2
  <2>4. J[i].inst[1] = J[j].inst[1] BY <1>7, <1>10, <2>1, <2>2
  <2>5. IsInjective([x \in DOMAIN J |-> J[x].inst[1]]) BY <1>11 DEF Connected
  <2> QED BY <1>7, <1>9, <2>3, <2>4, <2>5 DEF IsInjective
<1>18. StationAt(tt[c[1][1]], c[2] + 1) \notin ChainStations(l)
  <2> DEFINE z == <<j, J[j].board + 1>>
  <2>1. z \in Calls(J)
    <3>1. z \in {j} \X (J[j].board + 1..J[j].alight) BY <1>10
    <3> QED BY <1>7, <1>9, <3>1 DEF Calls
  <2>2. z[1] > Len(l.legs) BY <1>4, <1>9 DEF n, Q
  <2>3. l.legs # <<>> => Connected(tt, l.legs) BY <1>1, <1>5 DEF ChainSound, Q
  <2>4. CalledAt(tt, J, z) \notin ChainStations(l) BY <1>1, <1>3, <1>6, <2>1, <2>2, <2>3, AheadIsNew
  <2>5. CalledAt(tt, J, z) = StationAt(tt[c[1][1]], c[2] + 1) BY <1>10 DEF CalledAt
  <2> QED BY <2>4, <2>5
<1>19. c \in Boardable(l)
  <2> DEFINE lo == IF l.kind = "root" THEN QueryTime ELSE TimeOf(l) + TR
             hi == IF l.kind = "root" THEN Min({LastFirstDeparture, Latest}) ELSE Latest
             d == LegDep(tt, J[j])
  <2>1. d \in lo..hi
    <3>1. CASE l.kind = "root"
      <4>1. QueryTime \in Int /\ LastFirstDeparture \in Int /\ Latest \in Int BY NumberFacts
      <4>2. d \in QueryTime..LastFirstDeparture /\ d <= Latest /\ d \in Int BY <1>12, <1>14, <3>1
      <4> HIDE DEF d
      <4> DEFINE S == {LastFirstDeparture, Latest}
                 x == LastFirstDeparture
                 y == Latest
      <4>3. Min(S) \in S
        <5> HIDE DEF x, y
        <5>1. x \in Int /\ y \in Int BY <4>1 DEF x, y
        <5>2. S \subseteq x..y \/ S \subseteq y..x
          <6>1. {x, y} \subseteq x..y \/ {x, y} \subseteq y..x BY <5>1
          <6> QED BY <6>1 DEF x, y
        <5>3. S # {} OBVIOUS
        <5> HIDE DEF S
        <5> QED BY <5>1, <5>2, <5>3, MinOf
      <4>4. d <= LastFirstDeparture /\ d >= QueryTime BY <4>1, <4>2
      <4>5. Min(S) \in Int /\ d <= Min(S) BY <4>1, <4>2, <4>3, <4>4
      <4>6. d \in QueryTime..Min(S) BY <4>1, <4>2, <4>4, <4>5
      <4> QED BY <3>1, <4>6
    <3>2. CASE l.kind = "atStation"
      <4>1. TimeOf(l) \in Int /\ TR \in Int BY <1>1, <3>2, RidingFacts, NumberFacts
      <4>2. d >= TimeOf(l) + TR /\ d <= Latest /\ d \in Int /\ Latest \in Int BY <1>12, <1>14, <3>2
      <4> HIDE DEF d
      <4>3. d \in TimeOf(l) + TR..Latest BY <4>1, <4>2
      <4> QED BY <3>2, <4>3
    <3> QED BY <3>1, <3>2
  <2>2. StationAt(tt[c[1][1]], c[2]) = StationOf(l) /\ Dep(tt, c[1], c[2]) = d
    BY <1>10, <1>13 DEF FromOf, DepAt, Train
  <2>3. val[<<c[1], c[2] + 1>>] = Val(c) BY DEF Val
  <2> HIDE DEF c, lo, hi, d
  <2>4. c \in DeparturesIn(tt, conns, StationOf(l), lo, hi) BY <1>10, <2>1, <2>2 DEF DeparturesIn
  <2>5. c \in {e \in DeparturesIn(tt, conns, StationOf(l), lo, hi) :
                 /\ e[1][1] \notin ChainTrains(l)
                 /\ val[<<e[1], e[2] + 1>>][1] <= Latest
                 /\ val[<<e[1], e[2] + 1>>][1] < l.ceiling
                 /\ StationAt(tt[e[1][1]], e[2] + 1) \notin ChainStations(l)}
    BY <1>16, <1>17, <1>18, <2>3, <2>4
  <2> QED BY <2>5 DEF Boardable, lo, hi
<1>20. OnWay(Boarded(l, c), J)
  <2> DEFINE new == [inst |-> c[1], board |-> c[2], alight |-> c[2] + 1]
             R == Append(Q, new)
             r == Boarded(l, c)
  <2>1. r.kind = "onboard" /\ r.legs = R BY DEF Boarded, Label, Q
  <2>2. Len(R) = j /\ R[j] = new /\ \A i \in 1..n : R[i] = Q[i] BY <1>4 DEF n
  <2>3. \A i \in 1..j - 1 : R[i] = J[i]
    <3>1. j - 1 = n BY <1>4
    <3>2. l.kind = "root" => 1..n = {} BY <1>8
    <3> QED BY <1>7, <2>2, <3>1, <3>2
  <2>4. new.inst = J[j].inst /\ new.board = J[j].board /\ new.alight <= J[j].alight
    <3>1. J[j].board + 1 <= J[j].alight
      <4> DEFINE b == J[j].board
                 a == J[j].alight
      <4>1. b \in Nat /\ a \in Nat /\ b < a BY <1>12
      <4> HIDE DEF a, b
      <4>2. b + 1 <= a BY <4>1
      <4> QED BY <4>2 DEF a, b
    <3> QED BY <1>10, <3>1
  <2>5. j <= Len(J) BY <1>7, <1>9 DEF N
  <2> HIDE DEF r, R, new
  <2> QED BY <2>1, <2>2, <2>3, <2>4, <2>5 DEF OnWay, r
<1> QED BY <1>19, <1>20

\* No two departures have the same place in the listing.
LEMMA RanksDiffer ==
  ASSUME NEW S, IsFiniteSet(S), NEW R, StrictOrder(R, S), NEW a \in S, NEW b \in S,
         Cardinality(Smaller(R, S, a)) = Cardinality(Smaller(R, S, b))
  PROVE  a = b
<1>1. ASSUME NEW x \in S, NEW y \in S, <<x, y>> \in R
      PROVE  Cardinality(Smaller(R, S, x)) # Cardinality(Smaller(R, S, y))
  <2> DEFINE X == Smaller(R, S, x)
             Y == Smaller(R, S, y)
  <2>1. X \subseteq Y
    <3> SUFFICES ASSUME NEW d \in X PROVE d \in Y OBVIOUS
    <3>1. d \in S /\ <<d, x>> \in R BY DEF Smaller
    <3> QED BY <1>1, <3>1 DEF Smaller, StrictOrder
  <2>2. x \in Y /\ x \notin X BY <1>1 DEF Smaller, StrictOrder
  <2>3. Y \subseteq S BY DEF Smaller
  <2> HIDE DEF X, Y
  <2>4. IsFiniteSet(Y) BY <2>3, FS_Subset
  <2>5. Cardinality(Y) # Cardinality(X) BY <2>1, <2>2, <2>4, FS_Subset
  <2> QED BY <2>5 DEF X, Y
<1> QED BY <1>1 DEF StrictOrder

\* Every departure has a place in the listing.
LEMMA EveryDepartureIsListed ==
  ASSUME Given, NEW cs, cs \subseteq conns, NEW c \in cs
  PROVE  \E n \in 1..Cardinality(cs) :
           /\ Cardinality({d \in cs : ListedBefore(tt, d, c)}) = n - 1
           /\ \A e \in cs : Cardinality({d \in cs : ListedBefore(tt, d, e)}) = n - 1 => e = c
<1> DEFINE R == Listed(cs)
           X == Smaller(R, cs, c)
           n == Cardinality(X) + 1
<1>1. IsFiniteSet(cs) /\ StrictOrder(R, cs) /\ \A e \in cs : Smaller(R, cs, e) = {d \in cs : ListedBefore(tt, d, e)}
  BY ListingOrder
<1> HIDE DEF R
<1>2. X \subseteq cs /\ X # cs
  <2>1. c \notin X BY <1>1 DEF Smaller, StrictOrder
  <2> QED BY <2>1 DEF Smaller
<1>3. Cardinality(X) \in Nat /\ Cardinality(cs) \in Nat /\ Cardinality(X) <= Cardinality(cs) /\ Cardinality(X) # Cardinality(cs)
  <2> HIDE DEF X
  <2>1. IsFiniteSet(X) /\ Cardinality(X) <= Cardinality(cs) /\ (Cardinality(cs) = Cardinality(X) => cs = X)
    BY <1>1, <1>2, FS_Subset
  <2> QED BY <1>1, <1>2, <2>1, FS_CardinalityType
<1>4. n \in 1..Cardinality(cs) /\ n - 1 = Cardinality(X)
  <2> HIDE DEF X
  <2> QED BY <1>3
<1>5. Cardinality({d \in cs : ListedBefore(tt, d, c)}) = n - 1 BY <1>1, <1>4
<1>6. ASSUME NEW e \in cs, Cardinality({d \in cs : ListedBefore(tt, d, e)}) = n - 1 PROVE e = c
  <2>1. Cardinality(Smaller(R, cs, e)) = Cardinality(Smaller(R, cs, c)) BY <1>1, <1>4, <1>6
  <2> QED BY <1>1, <2>1, RanksDiffer
<1> HIDE DEF n
<1> QED BY <1>4, <1>5, <1>6

-----------------------------------------------------------------------------
\* The ceilings of the labels that take a label's place.
LEMMA NewCeilings ==
  ASSUME BoundsInv, NEW l, LabelSound(l), CeilingSound(l)
  PROVE  /\ \A m : l.kind = "onboard" /\ Alighted(l) = <<m>> => CeilingSound(m)
         /\ \A m : l.kind = "onboard" /\ Ridden(l) = <<m>> => CeilingSound(m)
         /\ \A c : l.kind = "root" \/ (l.kind = "atStation" /\ StationOf(l) # Destination) =>
              CeilingSound(Boarded(l, c))
<1> DEFINE Q == l.legs
           n == Len(Q)
<1>1. Given /\ KeySound(l) /\ l \in LabelRecords BY DEF BoundsInv, LabelSound, KeySound
<1>2. Q \in Seq(Rides) /\ n \in Nat BY <1>1 DEF LabelRecords
<1>3. ASSUME NEW m, l.kind = "onboard", Alighted(l) = <<m>> PROVE CeilingSound(m)
  <2> DEFINE st == StationOf(l)
             on == ProfileEval(profile[st], TimeOf(l) + TR)
             bound == IF st = Destination THEN <<TimeOf(l), 0>> ELSE <<on[1], on[2] + 1>>
             key == <<bound[1], l.key[2], TransfersOf(l) + bound[2], Wait(l)>>
  <2>1. Alighted(l) \in {<<Left(l, key)>>, <<>>} BY DEF Alighted, Left
  <2>2. CeilingSound(Left(l, key)) BY <1>1, <1>3, LeftCeiling
  <2> HIDE DEF key
  <2>3. m = Left(l, key) BY <1>3, <2>1
  <2> QED BY <2>2, <2>3
<1>4. ASSUME NEW m, l.kind = "onboard", Ridden(l) = <<m>> PROVE CeilingSound(m)
  <2> DEFINE k == Riding(l).alight + 1
             v == val[<<Riding(l).inst, k>>]
             R == [Q EXCEPT ![n].alight = k]
             r == Label("onboard", R, FALSE, l.ceiling, <<v[1], l.key[2], TransfersOf(l) + v[2], Wait(l)>>)
  <2>1. Ridden(l) \in {<<r>>, <<>>} BY DEF Ridden
  <2> HIDE DEF r
  <2>2. m = r BY <1>4, <2>1
  <2>3. m.legs = R /\ m.ceiling = l.ceiling BY <2>2 DEF r, Label
  <2>4. R = [i \in DOMAIN Q |-> IF i = n THEN [Q[n] EXCEPT !.alight = k] ELSE Q[i]] OBVIOUS
  <2>5. DOMAIN Q = 1..n BY <1>2
  <2>6. DOMAIN R = 1..n /\ Len(R) = n BY <1>2, <2>4, <2>5
  <2>7. \A j \in 1..n : j < n => j < Len(R) /\ \A i \in 1..j : R[i] = Q[i]
    <3> SUFFICES ASSUME NEW j \in 1..n, j < n, NEW i \in 1..j PROVE R[i] = Q[i] BY <2>6
    <3>1. i \in 1..n /\ i # n BY <1>2
    <3> QED BY <2>4, <2>5, <3>1
  <2> DEFINE S == {R[i] : i \in 1..n} \cup {Q[i] : i \in 1..n}
  <2> HIDE DEF R
  <2>8. R \in Seq(S) /\ Q \in Seq(S)
    <3> DEFINE ride == [Q[n] EXCEPT !.alight = k]
    <3> HIDE DEF ride, Q
    <3>0. R = [i \in 1..n |-> IF i = n THEN ride ELSE Q[i]] BY <2>4, <2>5 DEF ride
    <3>1. R = [i \in 1..n |-> R[i]] BY <3>0
    <3>4. Q = [i \in 1..n |-> Q[i]] BY <1>2
    <3>2. \A i \in 1..n : R[i] \in S /\ Q[i] \in S OBVIOUS
    <3> HIDE DEF S, Q
    <3>3. R \in [1..n -> S] /\ Q \in [1..n -> S] BY <3>1, <3>2, <3>4
    <3> QED BY <1>2, <3>3
  <2> HIDE DEF S
  <2>9. \A j \in 1..Len(l.legs) :
          j < Len(l.legs) \/ (l.kind = "atStation" /\ StationOf(l) # Destination) =>
            j < Len(m.legs) /\ \A i \in 1..j : m.legs[i] = l.legs[i]
    BY <1>4, <2>3, <2>7
  <2> QED BY <2>3, <2>8, <2>9, CeilingPasses
<1>5. ASSUME NEW c, l.kind = "root" \/ (l.kind = "atStation" /\ StationOf(l) # Destination)
      PROVE  CeilingSound(Boarded(l, c))
  <2> DEFINE new == [inst |-> c[1], board |-> c[2], alight |-> c[2] + 1]
             r == Boarded(l, c)
             S == Rides \cup {new}
             R == Append(Q, new)
  <2>1. r.legs = R /\ r.ceiling = l.ceiling BY DEF Boarded, Label
  <2> HIDE DEF new, r
  <2>2. new \in S /\ Q \in Seq(S)
    <3> DEFINE T == Rides
    <3>1. Q \in Seq(T) BY <1>2
    <3> HIDE DEF T
    <3>2. Q \in Seq(T \cup {new}) BY <3>1
    <3> QED BY <3>2 DEF T
  <2> HIDE DEF S
  <2>3. R \in Seq(S) /\ Len(R) = n + 1 /\ \A i \in 1..n : R[i] = Q[i] BY <2>2
  <2> HIDE DEF R
  <2>4. \A j \in 1..Len(l.legs) : j < Len(r.legs) /\ \A i \in 1..j : r.legs[i] = l.legs[i]
    <3> SUFFICES ASSUME NEW j \in 1..n PROVE j < Len(R) /\ \A i \in 1..j : R[i] = Q[i] BY <2>1
    <3>1. j < n + 1 /\ \A i \in 1..j : i \in 1..n BY <1>2
    <3> QED BY <2>3, <3>1
  <2>5. r.legs \in Seq(S) /\ l.legs \in Seq(S) BY <2>1, <2>2, <2>3
  <2>6. CeilingSound(r) BY <2>1, <2>4, <2>5, CeilingPasses
  <2> QED BY <2>6 DEF r
<1> QED BY <1>3, <1>4, <1>5

-----------------------------------------------------------------------------
(* No journey worth showing is lost. *)

\* The journeys worth showing.
Shown == Worthwhile(tt, MaxTransfers)

\* Where every label's ceiling comes from.
Ceilings == \A i \in 1..Len(labels) : CeilingSound(labels[i])

\* A journey worth showing is in the answer, or a label that waits is on its way.
Covered ==
  phase # "scan" /\ KNode = 0 /\ LoopFree(tt) =>
    \A J \in Shown : Seen(J) \/ \E i \in open : OnWay(labels[i], J)

\* The itinerary of a journey worth showing that ranks before an answer comes
\* before that answer.
Ranked ==
  KNode = 0 /\ LoopFree(tt) =>
    \A n \in 1..Len(answer) : \A J \in Shown :
      Before(Rank(tt, J), Rank(tt, answer[n])) => \E m \in 1..n - 1 : Signature(tt, answer[m]) = Signature(tt, J)

\* Every answer is worth showing.
Worthy == \A i \in 1..Len(answer) : answer[i] \in Shown

\* The search ends with K answers, or truncated if a label waits.
Ended == phase = "done" => Len(answer) >= K \/ (truncated <=> open # {})

CompleteInv == Ceilings /\ Covered /\ Ranked /\ Worthy /\ Ended

\* What is worth showing depends on the timetable and the limits only.
LEMMA ShownKeeps ==
  ASSUME tt' = tt, limits' = limits
  PROVE  /\ Shown' = Shown /\ (KNode = 0)' = (KNode = 0) /\ LoopFree(tt)' = LoopFree(tt) /\ K' = K
         /\ \A l : CeilingSound(l)' <=> CeilingSound(l)
<1>1. Shown' = Shown /\ (KNode = 0)' = (KNode = 0) /\ LoopFree(tt)' = LoopFree(tt) /\ K' = K
  BY DEF Shown, KNode, LoopFree, K, MaxTransfers
<1>2. \A J, n, m : GoesOn(J, n, m)' <=> GoesOn(J, n, m) BY DEF GoesOn, Stops, Train
<1>3. \A l : StationOf(l)' = StationOf(l) BY DEF StationOf, Riding
<1>4. \A l, n, m : StaysOn(l, n, m)' <=> StaysOn(l, n, m) BY <1>2, <1>3 DEF StaysOn
<1>5. \A l : CeilingSound(l)' <=> CeilingSound(l) BY <1>4 DEF CeilingSound
<1> QED BY <1>1, <1>5

\* A step that leaves the answer alone.
LEMMA AnswerKeeps ==
  ASSUME tt' = tt, limits' = limits, answer' = answer, Ranked, Worthy
  PROVE  Ranked' /\ Worthy' /\ \A J : Seen(J)' <=> Seen(J)
<1>1. Shown' = Shown /\ (KNode = 0)' = (KNode = 0) /\ LoopFree(tt)' = LoopFree(tt) BY ShownKeeps
<1>2. Ranked' BY <1>1 DEF Ranked
<1>3. Worthy' BY <1>1 DEF Worthy
<1>4. \A J : Seen(J)' <=> Seen(J) BY DEF Seen
<1> QED BY <1>2, <1>3, <1>4

-----------------------------------------------------------------------------
\* A label is taken and others are put in its place: no journey is lost if one
\* of them is on its way whenever the label was.
LEMMA PushCovers ==
  ASSUME BoundsInv, SearchInv, CompleteInv, NEW i \in open, Top(i), NEW new, Push(i, new),
         new \in Seq(LabelRecords), \A n \in 1..Len(new) : CeilingSound(new[n]),
         KNode = 0 /\ LoopFree(tt) =>
           \A J \in Shown : OnWay(labels[i], J) => \E n \in 1..Len(new) : OnWay(new[n], J)
  PROVE  CompleteInv'
<1> DEFINE N == Len(labels)
<1>1. /\ labels' = labels \o new /\ open' = (open \ {i}) \union (N + 1..N + Len(new))
      /\ tt' = tt /\ limits' = limits /\ answer' = answer /\ phase' = phase
  BY DEF Push, given
<1>2. phase = "search" BY DEF Top
<1>3. labels \in Seq(LabelRecords) /\ open \subseteq 1..N /\ N \in Nat BY DEF SearchInv
<1>4. Len(new) \in Nat OBVIOUS
<1>5. /\ Len(labels') = N + Len(new)
      /\ \A n \in 1..N : labels'[n] = labels[n]
      /\ \A n \in N + 1..N + Len(new) : n - N \in 1..Len(new) /\ labels'[n] = new[n - N]
  BY <1>1, <1>3
<1>6. /\ Shown' = Shown /\ (KNode = 0)' = (KNode = 0) /\ LoopFree(tt)' = LoopFree(tt)
      /\ \A l : CeilingSound(l)' <=> CeilingSound(l)
  BY <1>1, ShownKeeps
<1>7. Ranked' /\ Worthy' /\ \A J : Seen(J)' <=> Seen(J) BY <1>1, AnswerKeeps DEF CompleteInv
<1> HIDE DEF N
<1>8. Ceilings'
  <2> SUFFICES ASSUME NEW n \in 1..Len(labels') PROVE CeilingSound(labels'[n]) BY <1>6 DEF Ceilings
  <2>1. n \in 1..N \/ n \in N + 1..N + Len(new) BY <1>3, <1>4, <1>5
  <2>2. CASE n \in 1..N BY <1>5, <2>2 DEF CompleteInv, Ceilings, N
  <2>3. CASE n \in N + 1..N + Len(new) BY <1>5, <2>3
  <2> QED BY <2>1, <2>2, <2>3
<1>9. Covered'
  <2> SUFFICES ASSUME KNode = 0, LoopFree(tt), NEW J \in Shown
               PROVE  Seen(J) \/ \E j \in open' : OnWay(labels'[j], J)
    BY <1>6, <1>7 DEF Covered
  <2>1. CASE Seen(J) BY <2>1
  <2>2. CASE ~Seen(J)
    <3>1. PICK j \in open : OnWay(labels[j], J) BY <1>2, <2>2 DEF CompleteInv, Covered
    <3>2. CASE j = i
      <4>1. PICK n \in 1..Len(new) : OnWay(new[n], J) BY <3>1, <3>2
      <4>2. N + n \in N + 1..N + Len(new) /\ (N + n) - N = n BY <1>3, <1>4
      <4>3. labels'[N + n] = new[n] /\ N + n \in open' BY <1>1, <1>5, <4>2 DEF N
      <4> QED BY <4>1, <4>3
    <3>3. CASE j # i
      <4>1. j \in open' /\ labels'[j] = labels[j] BY <1>1, <1>3, <1>5, <3>3
      <4> QED BY <3>1, <4>1
    <3> QED BY <3>2, <3>3
  <2> QED BY <2>1, <2>2
<1>10. Ended' BY <1>1, <1>2 DEF Ended
<1> QED BY <1>7, <1>8, <1>9, <1>10 DEF CompleteInv

\* An onboard label on the way of a journey leaves one that is: alighted where
\* the journey alights, ridden on before that.
LEMMA RideCovers ==
  ASSUME BoundsInv, SearchInv, CompleteInv, NEW i \in open, Ride(i)
  PROVE  CompleteInv'
<1> DEFINE l == labels[i]
           new == Alighted(l) \o Ridden(l)
<1>1. Top(i) /\ l.kind = "onboard" /\ Push(i, new) BY DEF Ride
<1>2. LabelSound(l) /\ CeilingSound(l) /\ phase # "scan"
  <2>1. i \in 1..Len(labels) BY DEF SearchInv
  <2> QED BY <1>1, <2>1 DEF SearchInv, CompleteInv, Ceilings, Top
<1> HIDE DEF l
<1> DEFINE F == {m \in LabelRecords : CeilingSound(m)}
<1> HIDE DEF F
<1>3. Alighted(l) = <<>> \/ \E m \in F : Alighted(l) = <<m>>
  <2>1. CASE Alighted(l) = <<>> BY <2>1
  <2>2. CASE Alighted(l) # <<>>
    <3>1. PICK m : Alighted(l) = <<m>> /\ Succeeds(m, l) BY <1>1, <1>2, <2>2, NewLabelsSucceed
    <3>2. CeilingSound(m) BY <1>1, <1>2, <3>1, NewCeilings
    <3>3. m \in F BY <3>1, <3>2 DEF Succeeds, LabelSound, KeySound, F
    <3> QED BY <3>1, <3>3
  <2> QED BY <2>1, <2>2
<1>4. Ridden(l) = <<>> \/ \E m \in F : Ridden(l) = <<m>>
  <2>1. CASE Ridden(l) = <<>> BY <2>1
  <2>2. CASE Ridden(l) # <<>>
    <3>1. PICK m : Ridden(l) = <<m>> /\ Succeeds(m, l) BY <1>1, <1>2, <2>2, NewLabelsSucceed
    <3>2. CeilingSound(m) BY <1>1, <1>2, <3>1, NewCeilings
    <3>3. m \in F BY <3>1, <3>2 DEF Succeeds, LabelSound, KeySound, F
    <3> QED BY <3>1, <3>3
  <2> QED BY <2>1, <2>2
<1>5. Alighted(l) \in Seq(F) /\ Ridden(l) \in Seq(F)
  <2>1. <<>> \in Seq(F) /\ \A m \in F : <<m>> \in Seq(F) OBVIOUS
  <2> QED BY <1>3, <1>4, <2>1
<1>6. new \in Seq(F) BY <1>5
<1>7. \A m : Alighted(l) = <<m>> => 1 \in 1..Len(new) /\ new[1] = m BY <1>5
<1>8. \A m : Ridden(l) = <<m>> => Len(new) \in 1..Len(new) /\ new[Len(new)] = m BY <1>5
<1> HIDE DEF new
<1>9. \A n \in 1..Len(new) : new[n] \in F BY <1>6
<1>10. \A n \in 1..Len(new) : CeilingSound(new[n]) BY <1>9 DEF F
<1>11. new \in Seq(LabelRecords)
  <2>1. \A n \in 1..Len(new) : new[n] \in LabelRecords BY <1>9 DEF F
  <2> QED BY <1>6, <2>1
<1>12. ASSUME LoopFree(tt), NEW J \in Shown, OnWay(l, J) PROVE \E n \in 1..Len(new) : OnWay(new[n], J)
  <2>1. CASE Riding(l).alight = J[Len(l.legs)].alight
    <3>1. PICK m : Alighted(l) = <<m>> /\ OnWay(m, J)
      BY <1>1, <1>2, <1>12, <2>1, AlightingCovers DEF Shown
    <3> QED BY <1>7, <3>1
  <2>2. CASE Riding(l).alight # J[Len(l.legs)].alight
    <3>1. PICK m : Ridden(l) = <<m>> /\ OnWay(m, J)
      BY <1>1, <1>2, <1>12, <2>2, RidingCovers DEF Shown
    <3> QED BY <1>8, <3>1
  <2> QED BY <2>1, <2>2
<1> QED BY <1>1, <1>10, <1>11, <1>12, PushCovers DEF l

\* A label that may board leaves one for every departure, also for that of the
\* journey on whose way it is.
LEMMA BoardCovers ==
  ASSUME BoundsInv, SearchInv, CompleteInv, NEW i \in open, Board(i)
  PROVE  CompleteInv'
<1> DEFINE l == labels[i]
           cs == Boardable(l)
           nth(n) == CHOOSE c \in cs : Cardinality({d \in cs : ListedBefore(tt, d, c)}) = n - 1
           new == [n \in 1..Cardinality(cs) |-> Boarded(l, nth(n))]
<1>1. Top(i) /\ Push(i, new) BY DEF Board
<1>2. l.kind = "root" \/ (l.kind = "atStation" /\ StationOf(l) # Destination) BY DEF Board
<1>3. LabelSound(l) /\ CeilingSound(l) /\ phase # "scan"
  <2>1. i \in 1..Len(labels) BY DEF SearchInv
  <2> QED BY <1>1, <2>1 DEF SearchInv, CompleteInv, Ceilings, Top
<1> HIDE DEF l
<1>4. Given BY DEF BoundsInv
<1>5. cs \subseteq conns BY <1>2, <1>3, BoardableFacts DEF LabelSound
<1> HIDE DEF cs
<1>6. Cardinality(cs) \in Nat
  <2>1. IsFiniteSet(conns) BY <1>4, ConnectionsFinite DEF Given
  <2>2. IsFiniteSet(cs) BY <1>5, <2>1, FS_Subset
  <2> QED BY <2>2, FS_CardinalityType
<1>7. \A n \in 1..Cardinality(cs) : nth(n) \in cs
  <2> SUFFICES ASSUME NEW n \in 1..Cardinality(cs) PROVE nth(n) \in cs OBVIOUS
  <2>1. \E c \in cs : Cardinality({d \in cs : ListedBefore(tt, d, c)}) = n - 1
    BY <1>4, <1>5, NthExists
  <2> QED BY <2>1
<1>8. \A c \in cs : \E n \in 1..Cardinality(cs) : nth(n) = c
  <2> SUFFICES ASSUME NEW c \in cs PROVE \E n \in 1..Cardinality(cs) : nth(n) = c OBVIOUS
  <2>1. PICK n \in 1..Cardinality(cs) :
          /\ Cardinality({d \in cs : ListedBefore(tt, d, c)}) = n - 1
          /\ \A e \in cs : Cardinality({d \in cs : ListedBefore(tt, d, e)}) = n - 1 => e = c
    BY <1>4, <1>5, EveryDepartureIsListed
  <2>2. nth(n) = c BY <2>1
  <2> QED BY <2>2
<1> HIDE DEF nth
<1>9. \A n \in 1..Cardinality(cs) : Succeeds(Boarded(l, nth(n)), l)
  BY <1>2, <1>3, <1>7, NewLabelsSucceed DEF cs
<1>10. \A n \in 1..Cardinality(cs) : Boarded(l, nth(n)) \in LabelRecords
  BY <1>9 DEF Succeeds, LabelSound, KeySound
<1>11. new \in Seq(LabelRecords) /\ Len(new) = Cardinality(cs) BY <1>6, <1>10
<1>12. \A n \in 1..Len(new) : CeilingSound(new[n])
  <2>1. \A c : CeilingSound(Boarded(l, c)) BY <1>2, <1>3, NewCeilings
  <2> QED BY <1>11, <2>1
<1>13. ASSUME LoopFree(tt), NEW J \in Shown, OnWay(l, J) PROVE \E n \in 1..Len(new) : OnWay(new[n], J)
  <2>1. PICK c \in cs : OnWay(Boarded(l, c), J)
    BY <1>2, <1>3, <1>13, BoardingCovers DEF Shown, cs
  <2>2. PICK n \in 1..Cardinality(cs) : nth(n) = c BY <1>8
  <2>3. n \in 1..Len(new) /\ new[n] = Boarded(l, c) BY <1>11, <2>2
  <2> QED BY <2>1, <2>3
<1> HIDE DEF new
<1> QED BY <1>1, <1>11, <1>12, <1>13, PushCovers DEF l

\* The cap is what drops labels that other journeys need.
LEMMA PruningCovers ==
  ASSUME BoundsInv, SearchInv, CompleteInv, NEW i \in open, PruneByCap(i)
  PROVE  CompleteInv'
<1>1. Top(i) /\ Push(i, <<>>) /\ KNode # 0
  <2>1. limits \in Limits BY DEF BoundsInv, Given
  <2>2. KNode \in Nat BY <2>1, RouterAssumption DEF KNode
  <2> QED BY <2>2 DEF PruneByCap, Capped
<1>2. <<>> \in Seq(LabelRecords) /\ Len(<<>>) = 0 OBVIOUS
<1>3. \A n \in 1..Len(<<>>) : CeilingSound(<<>>[n]) BY <1>2
<1> QED BY <1>1, <1>2, <1>3, PushCovers

\* The order on keys is total.
LEMMA KeysChain ==
  ASSUME NEW a \in Enumeration!Keys, NEW b \in Enumeration!Keys, NEW c \in Enumeration!Keys,
         Enumeration!KeyBefore(a, b)
  PROVE  Enumeration!KeyBefore(a, c) \/ Enumeration!KeyBefore(c, b)
BY DEF Enumeration!Keys, Enumeration!KeyBefore

\* What is completed has its rank for a key, and is added only if it is worth
\* showing and new.
LEMMA CompletedFacts ==
  ASSUME BoundsInv, SearchInv, NEW i \in open, Complete(i)
  PROVE  /\ labels[i].legs \in AllJourneys(tt, MaxTransfers)
         /\ labels[i].key = Rank(tt, labels[i].legs) /\ labels[i].key \in Enumeration!Keys
         /\ labels[i].legs \in Shown => ~Dominated(labels[i].legs)
         /\ ~Dominated(labels[i].legs) => labels[i].legs \in Shown
<1> DEFINE l == labels[i]
           key == l.key
           J == l.legs
<1>1. l.kind = "atStation" /\ StationOf(l) = Destination BY DEF Complete
<1>2. i \in 1..Len(labels) /\ LabelSound(l) /\ KeySound(l) /\ Given BY DEF SearchInv, LabelSound, BoundsInv
<1>3. J \in AllJourneys(tt, MaxTransfers) BY <1>1, <1>2, CompletedIsJourney
<1>4. /\ J \in Seq(Rides) /\ J # <<>> /\ TimeOf(l) = LegArr(tt, Riding(l))
      /\ key = <<key[1], -Departure(tt, J), key[3], Waiting(tt, J)>>
  <2>1. l.kind # "root" BY <1>1
  <2> HIDE DEF l
  <2> QED BY <1>2, <2>1, RidingFacts
<1>5. key[1] = TimeOf(l) /\ key[3] = TransfersOf(l) BY <1>1, <1>2 DEF KeySound
<1>6. key = Rank(tt, J) BY <1>4, <1>5 DEF Rank, Arrival, Riding, TransfersOf
<1>7. key \in Enumeration!Keys
  <2>1. l \in LabelRecords BY <1>2 DEF SearchInv
  <2> HIDE DEF l
  <2> QED BY <2>1 DEF LabelRecords
<1>8. Dominated(J) <=> Pointless(tt, MaxTransfers, J) BY <1>2, <1>3, DominatedIsPointless
<1> QED BY <1>3, <1>6, <1>7, <1>8 DEF Shown, Worthwhile

\* A completed journey that is worth showing is in the answer then; what ranks
\* before it has been completed, for a label on its way would have been taken.
LEMMA CompleteCovers ==
  ASSUME BoundsInv, SearchInv, CompleteInv, NEW i \in open, Complete(i)
  PROVE  CompleteInv'
<1> DEFINE l == labels[i]
           J == l.legs
           N == Len(answer)
<1>1. /\ Top(i) /\ l.kind = "atStation" /\ StationOf(l) = Destination
      /\ answer' = IF Dominated(J) \/ Seen(J) THEN answer ELSE Append(answer, J)
      /\ phase' = (IF Len(answer') >= K THEN "done" ELSE phase)
      /\ open' = open \ {i} /\ labels' = labels
      /\ tt' = tt /\ limits' = limits
  BY DEF Complete, given
<1>2. phase = "search" BY <1>1 DEF Top
<1>3. i \in 1..Len(labels) /\ LabelSound(l) /\ KeySound(l) /\ CeilingSound(l)
      /\ answer \in Seq(Seq(Rides)) /\ open \subseteq 1..Len(labels)
  BY DEF SearchInv, LabelSound, CompleteInv, Ceilings
<1>4. Given BY DEF BoundsInv
<1>5. /\ J \in AllJourneys(tt, MaxTransfers) /\ J \in Seq(Rides)
      /\ l.key = Rank(tt, J) /\ l.key \in Enumeration!Keys
      /\ J \in Shown => ~Dominated(J)
      /\ ~Dominated(J) => J \in Shown
  BY <1>1, <1>3, CompletedFacts, CompletedIsJourney
<1>6. /\ Shown' = Shown /\ (KNode = 0)' = (KNode = 0) /\ LoopFree(tt)' = LoopFree(tt) /\ K' = K
      /\ \A m : CeilingSound(m)' <=> CeilingSound(m)
  BY <1>1, ShownKeeps
<1>7. Ceilings' BY <1>1, <1>6 DEF CompleteInv, Ceilings
<1>8. Ended'
  <2>1. phase' = "done" => Len(answer') >= K BY <1>1, <1>2
  <2> QED BY <1>6, <2>1 DEF Ended
<1>9. \A L : Signature(tt, L)' = Signature(tt, L) /\ Rank(tt, L)' = Rank(tt, L) BY <1>1
<1>10. /\ N \in Nat /\ DOMAIN answer = 1..N
       /\ \A n \in 1..N : n \in 1..Len(answer') /\ n \in DOMAIN answer' /\ answer'[n] = answer[n]
       /\ answer' = answer \/ Len(answer') = N + 1
       /\ ~Dominated(J) /\ ~Seen(J) => N + 1 \in DOMAIN answer' /\ answer'[N + 1] = J
       /\ answer' = answer \/ (~Dominated(J) /\ ~Seen(J) /\ answer'[N + 1] = J)
  <2> DEFINE S == Seq(Rides)
  <2>1. answer \in Seq(S) /\ J \in S BY <1>3, <1>5
  <2> HIDE DEF S, J
  <2> QED BY <1>1, <2>1
<1>11. ASSUME KNode = 0, LoopFree(tt), NEW L \in Shown
       PROVE  Seen(L) \/ \E j \in open : OnWay(labels[j], L)
  BY <1>2, <1>11 DEF CompleteInv, Covered
<1>12. \A L \in Shown : L \in AllJourneys(tt, MaxTransfers) BY DEF Shown, Worthwhile
<1>13. Covered'
  <2> SUFFICES ASSUME KNode = 0, LoopFree(tt), NEW L \in Shown
               PROVE  Seen(L)' \/ \E j \in open' : OnWay(labels'[j], L)
    BY <1>6 DEF Covered
  <2>1. Seen(L) => Seen(L)' BY <1>9, <1>10 DEF Seen
  <2>2. ASSUME OnWay(l, L) PROVE Seen(L)'
    <3>1. J \in Seq(Rides) /\ J # <<>>
      <4>1. l.kind # "root" BY <1>1
      <4> HIDE DEF l
      <4> QED BY <1>3, <1>4, <4>1, RidingFacts
    <3>2. Way(l, L) BY <1>1, <1>4, <1>12, <2>2, <3>1, WayFacts
    <3>3. J = L BY <1>1, <1>4, <1>12, <3>1, <3>2, ArrivedIsWhole
    <3>4. ~Dominated(J) BY <1>5, <3>3
    <3>5. CASE Seen(J) BY <2>1, <3>3, <3>5
    <3>6. CASE ~Seen(J)
      <4>1. N + 1 \in DOMAIN answer' /\ answer'[N + 1] = L BY <1>10, <3>3, <3>4, <3>6
      <4> HIDE DEF l, J, N
      <4> QED BY <4>1 DEF Seen
    <3> QED BY <3>5, <3>6
  <2>3. Seen(L) \/ \E j \in open : OnWay(labels[j], L) BY <1>11
  <2>4. ASSUME NEW j \in open, OnWay(labels[j], L) PROVE Seen(L)' \/ \E k \in open' : OnWay(labels'[k], L)
    <3>1. CASE j = i BY <2>2, <2>4, <3>1
    <3>2. CASE j # i BY <1>1, <2>4, <3>2
    <3> QED BY <3>1, <3>2
  <2> QED BY <2>1, <2>3, <2>4
<1>14. Ranked'
  <2> SUFFICES ASSUME KNode = 0, LoopFree(tt), NEW n \in 1..Len(answer'), NEW L \in Shown,
                      Before(Rank(tt, L), Rank(tt, answer'[n]))
               PROVE  \E m \in 1..n - 1 : Signature(tt, answer'[m]) = Signature(tt, L)
    BY <1>1, <1>6 DEF Ranked
  <2>1. CASE n \in 1..N
    <3>1. PICK m \in 1..n - 1 : Signature(tt, answer[m]) = Signature(tt, L)
      BY <1>10, <2>1 DEF CompleteInv, Ranked
    <3>2. m \in 1..N BY <1>10, <2>1
    <3> QED BY <1>10, <3>1, <3>2
  <2>2. CASE n \notin 1..N
    <3>1. answer' # answer /\ n = N + 1 /\ answer'[n] = J
      <4> HIDE DEF l, J
      <4>1. answer' # answer BY <2>2
      <4> HIDE DEF N
      <4> QED BY <1>10, <2>2, <4>1
    <3>2. Seen(L)
      <4>1. ASSUME NEW j \in open, OnWay(labels[j], L) PROVE FALSE
        <5>1. j \in 1..Len(labels) /\ LabelSound(labels[j]) BY <1>3 DEF SearchInv
        <5>2. Rank(tt, L) \in Enumeration!Keys /\ ~Enumeration!KeyBefore(Rank(tt, L), labels[j].key)
          BY <1>2, <1>12, <4>1, <5>1, KeyBelow
        <5>3. ~Enumeration!KeyBefore(labels[j].key, l.key) BY <1>1, TopIsLeast
        <5>4. labels[j].key \in Enumeration!Keys
          <6>1. labels[j] \in LabelRecords BY <5>1 DEF SearchInv
          <6> QED BY <6>1 DEF LabelRecords
        <5>5. Enumeration!KeyBefore(Rank(tt, L), l.key) BY <1>5, <3>1, RanksCompareAsKeys
        <5> HIDE DEF l
        <5> QED BY <1>5, <5>2, <5>3, <5>4, <5>5, KeysChain
      <4> QED BY <1>11, <4>1
    <3>3. PICK m \in 1..N : Signature(tt, answer[m]) = Signature(tt, L) BY <1>10, <3>2 DEF Seen
    <3>4. m \in 1..n - 1 BY <1>10, <3>1
    <3> QED BY <1>10, <3>3, <3>4
  <2> QED BY <2>1, <2>2
<1>15. Worthy'
  <2> SUFFICES ASSUME NEW n \in 1..Len(answer') PROVE answer'[n] \in Shown BY <1>6 DEF Worthy
  <2>1. CASE n \in 1..N BY <1>10, <2>1 DEF CompleteInv, Worthy
  <2>2. CASE n \notin 1..N
    <3> HIDE DEF l, J
    <3>1. answer' # answer BY <2>2
    <3> HIDE DEF N
    <3>2. n = N + 1 /\ answer'[n] = J /\ ~Dominated(J) BY <1>10, <2>2, <3>1
    <3> QED BY <1>5, <3>2
  <2> QED BY <2>1, <2>2
<1> QED BY <1>7, <1>8, <1>13, <1>14, <1>15 DEF CompleteInv

-----------------------------------------------------------------------------
\* The search starts with the root, which is on the way of every journey.
LEMMA StartCovers ==
  ASSUME BoundsInv, SearchInv, CompleteInv, StartSearch
  PROVE  CompleteInv'
<1>1. /\ labels' = <<Root>> /\ open' = {1} /\ tt' = tt /\ limits' = limits /\ answer' = answer
      /\ phase' = "search"
  BY DEF StartSearch, given
<1>2. Len(labels') = 1 /\ labels'[1] = Root BY <1>1
<1>3. \A l : CeilingSound(l)' <=> CeilingSound(l) BY <1>1, ShownKeeps
<1>4. Ranked' /\ Worthy' BY <1>1, AnswerKeeps DEF CompleteInv
<1>5. Ceilings'
  <2>1. CeilingSound(Root) BY DEF CeilingSound, Root, Label
  <2>2. \A i \in 1..Len(labels') : i = 1 BY <1>2
  <2> QED BY <1>2, <1>3, <2>1, <2>2 DEF Ceilings
<1>6. Covered'
  <2> SUFFICES ASSUME NEW J \in Shown' PROVE OnWay(Root, J) BY <1>1, <1>2 DEF Covered
  <2>1. J \in AllJourneys(tt, MaxTransfers) BY <1>1, ShownKeeps DEF Shown, Worthwhile
  <2>2. Len(J) \in Nat BY <2>1, JourneyRides DEF BoundsInv
  <2>3. Root.legs = <<>> /\ Root.kind = "root" BY DEF Root, Label
  <2> QED BY <2>2, <2>3 DEF OnWay
<1>7. Ended' BY <1>1 DEF Ended
<1> QED BY <1>4, <1>5, <1>6, <1>7 DEF CompleteInv

\* Every step keeps the invariant.
LEMMA StepCovers ==
  ASSUME BoundsInv, SearchInv, CompleteInv, [Next]_vars
  PROVE  CompleteInv'
<1>1. ASSUME tt' = tt, limits' = limits, labels' = labels, open' = open, answer' = answer,
             phase' = "scan" \/ phase # "scan", Ended'
      PROVE  CompleteInv'
  <2>1. /\ Shown' = Shown /\ (KNode = 0)' = (KNode = 0) /\ LoopFree(tt)' = LoopFree(tt)
        /\ \A l : CeilingSound(l)' <=> CeilingSound(l)
    BY <1>1, ShownKeeps
  <2>2. Ranked' /\ Worthy' /\ \A J : Seen(J)' <=> Seen(J) BY <1>1, AnswerKeeps DEF CompleteInv
  <2>3. Ceilings' BY <1>1, <2>1 DEF CompleteInv, Ceilings
  <2>4. Covered' BY <1>1, <2>1, <2>2 DEF CompleteInv, Covered
  <2> QED BY <1>1, <2>2, <2>3, <2>4 DEF CompleteInv
<1>2. ASSUME NEW c \in todo, ScanConnection(c) PROVE CompleteInv'
  <2>1. /\ labels' = labels /\ open' = open /\ answer' = answer /\ tt' = tt /\ limits' = limits
        /\ phase = "scan" /\ phase' = "scan"
    BY <1>2 DEF ScanConnection, given, search
  <2>2. Ended' BY <2>1 DEF Ended
  <2> QED BY <1>1, <2>1, <2>2
<1>3. CASE StartSearch BY <1>3, StartCovers
<1>4. CASE Stop
  <2>1. /\ labels' = labels /\ open' = open /\ answer' = answer /\ tt' = tt /\ limits' = limits
        /\ phase = "search" /\ truncated' = (open # {})
    BY <1>4 DEF Stop, given
  <2>2. Ended' BY <2>1 DEF Ended
  <2> QED BY <1>1, <2>1, <2>2
<1>5. ASSUME NEW i \in open, PruneByCap(i) \/ Complete(i) \/ Ride(i) \/ Board(i) PROVE CompleteInv'
  BY <1>5, PruningCovers, CompleteCovers, RideCovers, BoardCovers
<1>6. CASE UNCHANGED vars
  <2>1. /\ labels' = labels /\ open' = open /\ answer' = answer /\ tt' = tt /\ limits' = limits
        /\ phase' = phase /\ truncated' = truncated
    BY <1>6 DEF vars, given, search
  <2>2. Ended' BY <2>1 DEF CompleteInv, Ended, K
  <2> QED BY <1>1, <2>1, <2>2
<1> QED BY <1>2, <1>3, <1>4, <1>5, <1>6 DEF Next

\* CompleteInv is inductive, on the bounds and the labels of RouterProofs.
LEMMA CompleteInvariant == Spec => []CompleteInv
<1>1. Init => CompleteInv
  <2> SUFFICES ASSUME Init PROVE CompleteInv OBVIOUS
  <2>1. labels = <<>> /\ answer = <<>> /\ phase = "scan" BY DEF Init
  <2>2. Len(labels) = 0 /\ Len(answer) = 0 BY <2>1
  <2> QED BY <2>1, <2>2 DEF CompleteInv, Ceilings, Covered, Ranked, Worthy, Ended
<1>2. BoundsInv /\ SearchInv /\ CompleteInv /\ [Next]_vars => CompleteInv' BY StepCovers
<1> QED BY <1>1, <1>2, SearchInvariant, PTL DEF Spec

-----------------------------------------------------------------------------
\* A search that is not cut short returns K journeys or one of every itinerary
\* worth showing.
LEMMA NothingLeftOut ==
  ASSUME BoundsInv, SearchInv, CompleteInv, LoopFree(tt) PROVE AnswerComplete
<1> SUFFICES ASSUME phase = "done", KNode = 0, ~truncated, ~(Len(answer) >= K), NEW J \in Shown PROVE Seen(J)
  <2>1. K \in Nat BY LimitFacts DEF BoundsInv
  <2>2. Len(answer) \in Nat BY DEF SearchInv
  <2>3. Len(answer) < K => ~(Len(answer) >= K) BY <2>1, <2>2
  <2> QED BY <2>3 DEF AnswerComplete, Shown
<1>1. open = {} BY DEF CompleteInv, Ended
<1> QED BY <1>1 DEF CompleteInv, Covered

\* A search that is not cut short leaves nothing out while there is room: for
\* every timetable without such loops, every query and every limits it returns
\* K journeys or one of every itinerary worth showing (Router::route without
\* k_node).
THEOREM NoJourneyIsMissed == Spec => [](LoopFree(tt) => AnswerComplete)
<1>1. BoundsInv /\ SearchInv /\ CompleteInv => (LoopFree(tt) => AnswerComplete) BY NothingLeftOut
<1> QED BY <1>1, SearchInvariant, CompleteInvariant, PTL

\* Whatever the limits and the timetable, also with loops, the label budget and
\* the k_node cap: what is returned is worth showing, in rank order, and no
\* itinerary twice ("It truncates the output list and never reorders it").
THEOREM AnswersAreShown == Spec => []AnswerOrdered
<1>1. SearchInv /\ CompleteInv /\ AnswerInOrder => AnswerOrdered
  <2> SUFFICES ASSUME SearchInv, CompleteInv, AnswerInOrder PROVE AnswerOrdered OBVIOUS
  <2>1. DOMAIN answer = 1..Len(answer) BY DEF SearchInv
  <2> QED BY <2>1 DEF AnswerOrdered, CompleteInv, Worthy, Shown
<1> QED BY <1>1, SearchInvariant, CompleteInvariant, AnswersInRankOrder, PTL

\* The answer is the best of every itinerary up to where it ends.
LEMMA PrefixOfRanking ==
  ASSUME SearchInv, CompleteInv, AnswerInv, LoopFree(tt) PROVE AnswerIsPrefix
<1> DEFINE best == BestOfSignature(tt, Shown)
<1> SUFFICES ASSUME phase = "done", KNode = 0
             PROVE  /\ \A i \in DOMAIN answer : answer[i] \in best
                    /\ answer # <<>> =>
                         \A J \in best : Seen(J) \/ ~Before(Rank(tt, J), Rank(tt, answer[Len(answer)]))
  BY DEF AnswerIsPrefix, Shown
<1>1. answer \in Seq(Seq(Rides)) /\ DOMAIN answer = 1..Len(answer) /\ Len(answer) \in Nat BY DEF SearchInv
<1>2. ASSUME NEW n \in 1..Len(answer), NEW J \in Shown, Before(Rank(tt, J), Rank(tt, answer[n]))
      PROVE  \E m \in 1..n - 1 : Signature(tt, answer[m]) = Signature(tt, J)
  BY <1>2 DEF CompleteInv, Ranked
<1>3. ASSUME NEW i \in 1..Len(answer) PROVE answer[i] \in best
  <2>1. answer[i] \in Shown BY DEF CompleteInv, Worthy
  <2>2. ASSUME NEW J \in Shown, Signature(tt, J) = Signature(tt, answer[i])
        PROVE  ~Before(Rank(tt, J), Rank(tt, answer[i]))
    <3> SUFFICES ASSUME Before(Rank(tt, J), Rank(tt, answer[i])) PROVE FALSE OBVIOUS
    <3>1. PICK m \in 1..i - 1 : Signature(tt, answer[m]) = Signature(tt, J) BY <1>2
    <3>2. m \in 1..Len(answer) /\ m < i BY <1>1
    <3>3. Signature(tt, answer[m]) # Signature(tt, answer[i]) BY <1>1, <3>2 DEF AnswerInv, Distinct
    <3> QED BY <2>2, <3>1, <3>3
  <2> QED BY <2>1, <2>2 DEF BestOfSignature
<1>4. ASSUME answer # <<>>, NEW J \in best
      PROVE  Seen(J) \/ ~Before(Rank(tt, J), Rank(tt, answer[Len(answer)]))
  <2>1. Len(answer) \in 1..Len(answer) BY <1>1, <1>4
  <2>2. J \in Shown BY DEF BestOfSignature
  <2>3. ASSUME Before(Rank(tt, J), Rank(tt, answer[Len(answer)])) PROVE Seen(J)
    <3>1. PICK m \in 1..Len(answer) - 1 : Signature(tt, answer[m]) = Signature(tt, J)
      BY <1>2, <2>1, <2>2, <2>3
    <3>2. m \in 1..Len(answer) BY <1>1
    <3> QED BY <1>1, <3>1, <3>2 DEF Seen
  <2> QED BY <2>3
<1> QED BY <1>1, <1>3, <1>4

\* The answer is a prefix of the ranking, also when the label budget ends the
\* search early: each journey is the best of its itinerary, and none is left out
\* that ranks before the last one.
THEOREM AnswersAreTheBest == Spec => [](LoopFree(tt) => AnswerSound)
<1>1. SearchInv /\ CompleteInv /\ AnswerInv => (LoopFree(tt) => AnswerIsPrefix) BY PrefixOfRanking
<1>2. (LoopFree(tt) => AnswerIsPrefix) /\ AnswerOrdered => (LoopFree(tt) => AnswerSound) BY DEF AnswerSound
<1> QED BY <1>1, <1>2, SearchInvariant, CompleteInvariant, AnswerInvariant, AnswersAreShown, PTL

\* The dominance rules "only remove a journey J when a strictly better valid
\* journey J' is guaranteed to exist" (README.md:348): so it is without loops.
\* The run router_loop shows that it is not with them.
THEOREM PruningIsSound == Spec => [](LoopFree(tt) /\ KNode = 0 => DominanceSound)
<1>1. ASSUME BoundsInv, SearchInv, CompleteInv, LoopFree(tt), KNode = 0 PROVE DominanceSound
  <2> SUFFICES ASSUME phase = "done", ~truncated, Len(answer) < K,
                      NEW J \in AllJourneys(tt, MaxTransfers)
               PROVE  Seen(J) \/ \E L \in AllJourneys(tt, MaxTransfers) : Better(tt, L, J)
    BY DEF DominanceSound
  <2>1. Given BY <1>1 DEF BoundsInv
  <2>2. CASE Pointless(tt, MaxTransfers, J)
    <3>1. Dominated(J) BY <2>1, <2>2, DominatedIsPointless
    <3> QED BY <2>1, <3>1, DominatedIsBeaten
  <2>3. CASE ~Pointless(tt, MaxTransfers, J)
    <3>1. J \in Worthwhile(tt, MaxTransfers) BY <2>3 DEF Worthwhile
    <3>2. AnswerComplete BY <1>1, NothingLeftOut
    <3> QED BY <1>1, <3>1, <3>2 DEF AnswerComplete
  <2> QED BY <2>2, <2>3
<1>2. BoundsInv /\ SearchInv /\ CompleteInv => (LoopFree(tt) /\ KNode = 0 => DominanceSound) BY <1>1
<1> QED BY <1>2, SearchInvariant, CompleteInvariant, PTL
=============================================================================
