----------------------------- MODULE RouterProofs -----------------------------
(***************************************************************************)
(* The route search for any timetable, query and limits.                   *)
(*                                                                         *)
(* The backward scan (router.cpp) leaves bounds that agree with each other *)
(* along a train and over a change: what is known on board at a stop is no *)
(* more than what is known at the next one, than arriving here, and than   *)
(* what the station's profile promises after a change.  Two results rest   *)
(* on that: no valid journey beats the bounds, and every step of the       *)
(* search replaces a label by labels of no smaller keys, so that the       *)
(* search is a BestFirst enumeration whose answer is in rank order.        *)
(***************************************************************************)
EXTENDS Router, TLAPS, FiniteSetTheorems, WellFoundedInduction

-----------------------------------------------------------------------------
(* Numbers and finite sets. *)

\* Induction over the numbers, on the set of those a statement holds of.
LEMMA SetInduction ==
  ASSUME NEW T, T \subseteq Nat, 0 \in T, \A n \in T : n + 1 \in T
  PROVE  T = Nat
<1> DEFINE R == OpToRel(<, Nat)
<1>1. IsWellFoundedOn(R, Nat) BY NatLessThanWellFounded
<1>2. \A x, y \in Nat : <<x, y>> \in R <=> x < y BY DEF OpToRel
<1> HIDE DEF R
<1> SUFFICES ASSUME Nat \ T # {} PROVE FALSE OBVIOUS
<1>3. PICK x \in Nat \ T : \A y \in Nat \ T : ~(<<y, x>> \in R)
  BY <1>1, WFMin
<1>4. x # 0 /\ x - 1 \in Nat /\ x - 1 < x BY <1>3
<1>5. x - 1 \in T BY <1>2, <1>3, <1>4
<1>6. (x - 1) + 1 = x BY <1>3
<1> QED BY <1>3, <1>5, <1>6

\* A set of numbers has a least one.
LEMMA LeastExists ==
  ASSUME NEW S, S \subseteq Nat, S # {}
  PROVE  \E m \in S : \A n \in S : m <= n
<1> DEFINE R == OpToRel(<, Nat)
<1>1. IsWellFoundedOn(R, Nat) BY NatLessThanWellFounded
<1>2. \A x, y \in Nat : <<x, y>> \in R <=> x < y BY DEF OpToRel
<1> HIDE DEF R
<1>3. PICK x \in S : \A y \in S : ~(<<y, x>> \in R) BY <1>1, WFMin
<1>4. x \in Nat /\ \A y \in S : y \in Nat OBVIOUS
<1>5. \A y \in S : ~(y < x) BY <1>2, <1>3, <1>4
<1>6. \A y \in S : x <= y BY <1>4, <1>5
<1> QED BY <1>6

\* Max and Min of the library, of numbers within limits.
LEMMA MaxOf ==
  ASSUME NEW a \in Int, NEW b \in Int, NEW S, S \subseteq a..b, S # {}
  PROVE  Max(S) \in S /\ \A n \in S : n <= Max(S)
<1> DEFINE T == {b - x : x \in S}
<1>1. T \subseteq Nat /\ T # {} OBVIOUS
<1>2. PICK m \in T : \A n \in T : m <= n
  <2> HIDE DEF T
  <2> QED BY <1>1, LeastExists
<1>3. PICK x \in S : m = b - x OBVIOUS
<1>4. \A n \in S : n <= x
  <2> SUFFICES ASSUME NEW n \in S PROVE n <= x OBVIOUS
  <2>1. b - n \in T OBVIOUS
  <2>2. b - x <= b - n BY <1>2, <1>3, <2>1
  <2> QED BY <2>2
<1>5. \E y \in S : \A n \in S : y >= n BY <1>4
<1>6. \A n \in S : n \in Int OBVIOUS
<1> QED BY <1>5, <1>6 DEF Max

LEMMA MinOf ==
  ASSUME NEW a \in Int, NEW b \in Int, NEW S, S \subseteq a..b, S # {}
  PROVE  Min(S) \in S /\ \A n \in S : Min(S) <= n
<1> DEFINE T == {x - a : x \in S}
<1>1. T \subseteq Nat /\ T # {} OBVIOUS
<1>2. PICK m \in T : \A n \in T : m <= n
  <2> HIDE DEF T
  <2> QED BY <1>1, LeastExists
<1>3. PICK x \in S : m = x - a OBVIOUS
<1>4. \A n \in S : x <= n
  <2> SUFFICES ASSUME NEW n \in S PROVE x <= n OBVIOUS
  <2>1. n - a \in T OBVIOUS
  <2>2. x - a <= n - a BY <1>2, <1>3, <2>1
  <2> QED BY <2>2
<1>5. \E y \in S : \A n \in S : y <= n BY <1>4
<1> QED BY <1>5 DEF Min

\* The lesser of two numbers.
LEMMA MinOfTwo ==
  ASSUME NEW x \in Int, NEW y \in Int
  PROVE  Min({x, y}) \in Int /\ Min({x, y}) <= x /\ Min({x, y}) <= y
<1>1. CASE x <= y
  <2>1. {x, y} \subseteq x..y /\ {x, y} # {} BY <1>1
  <2> QED BY <2>1, MinOf
<1>2. CASE y < x
  <2>1. {x, y} \subseteq y..x /\ {x, y} # {} BY <1>2
  <2> QED BY <2>1, MinOf
<1> QED BY <1>1, <1>2

\* The largest value of a function on 1..n, and a floor.
LEMMA LargestValue ==
  ASSUME NEW n \in Nat, NEW f \in [1..n -> Int]
  PROVE  \E M \in Nat : \A t \in 1..n : f[t] <= M /\ -M <= f[t]
<1> DEFINE T == {k \in Nat : k <= n => \E M \in Nat : \A t \in 1..k : f[t] <= M /\ -M <= f[t]}
<1>1. 0 \in T OBVIOUS
<1>2. ASSUME NEW k \in T PROVE k + 1 \in T
  <2> SUFFICES ASSUME k + 1 <= n
               PROVE  \E M \in Nat : \A t \in 1..k + 1 : f[t] <= M /\ -M <= f[t]
    OBVIOUS
  <2>1. k \in Nat /\ k <= n OBVIOUS
  <2>2. PICK M \in Nat : \A t \in 1..k : f[t] <= M /\ -M <= f[t] BY <2>1
  <2>3. f[k + 1] \in Int BY <2>1
  <2>4. \E M2 \in Nat : M2 >= M /\ f[k + 1] <= M2 /\ -M2 <= f[k + 1]
    <3>1. CASE f[k + 1] <= M /\ -M <= f[k + 1] BY <3>1
    <3>2. CASE f[k + 1] > M BY <2>3, <3>2
    <3>3. CASE f[k + 1] < -M
      <4>1. -f[k + 1] \in Nat BY <2>3, <3>3
      <4> QED BY <2>3, <3>3, <4>1
    <3> QED BY <2>3, <3>1, <3>2, <3>3
  <2>5. PICK M2 \in Nat : M2 >= M /\ f[k + 1] <= M2 /\ -M2 <= f[k + 1] BY <2>4
  <2>6. ASSUME NEW t \in 1..k + 1 PROVE f[t] <= M2 /\ -M2 <= f[t]
    <3>1. CASE t = k + 1 BY <2>5, <3>1
    <3>2. CASE t # k + 1
      <4>1. t \in 1..k BY <2>1, <3>2
      <4>2. f[t] \in Int BY <2>1, <4>1
      <4> QED BY <2>2, <2>5, <4>1, <4>2
    <3> QED BY <3>1, <3>2
  <2> QED BY <2>6
<1>3. T = Nat
  <2>1. T \subseteq Nat OBVIOUS
  <2> HIDE DEF T
  <2> QED BY <1>1, <1>2, <2>1, SetInduction
<1>4. n \in T BY <1>3
<1> QED BY <1>4

\* A function given by its first value and its steps exists, on 1..m.
Recursion(f, a, E, m) == \A n \in 1..m : f[n] = IF n = 1 THEN a ELSE E[n][f[n - 1]]

LEMMA RecursionExists ==
  ASSUME NEW S, NEW a \in S, NEW E \in [Nat -> [S -> S]], NEW m \in Nat
  PROVE  \E f \in [1..m -> S] : Recursion(f, a, E, m)
<1> DEFINE Good(k, f) == \A n \in 1..k : f[n] = IF n = 1 THEN a ELSE E[n][f[n - 1]]
           T == {k \in Nat : \E f \in [1..k -> S] : Good(k, f)}
<1>1. 0 \in T
  <2>1. [n \in 1..0 |-> a] \in [1..0 -> S] /\ Good(0, [n \in 1..0 |-> a]) OBVIOUS
  <2> QED BY <2>1
<1>2. ASSUME NEW k \in T PROVE k + 1 \in T
  <2>1. k \in Nat OBVIOUS
  <2>2. PICK f \in [1..k -> S] : Good(k, f) OBVIOUS
  <2> DEFINE e == IF k = 0 THEN a ELSE E[k + 1][f[k]]
             g == [n \in 1..k + 1 |-> IF n = k + 1 THEN e ELSE f[n]]
  <2>3. e \in S
    <3>1. CASE k = 0 BY <3>1
    <3>2. CASE k # 0
      <4>1. f[k] \in S /\ k + 1 \in Nat BY <2>1, <2>2, <3>2
      <4>2. E[k + 1][f[k]] \in S BY <4>1
      <4> QED BY <3>2, <4>2
    <3> QED BY <3>1, <3>2
  <2>4. g \in [1..k + 1 -> S] BY <2>1, <2>2, <2>3
  <2>5. ASSUME NEW n \in 1..k + 1 PROVE g[n] = IF n = 1 THEN a ELSE E[n][g[n - 1]]
    <3>1. CASE n = k + 1
      <4>1. g[n] = e BY <3>1
      <4>2. CASE k = 0 BY <3>1, <4>1, <4>2
      <4>3. CASE k # 0
        <5>1. g[n - 1] = f[k] /\ n # 1 BY <2>1, <3>1, <4>3
        <5> QED BY <3>1, <4>1, <4>3, <5>1
      <4> QED BY <4>2, <4>3
    <3>2. CASE n # k + 1
      <4>1. n \in 1..k /\ g[n] = f[n] BY <2>1, <3>2
      <4>2. n # 1 => g[n - 1] = f[n - 1] BY <2>1, <4>1
      <4>3. f[n] = IF n = 1 THEN a ELSE E[n][f[n - 1]] BY <2>2, <4>1
      <4> QED BY <4>1, <4>2, <4>3
    <3> QED BY <3>1, <3>2
  <2>6. Good(k + 1, g) BY <2>5
  <2> HIDE DEF g, Good
  <2> QED BY <2>1, <2>4, <2>6
<1>3. T = Nat
  <2>1. T \subseteq Nat OBVIOUS
  <2> HIDE DEF T
  <2> QED BY <1>1, <1>2, <2>1, SetInduction
<1>4. \E f \in [1..m -> S] : Good(m, f)
  <2>1. m \in T BY <1>3
  <2> QED BY <2>1
<1> QED BY <1>4 DEF Recursion

-----------------------------------------------------------------------------
(* Timetables. *)

\* The times of a train: each stop has those it must have, in order.
LEMMA TrainTimes ==
  ASSUME NEW tab \in Timetables, NEW t \in 1..Len(tab)
  PROVE  /\ Len(tab[t].stops) \in Nat /\ Len(tab[t].stops) >= 2
         /\ \A k \in 1..Len(tab[t].stops) : StationAt(tab[t], k) \in Stations \cup {NoStation}
         /\ \A k \in 1..Len(tab[t].stops) - 1 :
              /\ tab[t].stops[k].dep \in Nat /\ tab[t].stops[k + 1].arr \in Nat
              /\ tab[t].stops[k].dep <= tab[t].stops[k + 1].arr
         /\ \A j, k \in 1..Len(tab[t].stops) - 1 : j <= k => tab[t].stops[j].dep <= tab[t].stops[k].dep
         /\ \A j, k \in 2..Len(tab[t].stops) : j <= k => tab[t].stops[j].arr <= tab[t].stops[k].arr
<1> DEFINE train == tab[t]
           s == train.stops
           n == Len(s)
<1>1. tab \in Seq(TrainRecords) /\ Finalized(tab) /\ \A u \in 1..Len(tab) : Timed(tab[u])
  BY RouterAssumption
<1>2. train \in TrainRecords BY <1>1
<1>3. Accepted(train) /\ Timed(train) BY <1>1 DEF Finalized
<1>4. s \in Seq(StopRecords) /\ n \in Nat BY <1>2 DEF TrainRecords
<1>5. \A k \in 1..n : /\ s[k].station \in Stations \cup {NoStation}
                      /\ s[k].arr \in Nat \cup {NoTime} /\ s[k].dep \in Nat \cup {NoTime}
  <2>1. \A k \in 1..n : s[k] \in StopRecords BY <1>4
  <2> QED BY <2>1 DEF StopRecords
<1> DEFINE T == Times(train)
<1>6. /\ n >= 2
      /\ \A i \in 1..2 * n : T[i] # NoTime => \A j \in 1..i : T[j] # NoTime => T[j] <= T[i]
      /\ \A k \in 1..n - 1 : s[k].dep # NoTime
  BY <1>3 DEF Accepted
<1>7. \A k \in 1..n : 2 * k \in 1..2 * n /\ T[2 * k] = s[k].dep
  <2> SUFFICES ASSUME NEW k \in 1..n PROVE 2 * k \in 1..2 * n /\ T[2 * k] = s[k].dep OBVIOUS
  <2>1. 2 * k \in 1..2 * n /\ (2 * k) % 2 = 0 /\ (2 * k) \div 2 = k BY <1>4
  <2> QED BY <2>1 DEF Times
<1>8. \A k \in 1..n : 2 * k - 1 \in 1..2 * n /\ T[2 * k - 1] = s[k].arr
  <2> SUFFICES ASSUME NEW k \in 1..n PROVE 2 * k - 1 \in 1..2 * n /\ T[2 * k - 1] = s[k].arr OBVIOUS
  <2>1. 2 * k - 1 \in 1..2 * n /\ (2 * k - 1) % 2 = 1 /\ ((2 * k - 1) + 1) \div 2 = k BY <1>4
  <2> QED BY <2>1 DEF Times
<1>9. \A k \in 2..n : s[k].arr # NoTime BY <1>3 DEF Timed
<1> HIDE DEF T, n, s, train
<1>10. \A k \in 1..n - 1 : s[k].dep \in Nat BY <1>4, <1>5, <1>6
<1>11. \A k \in 2..n : s[k].arr \in Nat BY <1>4, <1>5, <1>9
<1>12. \A k \in 1..n - 1 : s[k + 1].arr \in Nat /\ s[k].dep <= s[k + 1].arr
  <2> SUFFICES ASSUME NEW k \in 1..n - 1 PROVE s[k + 1].arr \in Nat /\ s[k].dep <= s[k + 1].arr OBVIOUS
  <2>1. k \in 1..n /\ k + 1 \in 1..n /\ k + 1 \in 2..n BY <1>4
  <2>2. 2 * k \in 1..2 * (k + 1) - 1 BY <1>4
  <2>3. T[2 * k] = s[k].dep /\ T[2 * (k + 1) - 1] = s[k + 1].arr /\ 2 * (k + 1) - 1 \in 1..2 * n
    BY <1>7, <1>8, <2>1
  <2>4. s[k].dep # NoTime /\ s[k + 1].arr # NoTime BY <1>6, <1>9, <2>1
  <2> QED BY <1>6, <1>11, <2>1, <2>2, <2>3, <2>4
<1>13. \A j, k \in 1..n - 1 : j <= k => s[j].dep <= s[k].dep
  <2> SUFFICES ASSUME NEW j \in 1..n - 1, NEW k \in 1..n - 1, j <= k PROVE s[j].dep <= s[k].dep OBVIOUS
  <2>1. j \in 1..n /\ k \in 1..n /\ 2 * j \in 1..2 * k BY <1>4
  <2>2. T[2 * j] = s[j].dep /\ T[2 * k] = s[k].dep /\ 2 * k \in 1..2 * n BY <1>7, <2>1
  <2>3. s[j].dep # NoTime /\ s[k].dep # NoTime BY <1>6
  <2> QED BY <1>6, <2>1, <2>2, <2>3
<1>14. \A j, k \in 2..n : j <= k => s[j].arr <= s[k].arr
  <2> SUFFICES ASSUME NEW j \in 2..n, NEW k \in 2..n, j <= k PROVE s[j].arr <= s[k].arr OBVIOUS
  <2>1. j \in 1..n /\ k \in 1..n /\ 2 * j - 1 \in 1..2 * k - 1 BY <1>4
  <2>2. T[2 * j - 1] = s[j].arr /\ T[2 * k - 1] = s[k].arr /\ 2 * k - 1 \in 1..2 * n BY <1>8, <2>1
  <2>3. s[j].arr # NoTime /\ s[k].arr # NoTime BY <1>9
  <2> QED BY <1>6, <2>1, <2>2, <2>3
<1>15. \A k \in 1..n : StationAt(train, k) \in Stations \cup {NoStation} BY <1>5 DEF StationAt, s
<1> QED BY <1>4, <1>6, <1>10, <1>12, <1>13, <1>14, <1>15 DEF s, n, train

\* The numbers of stops and of days are numbers.
LEMMA MaxStopsType ==
  ASSUME NEW tab \in Timetables
  PROVE  MaxStops(tab) \in Nat /\ \A t \in 1..Len(tab) : Len(tab[t].stops) <= MaxStops(tab)
<1> DEFINE f == [t \in 1..Len(tab) |-> Len(tab[t].stops)]
           S == {Len(tab[t].stops) : t \in 1..Len(tab)}
<1>1. tab \in Seq(TrainRecords) /\ tab # <<>> BY RouterAssumption
<1>2. Len(tab) \in Nat /\ Len(tab) # 0 BY <1>1
<1>3. \A t \in 1..Len(tab) : Len(tab[t].stops) \in Nat BY TrainTimes
<1>4. f \in [1..Len(tab) -> Int] BY <1>3
<1>5. PICK M \in Nat : \A t \in 1..Len(tab) : f[t] <= M /\ -M <= f[t] BY <1>2, <1>4, LargestValue
<1>6. S \subseteq 0..M BY <1>3, <1>5
<1>7. S # {}
  <2>1. 1 \in 1..Len(tab) BY <1>2
  <2>2. Len(tab[1].stops) \in S BY <2>1
  <2> QED BY <2>2
<1>8. \A t \in 1..Len(tab) : Len(tab[t].stops) \in S OBVIOUS
<1>9. MaxStops(tab) = Max(S) BY DEF MaxStops
<1>10. Max(S) \in S /\ \A n \in S : n <= Max(S)
  <2>1. 0 \in Int /\ M \in Int OBVIOUS
  <2> HIDE DEF S
  <2> QED BY <1>6, <1>7, <2>1, MaxOf
<1>11. Max(S) \in Nat
  <2>1. 0..M \subseteq Nat OBVIOUS
  <2> HIDE DEF S
  <2> QED BY <1>6, <1>10, <2>1
<1> HIDE DEF S
<1> QED BY <1>8, <1>9, <1>10, <1>11

LEMMA MaxSpanType ==
  ASSUME NEW tab \in Timetables PROVE MaxSpanDays(tab) \in Int
<1> DEFINE span(t) == LastStop(tab[t]).arr \div Day + 1
           f == [t \in 1..Len(tab) |-> span(t)]
           S == {1} \union {span(t) : t \in 1..Len(tab)}
<1>1. tab \in Seq(TrainRecords) BY RouterAssumption
<1>2. Len(tab) \in Nat BY <1>1
<1>3. \A t \in 1..Len(tab) : span(t) \in Int
  <2> SUFFICES ASSUME NEW t \in 1..Len(tab) PROVE span(t) \in Int OBVIOUS
  <2> DEFINE n == Len(tab[t].stops)
  <2>1. n - 1 \in 1..n - 1 /\ (n - 1) + 1 = n BY TrainTimes
  <2>2. tab[t].stops[(n - 1) + 1].arr \in Nat BY <2>1, TrainTimes
  <2>3. LastStop(tab[t]).arr \in Nat BY <2>1, <2>2 DEF LastStop
  <2>4. Day \in Nat /\ Day > 0 BY TimetableAssumption
  <2> QED BY <2>3, <2>4
<1> HIDE DEF span
<1>4. f \in [1..Len(tab) -> Int] BY <1>3
<1>5. PICK M \in Nat : \A t \in 1..Len(tab) : f[t] <= M /\ -M <= f[t] BY <1>2, <1>4, LargestValue
<1>6. S \subseteq -M..M + 1 BY <1>3, <1>5
<1>7. Max(S) \in S
  <2>1. S # {} /\ -M \in Int /\ M + 1 \in Int OBVIOUS
  <2> HIDE DEF S
  <2> QED BY <1>6, <2>1, MaxOf
<1> QED BY <1>6, <1>7 DEF MaxSpanDays, span

\* An instance is a train and a day; its times are those of the train, moved.
LEMMA InstanceFacts ==
  ASSUME NEW tab \in Timetables, NEW i \in Instances(tab, Weekday, Horizon)
  PROVE  /\ i = <<i[1], i[2]>> /\ i[1] \in 1..Len(tab) /\ i[2] \in Int
         /\ Len(tab[i[1]].stops) \in Nat /\ Len(tab[i[1]].stops) >= 2
         /\ \A k \in 1..Len(tab[i[1]].stops) : StationAt(tab[i[1]], k) \in Stations \cup {NoStation}
         /\ \A k \in 1..Len(tab[i[1]].stops) - 1 :
              /\ Dep(tab, i, k) \in Int /\ Arr(tab, i, k + 1) \in Int
              /\ Dep(tab, i, k) <= Arr(tab, i, k + 1)
         /\ \A j, k \in 1..Len(tab[i[1]].stops) - 1 : j <= k => Dep(tab, i, j) <= Dep(tab, i, k)
         /\ \A j, k \in 2..Len(tab[i[1]].stops) : j <= k => Arr(tab, i, j) <= Arr(tab, i, k)
<1> DEFINE n == Len(tab[i[1]].stops)
           s == tab[i[1]].stops
           base == i[2] * Day
<1>1. MaxSpanDays(tab) \in Int BY MaxSpanType
<1>2. Day \in Nat /\ Horizon \in Nat /\ Day > 0 BY TimetableAssumption, QueryAssumption
<1>3. (Day - 1 + Horizon) \div Day \in Int BY <1>2
<1>4. i \in (1..Len(tab)) \X ((-MaxSpanDays(tab))..((Day - 1 + Horizon) \div Day)) BY DEF Instances
<1>5. i = <<i[1], i[2]>> /\ i[1] \in 1..Len(tab) BY <1>4
<1>6. i[2] \in Int BY <1>1, <1>3, <1>4
<1>7. base \in Int BY <1>2, <1>6
<1>8. \A k : Dep(tab, i, k) = base + s[k].dep /\ Arr(tab, i, k) = base + s[k].arr BY DEF Dep, Arr
<1>9. /\ n \in Nat /\ n >= 2
      /\ \A k \in 1..n : StationAt(tab[i[1]], k) \in Stations \cup {NoStation}
      /\ \A k \in 1..n - 1 : s[k].dep \in Nat /\ s[k + 1].arr \in Nat /\ s[k].dep <= s[k + 1].arr
      /\ \A j, k \in 1..n - 1 : j <= k => s[j].dep <= s[k].dep
      /\ \A j, k \in 2..n : j <= k => s[j].arr <= s[k].arr
  BY <1>5, TrainTimes
<1> HIDE DEF base, n, s
<1>10. \A k \in 2..n : s[k].arr \in Nat
  <2> SUFFICES ASSUME NEW k \in 2..n PROVE s[k].arr \in Nat OBVIOUS
  <2>1. k - 1 \in 1..n - 1 /\ (k - 1) + 1 = k BY <1>9
  <2>2. s[(k - 1) + 1].arr \in Nat BY <1>9, <2>1
  <2> QED BY <2>1, <2>2
<1>11. \A k \in 1..n - 1 :
         /\ Dep(tab, i, k) \in Int /\ Arr(tab, i, k + 1) \in Int
         /\ Dep(tab, i, k) <= Arr(tab, i, k + 1)
  BY <1>7, <1>8, <1>9
<1>12. \A j, k \in 1..n - 1 : j <= k => Dep(tab, i, j) <= Dep(tab, i, k)
  BY <1>7, <1>8, <1>9
<1>13. \A j, k \in 2..n : j <= k => Arr(tab, i, j) <= Arr(tab, i, k)
  BY <1>7, <1>8, <1>9, <1>10
<1> QED BY <1>5, <1>6, <1>9, <1>11, <1>12, <1>13 DEF n

\* A connection leaves a stop that is not the last, on or after the query date.
LEMMA ConnectionFacts ==
  ASSUME NEW tab \in Timetables, NEW c \in Connections(tab, Weekday, Horizon)
  PROVE  /\ c = <<c[1], c[2]>> /\ c[1] \in Instances(tab, Weekday, Horizon)
         /\ c[2] \in 1..Len(tab[c[1][1]].stops) - 1
         /\ Dep(tab, c[1], c[2]) \in Nat /\ Arr(tab, c[1], c[2] + 1) \in Nat
         /\ Dep(tab, c[1], c[2]) <= Arr(tab, c[1], c[2] + 1)
<1>1. PICK i \in Instances(tab, Weekday, Horizon) : c \in {i} \X (1..Len(tab[i[1]].stops) - 1)
  BY DEF Connections
<1>2. c = <<c[1], c[2]>> /\ c[1] = i /\ c[2] \in 1..Len(tab[i[1]].stops) - 1 BY <1>1
<1>3. Dep(tab, c[1], c[2]) >= 0 BY DEF Connections
<1>4. /\ Dep(tab, i, c[2]) \in Int /\ Arr(tab, i, c[2] + 1) \in Int
      /\ Dep(tab, i, c[2]) <= Arr(tab, i, c[2] + 1)
  BY <1>2, InstanceFacts
<1> QED BY <1>2, <1>3, <1>4

\* The stops after the first departure of an instance on the query date all end
\* a connection, but the first.
LEMMA NextIsConnection ==
  ASSUME NEW tab \in Timetables, NEW i \in Instances(tab, Weekday, Horizon),
         NEW j \in 1..Len(tab[i[1]].stops) - 1, NEW k \in 1..Len(tab[i[1]].stops) - 1, j <= k,
         Dep(tab, i, j) >= 0
  PROVE  <<i, k>> \in Connections(tab, Weekday, Horizon)
<1>1. /\ Dep(tab, i, j) \in Int /\ Dep(tab, i, k) \in Int
      /\ Dep(tab, i, j) <= Dep(tab, i, k)
  BY InstanceFacts
<1>2. Dep(tab, i, k) >= 0 BY <1>1
<1>3. <<i, k>> \in {i} \X (1..Len(tab[i[1]].stops) - 1) OBVIOUS
<1>4. <<i, k>>[1] = i /\ <<i, k>>[2] = k OBVIOUS
<1> QED BY <1>2, <1>3, <1>4 DEF Connections

-----------------------------------------------------------------------------
(* Bounds and profiles. *)

Bounds == (0..Inf) \X (0..TrMask)
AtMost(a, b) == a[1] < b[1] \/ (a[1] = b[1] /\ a[2] <= b[2])

\* (Zenon writes numbers in unary: the value of Inf is only for SMT.)
LEMMA Sizes == Inf \in Nat /\ Inf > 0 /\ TrMask = 255
BY SMT DEF Inf, TrMask

LEMMA LexInfType == LexInf \in Bounds /\ \A b \in Bounds : AtMost(b, LexInf)
BY Sizes DEF LexInf, Bounds, AtMost

\* Before is the strict order of bounds.
LEMMA BeforeIsLess ==
  ASSUME NEW a \in Int \X Int, NEW b \in Int \X Int
  PROVE  Before(a, b) <=> ~AtMost(b, a)
<1>1. DOMAIN a = {1, 2}
  <2>1. a = <<a[1], a[2]>> OBVIOUS
  <2> QED BY <2>1
<1>2. a[1] \in Int /\ a[2] \in Int /\ b[1] \in Int /\ b[2] \in Int OBVIOUS
<1>3. Before(a, b) <=> a[1] < b[1] \/ (a[2] < b[2] /\ a[1] = b[1])
  <2>1. \A i \in {1} : i \in Int OBVIOUS
  <2>2. (\A j \in 1..1 - 1 : a[j] = b[j]) /\ ((\A j \in 1..2 - 1 : a[j] = b[j]) <=> a[1] = b[1])
    OBVIOUS
  <2> QED BY <1>1, <2>2 DEF Before
<1> QED BY <1>2, <1>3 DEF AtMost

LEMMA AtMostOrder ==
  ASSUME NEW a \in Int \X Int, NEW b \in Int \X Int, NEW c \in Int \X Int
  PROVE  /\ AtMost(a, a)
         /\ AtMost(a, b) /\ AtMost(b, c) => AtMost(a, c)
         /\ AtMost(a, b) \/ AtMost(b, a)
BY DEF AtMost

LEMMA BoundsArePairs == Bounds \subseteq Int \X Int
BY DEF Bounds

LEMMA LesserIsLess ==
  ASSUME NEW a \in Bounds, NEW b \in Bounds
  PROVE  Lesser(a, b) \in Bounds /\ AtMost(Lesser(a, b), a) /\ AtMost(Lesser(a, b), b)
<1>1. a \in Int \X Int /\ b \in Int \X Int BY BoundsArePairs
<1>2. Before(b, a) <=> ~AtMost(a, b) BY <1>1, BeforeIsLess
<1>3. AtMost(a, a) /\ AtMost(b, b) /\ (AtMost(a, b) \/ AtMost(b, a)) BY <1>1, AtMostOrder
<1> QED BY <1>2, <1>3 DEF Lesser

\* One transfer more, unless the count is full.
LEMMA PlusIsMore ==
  ASSUME NEW b \in Bounds
  PROVE  /\ PlusTransfer(b) \in Bounds
         /\ AtMost(PlusTransfer(b), <<b[1], b[2] + 1>>)
         /\ \A x \in Int \X Int : AtMost(b, x) => AtMost(PlusTransfer(b), <<x[1], x[2] + 1>>)
<1>1. b = <<b[1], b[2]>> /\ b[1] \in 0..Inf /\ b[2] \in 0..TrMask BY DEF Bounds
<1>2. Inf \in Nat /\ TrMask \in Nat BY Sizes
<1>3. CASE b[2] = TrMask
  <2>1. PlusTransfer(b) = b BY <1>3 DEF PlusTransfer
  <2> QED BY <1>1, <1>2, <2>1 DEF AtMost
<1>4. CASE b[2] # TrMask
  <2>1. PlusTransfer(b) = <<b[1], b[2] + 1>> BY <1>4 DEF PlusTransfer, LexInf
  <2>2. b[2] + 1 \in 0..TrMask BY <1>1, <1>2, <1>4
  <2> QED BY <1>1, <1>2, <2>1, <2>2 DEF AtMost, Bounds
<1> QED BY <1>3, <1>4

\* A profile: (departure, bound), the last departure the earliest.
Profiles == Seq(Nat \X Bounds)

LEMMA EvalType ==
  ASSUME NEW p \in Profiles, NEW t \in Int
  PROVE  ProfileEval(p, t) \in Bounds
<1> DEFINE later == {i \in DOMAIN p : p[i][1] >= t}
<1>1. Len(p) \in Nat /\ DOMAIN p = 1..Len(p) /\ \A i \in 1..Len(p) : p[i] \in Nat \X Bounds
  BY DEF Profiles
<1>2. CASE later = {} BY <1>2, LexInfType DEF ProfileEval
<1>3. CASE later # {}
  <2>1. later \subseteq 1..Len(p) /\ 1 \in Int /\ Len(p) \in Int BY <1>1
  <2>2. Max(later) \in later
    <3> HIDE DEF later
    <3> QED BY <1>3, <2>1, MaxOf
  <2>3. p[Max(later)] \in Nat \X Bounds BY <1>1, <2>2
  <2>4. ProfileEval(p, t) = p[Max(later)][2] BY <1>3 DEF ProfileEval
  <2> QED BY <2>3, <2>4
<1> QED BY <1>2, <1>3

\* Early enough for the last entry, it is the last entry.
LEMMA EvalLast ==
  ASSUME NEW p \in Profiles, NEW t \in Int, p # <<>>, p[Len(p)][1] >= t
  PROVE  ProfileEval(p, t) = p[Len(p)][2]
<1> DEFINE later == {i \in DOMAIN p : p[i][1] >= t}
<1>1. Len(p) \in Nat /\ DOMAIN p = 1..Len(p) /\ Len(p) \in 1..Len(p) BY DEF Profiles
<1>2. Len(p) \in later /\ later \subseteq 1..Len(p) BY <1>1
<1>3. Max(later) \in later /\ \A n \in later : n <= Max(later)
  <2>1. later # {} /\ 1 \in Int /\ Len(p) \in Int BY <1>1, <1>2
  <2> HIDE DEF later
  <2> QED BY <1>2, <2>1, MaxOf
<1>4. Max(later) \in 1..Len(p) /\ Len(p) <= Max(later)
  <2> HIDE DEF later
  <2> QED BY <1>2, <1>3
<1>5. Max(later) = Len(p) BY <1>1, <1>4
<1>6. ProfileEval(p, t) = p[Max(later)][2] BY <1>2 DEF ProfileEval
<1> QED BY <1>5, <1>6

\* An entry that leaves before t changes nothing at t.
LEMMA EvalKept ==
  ASSUME NEW p \in Profiles, NEW t \in Int, NEW d \in Nat, NEW b \in Bounds, d < t
  PROVE  ProfileEval(Append(p, <<d, b>>), t) = ProfileEval(p, t)
<1> DEFINE q == Append(p, <<d, b>>)
           laterP == {i \in DOMAIN p : p[i][1] >= t}
           laterQ == {i \in DOMAIN q : q[i][1] >= t}
<1>1. Len(p) \in Nat /\ DOMAIN p = 1..Len(p) BY DEF Profiles
<1>2. /\ DOMAIN q = 1..Len(p) + 1 /\ q[Len(p) + 1] = <<d, b>>
      /\ \A i \in 1..Len(p) : q[i] = p[i]
  BY <1>1 DEF Profiles
<1>3. laterQ = laterP
  <2>1. ASSUME NEW i \in laterQ PROVE i \in laterP
    <3>1. i # Len(p) + 1 BY <1>2
    <3>2. i \in 1..Len(p) /\ q[i] = p[i] BY <1>1, <1>2, <3>1
    <3> QED BY <1>1, <3>2
  <2>2. ASSUME NEW i \in laterP PROVE i \in laterQ
    <3>1. i \in 1..Len(p) /\ i \in 1..Len(p) + 1 BY <1>1
    <3> QED BY <1>2, <3>1
  <2> QED BY <2>1, <2>2
<1>4. CASE laterP = {} BY <1>3, <1>4 DEF ProfileEval
<1>5. CASE laterP # {}
  <2>1. laterP \subseteq 1..Len(p) /\ 1 \in Int /\ Len(p) \in Int BY <1>1
  <2>2. Max(laterP) \in laterP
    <3> HIDE DEF laterP
    <3> QED BY <1>5, <2>1, MaxOf
  <2>3. q[Max(laterP)] = p[Max(laterP)] BY <1>1, <1>2, <2>2
  <2>4. ProfileEval(p, t) = p[Max(laterP)][2] /\ ProfileEval(q, t) = q[Max(laterQ)][2]
    BY <1>3, <1>5 DEF ProfileEval
  <2> QED BY <1>3, <2>3, <2>4
<1> QED BY <1>4, <1>5

\* No departure is left.
LEMMA EvalEmpty == \A t : ProfileEval(<<>>, t) = LexInf
BY DEF ProfileEval

-----------------------------------------------------------------------------
(* The scan. *)

Insts == Instances(tt, Weekday, Horizon)
Train(i) == tt[i[1]]
Stops(i) == Len(Train(i).stops)
DepAt(c) == Dep(tt, c[1], c[2])
ArrAt(c) == Arr(tt, c[1], c[2] + 1)
FromOf(c) == StationAt(Train(c[1]), c[2])
ToOf(c) == StationAt(Train(c[1]), c[2] + 1)
Val(c) == val[<<c[1], c[2] + 1>>]

Given ==
  /\ tt \in Timetables /\ limits \in Limits
  /\ conns = Connections(tt, Weekday, Horizon) /\ todo \subseteq conns
  /\ phase \in {"scan", "search", "done"}
BoundTypes ==
  /\ val \in [StopsOf(Insts) -> Bounds] /\ tripBest \in [Insts -> Bounds]
  /\ profile \in [Stations -> Profiles]

\* A connection that the scan has given a bound.
Done(c) == c \notin todo /\ ArrAt(c) <= Latest

\* Its bound is no more than that of staying on board, of arriving here and of
\* changing here, and no less than what its station's profile promises.
Consistent(c) ==
  /\ c[2] + 2 <= Stops(c[1]) => AtMost(Val(c), val[<<c[1], c[2] + 2>>])
  /\ ToOf(c) = Destination => AtMost(Val(c), <<ArrAt(c), 0>>)
  /\ ToOf(c) \in Stations \ {Destination} =>
       AtMost(Val(c), PlusTransfer(ProfileEval(profile[ToOf(c)], ArrAt(c) + TR)))
  /\ FromOf(c) \in Stations =>
       \A t \in Int : t <= DepAt(c) => AtMost(ProfileEval(profile[FromOf(c)], t), Val(c))

ScanInv ==
  /\ \A c \in conns \ todo, d \in todo : ScannedBefore(tt, c, d)
  /\ \A c \in conns : Val(c) # LexInf => Done(c)
  /\ \A s \in StopsOf(Insts) : AtMost(tripBest[s[1]], val[s])
  /\ \A st \in Stations : \A i \in 1..Len(profile[st]), d \in todo : profile[st][i][1] >= DepAt(d)
  /\ \A c \in conns : Done(c) => Consistent(c)

LEMMA ConnFacts ==
  ASSUME Given, NEW c \in conns
  PROVE  /\ c = <<c[1], c[2]>> /\ c[1] \in Insts /\ c[2] \in 1..Stops(c[1]) - 1
         /\ Stops(c[1]) \in Nat /\ Stops(c[1]) >= 2
         /\ DepAt(c) \in Nat /\ ArrAt(c) \in Nat /\ DepAt(c) <= ArrAt(c)
         /\ FromOf(c) \in Stations \cup {NoStation} /\ ToOf(c) \in Stations \cup {NoStation}
         /\ <<c[1], c[2] + 1>> \in StopsOf(Insts)
         /\ c[2] + 2 <= Stops(c[1]) => <<c[1], c[2] + 2>> \in StopsOf(Insts)
<1>1. tt \in Timetables /\ c \in Connections(tt, Weekday, Horizon) BY DEF Given
<1>2. /\ c = <<c[1], c[2]>> /\ c[1] \in Insts /\ c[2] \in 1..Stops(c[1]) - 1
      /\ DepAt(c) \in Nat /\ ArrAt(c) \in Nat /\ DepAt(c) <= ArrAt(c)
  BY <1>1, ConnectionFacts DEF Insts, Stops, Train, DepAt, ArrAt
<1>3. /\ Stops(c[1]) \in Nat /\ Stops(c[1]) >= 2
      /\ \A k \in 1..Stops(c[1]) : StationAt(Train(c[1]), k) \in Stations \cup {NoStation}
  BY <1>1, <1>2, InstanceFacts DEF Insts, Stops, Train
<1>4. c[2] \in 1..Stops(c[1]) /\ c[2] + 1 \in 1..Stops(c[1]) BY <1>2, <1>3
<1>5. FromOf(c) \in Stations \cup {NoStation} /\ ToOf(c) \in Stations \cup {NoStation}
  BY <1>3, <1>4 DEF FromOf, ToOf
<1>6. \A k \in 1..Stops(c[1]) : <<c[1], k>> \in StopsOf(Insts)
  BY <1>2 DEF StopsOf, Stops, Train
<1>7. c[2] + 2 <= Stops(c[1]) => c[2] + 2 \in 1..Stops(c[1]) BY <1>2, <1>3
<1> QED BY <1>2, <1>3, <1>4, <1>5, <1>6, <1>7

LEMMA NumberFacts ==
  /\ Latest \in Nat /\ Latest < Inf /\ TR \in Nat /\ TR > 0 /\ QueryTime \in Nat
  /\ Source \in Stations /\ Destination \in Stations /\ NoStation \notin Stations
  /\ Day \in Nat /\ LastFirstDeparture \in Nat
<1>1. QueryTime \in Nat /\ Horizon \in Nat BY QueryAssumption, TimetableAssumption
<1>2. Latest \in Nat BY <1>1 DEF Latest
<1> QED BY <1>1, <1>2, HorizonAssumption, QueryAssumption, TimetableAssumption DEF LastFirstDeparture

\* Before the scan nothing has a bound.
LEMMA InitScan == Init => Given /\ BoundTypes /\ ScanInv
<1> SUFFICES ASSUME Init PROVE Given /\ BoundTypes /\ ScanInv OBVIOUS
<1>1. Given BY DEF Init, Given
<1>2. /\ val = [s \in StopsOf(Insts) |-> LexInf] /\ tripBest = [i \in Insts |-> LexInf]
      /\ profile = [s \in Stations |-> <<>>] /\ todo = conns
  BY DEF Init, Insts
<1>3. BoundTypes
  <2>1. <<>> \in Profiles BY DEF Profiles
  <2> QED BY <1>2, <2>1, LexInfType DEF BoundTypes
<1>4. \A s \in StopsOf(Insts) : s[1] \in Insts BY DEF StopsOf
<1>5. \A s \in StopsOf(Insts) : AtMost(tripBest[s[1]], val[s]) BY <1>2, <1>4, LexInfType
<1>6. \A st \in Stations : \A i \in 1..Len(profile[st]), d \in todo : profile[st][i][1] >= DepAt(d)
  <2>1. \A st \in Stations : profile[st] = <<>> BY <1>2
  <2> QED BY <2>1
<1>7. \A c \in conns : Val(c) = LexInf /\ ~Done(c)
  <2> SUFFICES ASSUME NEW c \in conns PROVE Val(c) = LexInf /\ ~Done(c) OBVIOUS
  <2>1. <<c[1], c[2] + 1>> \in StopsOf(Insts) BY <1>1, ConnFacts
  <2> QED BY <1>2, <2>1 DEF Val, Done
<1> QED BY <1>1, <1>2, <1>3, <1>5, <1>6, <1>7 DEF ScanInv

\* What the order of the scan says of two connections.
LEMMA ScanOrder ==
  ASSUME Given, NEW c \in conns, NEW d \in conns, ScannedBefore(tt, c, d)
  PROVE  DepAt(c) >= DepAt(d) /\ (c[1] = d[1] => d[2] < c[2])
<1>1. DepAt(c) \in Nat /\ DepAt(d) \in Nat BY ConnFacts
<1>2. \/ DepAt(c) > DepAt(d)
      \/ DepAt(c) = DepAt(d) /\ (InstBefore(c[1], d[1]) \/ (c[1] = d[1] /\ c[2] > d[2]))
  BY DEF ScannedBefore, DepAt
<1>3. DepAt(c) >= DepAt(d) BY <1>1, <1>2
<1>4. ASSUME c[1] = d[1] PROVE d[2] < c[2]
  <2>1. /\ c[1] \in Insts /\ c[2] \in 1..Stops(c[1]) - 1 /\ d[2] \in 1..Stops(c[1]) - 1
        /\ Stops(c[1]) \in Nat
    BY <1>4, ConnFacts
  <2>2. c[1][1] \in 1..Len(tt) /\ c[1][2] \in Int
    BY <2>1, InstanceFacts DEF Given, Insts
  <2>3. ~InstBefore(c[1], d[1]) BY <1>4, <2>2 DEF InstBefore
  <2>4. CASE DepAt(c) > DepAt(d)
    <3>1. \A j, k \in 1..Stops(c[1]) - 1 : j <= k => Dep(tt, c[1], j) <= Dep(tt, c[1], k)
      BY <2>1, InstanceFacts DEF Given, Insts, Stops, Train
    <3>2. ~(c[2] <= d[2]) BY <1>1, <1>4, <2>1, <2>4, <3>1 DEF DepAt
    <3> QED BY <2>1, <3>2
  <2> QED BY <1>2, <1>4, <2>1, <2>3, <2>4
<1> QED BY <1>3, <1>4

\* A connection that leaves later, or from a later stop, is scanned first.
LEMMA ScanKeepsOrder ==
  ASSUME Given, ScanInv, NEW c \in todo, ScanConnection(c)
  PROVE  /\ Given' /\ todo' = todo \ {c} /\ tt' = tt /\ conns' = conns
         /\ \A e \in conns \ todo', d \in todo' : ScannedBefore(tt, e, d)
         /\ \A d \in todo' : DepAt(c) >= DepAt(d)
         /\ \A e \in conns \ todo : DepAt(e) >= DepAt(c) /\ (e[1] = c[1] => c[2] < e[2])
<1>1. todo' = todo \ {c} /\ UNCHANGED <<tt, limits, conns>> /\ phase' = phase /\ NextConnection(c)
  BY DEF ScanConnection, given
<1>2. c \in conns /\ todo \subseteq conns BY DEF Given
<1>3. Given' BY <1>1 DEF Given
<1>4. \A d \in todo \ {c} : ScannedBefore(tt, c, d) BY <1>1 DEF NextConnection
<1>5. \A e \in conns \ todo, d \in todo : ScannedBefore(tt, e, d) BY DEF ScanInv
<1>6. \A e \in conns \ todo', d \in todo' : ScannedBefore(tt, e, d) BY <1>1, <1>4, <1>5
<1>7. \A d \in todo' : DepAt(c) >= DepAt(d) BY <1>1, <1>2, <1>4, ScanOrder
<1>8. \A e \in conns \ todo : DepAt(e) >= DepAt(c) /\ (e[1] = c[1] => c[2] < e[2])
  BY <1>2, <1>5, ScanOrder
<1> QED BY <1>1, <1>3, <1>6, <1>7, <1>8

\* What can be reached at the end of a connection is a bound, no more than each
\* way of going on.
LEMMA ReachedBounds ==
  ASSUME Given, BoundTypes, NEW c \in conns
  PROVE  LET best == Reached(c[1], ToOf(c), ArrAt(c)) IN
         ArrAt(c) <= Latest =>
         /\ best \in Bounds /\ AtMost(best, tripBest[c[1]])
         /\ ToOf(c) = Destination => AtMost(best, <<ArrAt(c), 0>>)
         /\ ToOf(c) \in Stations \ {Destination} =>
              AtMost(best, PlusTransfer(ProfileEval(profile[ToOf(c)], ArrAt(c) + TR)))
<1> DEFINE to == ToOf(c)
           arr == ArrAt(c)
           change == PlusTransfer(ProfileEval(profile[to], arr + TR))
           onward == CASE to = Destination -> <<arr, 0>>
                       [] to \in Stations \ {Destination} -> change
                       [] OTHER -> LexInf
<1> SUFFICES ASSUME arr <= Latest
             PROVE  /\ Lesser(tripBest[c[1]], onward) \in Bounds
                    /\ AtMost(Lesser(tripBest[c[1]], onward), tripBest[c[1]])
                    /\ to = Destination => AtMost(Lesser(tripBest[c[1]], onward), <<arr, 0>>)
                    /\ to \in Stations \ {Destination} => AtMost(Lesser(tripBest[c[1]], onward), change)
  BY DEF Reached
<1>1. c[1] \in Insts /\ arr \in Nat /\ to \in Stations \cup {NoStation} BY ConnFacts
<1>2. tripBest[c[1]] \in Bounds BY <1>1 DEF BoundTypes
<1>3. to = Destination => onward = <<arr, 0>> BY Zenon
<1>4. to \in Stations \ {Destination} => onward = change BY Zenon
<1>5. to \notin Stations => onward = LexInf BY NumberFacts, Zenon
<1> HIDE DEF onward
<1>6. to = Destination => onward \in Bounds
  <2>1. arr \in 0..Inf /\ 0 \in 0..TrMask BY <1>1, NumberFacts, Sizes
  <2>2. <<arr, 0>> \in Bounds BY <2>1 DEF Bounds
  <2> QED BY <1>3, <2>2
<1>7. to \in Stations \ {Destination} => onward \in Bounds
  <2> SUFFICES ASSUME to \in Stations \ {Destination} PROVE change \in Bounds BY <1>4
  <2>1. profile[to] \in Profiles /\ arr + TR \in Int BY <1>1, NumberFacts DEF BoundTypes
  <2>2. ProfileEval(profile[to], arr + TR) \in Bounds BY <2>1, EvalType
  <2> QED BY <2>2, PlusIsMore
<1>8. onward \in Bounds BY <1>5, <1>6, <1>7, LexInfType
<1>9. Lesser(tripBest[c[1]], onward) \in Bounds
      /\ AtMost(Lesser(tripBest[c[1]], onward), tripBest[c[1]])
      /\ AtMost(Lesser(tripBest[c[1]], onward), onward)
  BY <1>2, <1>8, LesserIsLess
<1> QED BY <1>3, <1>4, <1>9

\* A connection that arrives beyond the horizon gets no bound.
LEMMA ScanSkips ==
  ASSUME Given, BoundTypes, ScanInv, NEW c \in todo, ScanConnection(c), ArrAt(c) > Latest
  PROVE  BoundTypes' /\ ScanInv'
<1>1. UNCHANGED <<val, tripBest, profile>> BY DEF ScanConnection, bounds, ArrAt
<1>2. todo' = todo \ {c} /\ tt' = tt /\ conns' = conns BY ScanKeepsOrder
<1>3. c \in conns BY DEF Given
<1>4. ArrAt(c) \in Nat /\ Latest \in Nat BY <1>3, ConnFacts, NumberFacts
<1>5. Insts' = Insts /\ StopsOf(Insts)' = StopsOf(Insts) BY <1>2 DEF Insts, StopsOf
<1>6. BoundTypes' BY <1>1, <1>5 DEF BoundTypes
<1>7. \A d : /\ Val(d)' = Val(d) /\ DepAt(d)' = DepAt(d)
             /\ (Consistent(d)' <=> Consistent(d))
  BY <1>1, <1>2 DEF Val, DepAt, Consistent, ArrAt, ToOf, FromOf, Stops, Train
<1>8. \A d \in conns : Done(d)' <=> Done(d) BY <1>2, <1>4 DEF Done, ArrAt
<1>9. \A e \in conns' \ todo', d \in todo' : ScannedBefore(tt', e, d) BY <1>2, ScanKeepsOrder
<1>10. \A st \in Stations : \A i \in 1..Len(profile'[st]), d \in todo' : profile'[st][i][1] >= DepAt(d)'
  BY <1>1, <1>2, <1>7 DEF ScanInv
<1>11. \A d \in conns' : Val(d)' # LexInf => Done(d)' BY <1>2, <1>7, <1>8 DEF ScanInv
<1>12. \A st \in StopsOf(Insts)' : AtMost(tripBest'[st[1]], val'[st]) BY <1>1, <1>5 DEF ScanInv
<1>13. \A d \in conns' : Done(d)' => Consistent(d)' BY <1>2, <1>7, <1>8 DEF ScanInv
<1> QED BY <1>6, <1>9, <1>10, <1>11, <1>12, <1>13 DEF ScanInv

\* A profile that takes up the bound b of a departure d, no later than those it has.
TakesUp(p, d, b) == b # LexInf /\ (p = <<>> \/ Before(b, p[Len(p)][2]))
Updated(p, d, b) == IF TakesUp(p, d, b) THEN Append(p, <<d, b>>) ELSE p

\* Its departures are no earlier than d.
Since(p, d) == \A i \in 1..Len(p) : p[i][1] >= d

LEMMA UpdateFacts ==
  ASSUME NEW p \in Profiles, NEW d \in Nat, NEW b \in Bounds,
         Since(p, d)
  PROVE  /\ Updated(p, d, b) \in Profiles
         /\ \A e \in Nat : Since(p, e) /\ d >= e => Since(Updated(p, d, b), e)
         /\ \A t \in Int : t <= d => AtMost(ProfileEval(Updated(p, d, b), t), b)
         /\ \A t \in Int : t > d => ProfileEval(Updated(p, d, b), t) = ProfileEval(p, t)
         /\ \A t \in Int : AtMost(ProfileEval(Updated(p, d, b), t), ProfileEval(p, t))
<1> DEFINE q == Updated(p, d, b)
           last == p[Len(p)][2]
<1>1. Len(p) \in Nat /\ \A i \in 1..Len(p) : p[i] \in Nat \X Bounds BY DEF Profiles
<1>2. b \in Int \X Int BY BoundsArePairs
<1>3. p # <<>> => last \in Bounds /\ last \in Int \X Int /\ p[Len(p)][1] >= d
  <2> SUFFICES ASSUME p # <<>> PROVE last \in Bounds /\ last \in Int \X Int /\ p[Len(p)][1] >= d
    OBVIOUS
  <2>1. Len(p) \in 1..Len(p) BY <1>1 DEF Profiles
  <2> QED BY <1>1, <2>1, BoundsArePairs DEF Since
<1>4. \A t \in Int : ProfileEval(p, t) \in Bounds /\ ProfileEval(p, t) \in Int \X Int
  BY EvalType, BoundsArePairs
<1>5. \A t \in Int : t <= d /\ p # <<>> => ProfileEval(p, t) = last
  <2> SUFFICES ASSUME NEW t \in Int, t <= d, p # <<>> PROVE ProfileEval(p, t) = last OBVIOUS
  <2>1. Len(p) \in 1..Len(p) BY <1>1 DEF Profiles
  <2>2. p[Len(p)][1] \in Nat BY <1>1, <2>1
  <2>3. p[Len(p)][1] >= t BY <1>3, <2>2
  <2> QED BY <2>3, EvalLast
<1>6. CASE ~TakesUp(p, d, b)
  <2>1. Updated(p, d, b) = p BY <1>6 DEF Updated
  <2>2. \A t \in Int : AtMost(ProfileEval(p, t), ProfileEval(p, t)) BY <1>4, AtMostOrder
  <2>3. ASSUME NEW t \in Int, t <= d PROVE AtMost(ProfileEval(p, t), b)
    <3>1. CASE b = LexInf BY <1>4, <3>1, LexInfType
    <3>2. CASE b # LexInf
      <4>1. p # <<>> /\ ~Before(b, last) BY <1>6, <3>2 DEF TakesUp
      <4>2. AtMost(last, b) BY <1>2, <1>3, <4>1, BeforeIsLess
      <4> QED BY <1>5, <2>3, <4>1, <4>2
    <3> QED BY <3>1, <3>2
  <2> QED BY <2>1, <2>2, <2>3
<1>7. CASE TakesUp(p, d, b)
  <2>1. q = Append(p, <<d, b>>) BY <1>7 DEF Updated
  <2>2. <<d, b>> \in Nat \X Bounds OBVIOUS
  <2>3. /\ q \in Profiles /\ Len(q) = Len(p) + 1 /\ q[Len(q)] = <<d, b>> /\ q # <<>>
        /\ \A i \in 1..Len(p) : q[i] = p[i]
    BY <1>1, <2>1, <2>2 DEF Profiles
  <2>4. \A e \in Nat : Since(p, e) /\ d >= e => Since(q, e)
    <3> SUFFICES ASSUME NEW e \in Nat, \A i \in 1..Len(p) : p[i][1] >= e, d >= e, NEW i \in 1..Len(q)
                 PROVE  q[i][1] >= e
      BY DEF Since
    <3>1. CASE i = Len(q) BY <2>3, <3>1
    <3>2. CASE i # Len(q)
      <4>1. i \in 1..Len(p) BY <1>1, <2>3, <3>2
      <4> QED BY <2>3, <4>1
    <3> QED BY <3>1, <3>2
  <2>5. \A t \in Int : t <= d => ProfileEval(q, t) = b
    <3> SUFFICES ASSUME NEW t \in Int, t <= d PROVE ProfileEval(q, t) = b OBVIOUS
    <3>1. q[Len(q)][1] >= t /\ q[Len(q)][2] = b BY <2>3
    <3> HIDE DEF q
    <3> QED BY <2>3, <3>1, EvalLast
  <2>6. \A t \in Int : t > d => ProfileEval(q, t) = ProfileEval(p, t)
    BY <2>1, EvalKept
  <2>7. ASSUME NEW t \in Int, t <= d PROVE AtMost(b, ProfileEval(p, t))
    <3>1. CASE p = <<>>
      <4>1. ProfileEval(p, t) = LexInf BY <3>1, EvalEmpty
      <4> QED BY <4>1, LexInfType
    <3>2. CASE p # <<>>
      <4>1. Before(b, last) BY <1>7, <3>2 DEF TakesUp
      <4>2. ~AtMost(last, b) BY <1>2, <1>3, <3>2, <4>1, BeforeIsLess
      <4>3. AtMost(b, last) BY <1>2, <1>3, <3>2, <4>2, AtMostOrder
      <4> QED BY <1>5, <2>7, <3>2, <4>3
    <3> QED BY <3>1, <3>2
  <2>8. AtMost(b, b) BY <1>2, AtMostOrder
  <2>9. ASSUME NEW t \in Int PROVE AtMost(ProfileEval(q, t), ProfileEval(p, t))
    <3>1. CASE t <= d BY <2>5, <2>7, <3>1
    <3>2. CASE t > d
      <4>1. AtMost(ProfileEval(p, t), ProfileEval(p, t)) BY <1>4, AtMostOrder
      <4> QED BY <2>6, <3>2, <4>1
    <3> QED BY <3>1, <3>2
  <2>10. \A t \in Int : t <= d => AtMost(ProfileEval(q, t), b) BY <2>5, <2>8
  <2> HIDE DEF q
  <2> QED BY <2>3, <2>4, <2>6, <2>9, <2>10 DEF q
<1> QED BY <1>6, <1>7

\* What the scan of a connection within the horizon sets.
LEMMA ScanAssigns ==
  ASSUME Given, BoundTypes, NEW c \in todo, ScanConnection(c), ArrAt(c) <= Latest
  PROVE  LET best == Reached(c[1], ToOf(c), ArrAt(c)) IN
         /\ val' = [val EXCEPT ![<<c[1], c[2] + 1>>] = best]
         /\ tripBest' = [tripBest EXCEPT ![c[1]] = best]
         /\ \A st \in Stations :
              profile'[st] = IF st = FromOf(c) THEN Updated(profile[st], DepAt(c), best) ELSE profile[st]
         /\ DOMAIN profile' = Stations /\ profile' = [st \in Stations |-> profile'[st]]
<1> DEFINE best == Reached(c[1], ToOf(c), ArrAt(c))
<1>1. ~(ArrAt(c) > Latest)
  <2>1. c \in conns BY DEF Given
  <2>2. ArrAt(c) \in Nat BY <2>1, ConnFacts
  <2>3. Latest \in Nat BY NumberFacts
  <2> QED BY <2>2, <2>3
<1>2. /\ val' = [val EXCEPT ![<<c[1], c[2] + 1>>] = best]
      /\ tripBest' = [tripBest EXCEPT ![c[1]] = best]
      /\ profile' = IF /\ best # LexInf /\ FromOf(c) # NoStation
                       /\ profile[FromOf(c)] = <<>> \/ Before(best, profile[FromOf(c)][Len(profile[FromOf(c)])][2])
                    THEN [profile EXCEPT ![FromOf(c)] = Append(@, <<DepAt(c), best>>)]
                    ELSE profile
  BY <1>1 DEF ScanConnection, ArrAt, DepAt, ToOf, FromOf, Train
<1>3. FromOf(c) \in Stations \cup {NoStation} /\ NoStation \notin Stations
  <2>1. c \in conns BY DEF Given
  <2> QED BY <2>1, ConnFacts, NumberFacts
<1>4. profile \in [Stations -> Profiles] BY DEF BoundTypes
<1> HIDE DEF best
<1>5. \A st \in Stations :
        profile'[st] = IF st = FromOf(c) THEN Updated(profile[st], DepAt(c), best) ELSE profile[st]
  <2> SUFFICES ASSUME NEW st \in Stations
               PROVE  profile'[st] = IF st = FromOf(c) THEN Updated(profile[st], DepAt(c), best) ELSE profile[st]
    OBVIOUS
  <2>1. CASE st # FromOf(c) BY <1>2, <1>4, <2>1
  <2>2. CASE st = FromOf(c)
    <3>1. FromOf(c) # NoStation BY <1>3, <2>2
    <3>2. CASE TakesUp(profile[st], DepAt(c), best)
      <4>1. profile' = [profile EXCEPT ![FromOf(c)] = Append(@, <<DepAt(c), best>>)]
        BY <1>2, <2>2, <3>1, <3>2 DEF TakesUp
      <4> QED BY <1>4, <2>2, <3>2, <4>1 DEF Updated
    <3>3. CASE ~TakesUp(profile[st], DepAt(c), best)
      <4>1. profile' = profile BY <1>2, <2>2, <3>1, <3>3 DEF TakesUp
      <4> QED BY <2>2, <3>3, <4>1 DEF Updated
    <3> QED BY <3>2, <3>3
  <2> QED BY <2>1, <2>2
<1>6. DOMAIN profile' = Stations /\ profile' = [st \in Stations |-> profile'[st]] BY <1>2, <1>4
<1> QED BY <1>2, <1>5, <1>6 DEF best

\* The scan of a connection within the horizon keeps the bounds consistent: what
\* it lowers are the train's bound, which counts for earlier stops only, and a
\* profile, only for passengers who are there by its departure.
LEMMA ScanSets ==
  ASSUME Given, BoundTypes, ScanInv, NEW c \in todo, ScanConnection(c), ArrAt(c) <= Latest
  PROVE  BoundTypes' /\ ScanInv'
<1> DEFINE best == Reached(c[1], ToOf(c), ArrAt(c))
           from == FromOf(c)
           dep  == DepAt(c)
<1>1. /\ todo' = todo \ {c} /\ tt' = tt /\ conns' = conns
      /\ \A e \in conns \ todo', d \in todo' : ScannedBefore(tt, e, d)
      /\ \A d \in todo' : dep >= DepAt(d)
      /\ \A e \in conns \ todo : DepAt(e) >= dep /\ (e[1] = c[1] => c[2] < e[2])
  BY ScanKeepsOrder
<1>2. c \in conns /\ todo \subseteq conns BY DEF Given
<1>3. /\ best \in Bounds /\ AtMost(best, tripBest[c[1]])
      /\ ToOf(c) = Destination => AtMost(best, <<ArrAt(c), 0>>)
      /\ ToOf(c) \in Stations \ {Destination} =>
           AtMost(best, PlusTransfer(ProfileEval(profile[ToOf(c)], ArrAt(c) + TR)))
  BY <1>2, ReachedBounds
<1>4. /\ val' = [val EXCEPT ![<<c[1], c[2] + 1>>] = best]
      /\ tripBest' = [tripBest EXCEPT ![c[1]] = best]
      /\ \A st \in Stations : profile'[st] = IF st = from THEN Updated(profile[st], dep, best) ELSE profile[st]
      /\ profile' = [st \in Stations |-> profile'[st]]
  BY ScanAssigns
<1>5. /\ c = <<c[1], c[2]>> /\ c[1] \in Insts /\ c[2] \in 1..Stops(c[1]) - 1 /\ Stops(c[1]) \in Nat
      /\ dep \in Nat /\ ArrAt(c) \in Nat /\ dep <= ArrAt(c)
      /\ <<c[1], c[2] + 1>> \in StopsOf(Insts)
      /\ c[2] + 2 <= Stops(c[1]) => <<c[1], c[2] + 2>> \in StopsOf(Insts)
  BY <1>2, ConnFacts
<1>6. TR \in Nat /\ TR > 0 BY NumberFacts
<1>7. /\ val \in [StopsOf(Insts) -> Bounds] /\ tripBest \in [Insts -> Bounds]
      /\ profile \in [Stations -> Profiles]
  BY DEF BoundTypes
<1>8. Insts' = Insts /\ StopsOf(Insts)' = StopsOf(Insts) BY <1>1 DEF Insts, StopsOf
<1>9. \A d : /\ DepAt(d)' = DepAt(d) /\ ArrAt(d)' = ArrAt(d)
             /\ FromOf(d)' = FromOf(d) /\ ToOf(d)' = ToOf(d) /\ Stops(d[1])' = Stops(d[1])
  BY <1>1 DEF DepAt, ArrAt, FromOf, ToOf, Stops, Train
<1> HIDE DEF best
<1>10. \A st \in Stations :
         /\ profile'[st] \in Profiles
         /\ \A d \in todo' : \A i \in 1..Len(profile'[st]) : profile'[st][i][1] >= DepAt(d)
         /\ \A t \in Int : t > dep => ProfileEval(profile'[st], t) = ProfileEval(profile[st], t)
         /\ \A t \in Int : AtMost(ProfileEval(profile'[st], t), ProfileEval(profile[st], t))
         /\ st = from => \A t \in Int : t <= dep => AtMost(ProfileEval(profile'[st], t), best)
  <2> SUFFICES ASSUME NEW st \in Stations
               PROVE  /\ profile'[st] \in Profiles
                      /\ \A d \in todo' : \A i \in 1..Len(profile'[st]) : profile'[st][i][1] >= DepAt(d)
                      /\ \A t \in Int : t > dep => ProfileEval(profile'[st], t) = ProfileEval(profile[st], t)
                      /\ \A t \in Int : AtMost(ProfileEval(profile'[st], t), ProfileEval(profile[st], t))
                      /\ st = from => \A t \in Int : t <= dep => AtMost(ProfileEval(profile'[st], t), best)
    OBVIOUS
  <2>1. profile[st] \in Profiles BY <1>7
  <2>2. \A i \in 1..Len(profile[st]), d \in todo : profile[st][i][1] >= DepAt(d) BY DEF ScanInv
  <2>3. CASE st # from
    <3>1. profile'[st] = profile[st] BY <1>4, <2>3
    <3>2. \A t \in Int : ProfileEval(profile[st], t) \in Int \X Int BY <2>1, EvalType, BoundsArePairs
    <3>3. \A t \in Int : AtMost(ProfileEval(profile[st], t), ProfileEval(profile[st], t))
      BY <3>2, AtMostOrder
    <3>4. \A d \in todo' : d \in todo BY <1>1
    <3> QED BY <2>1, <2>2, <2>3, <3>1, <3>3, <3>4
  <2>4. CASE st = from
    <3> DEFINE p == profile[st]
               q == Updated(p, dep, best)
    <3>1. profile'[st] = q BY <1>4, <2>4
    <3>2. Since(p, dep) BY <2>2 DEF Since
    <3>3. /\ q \in Profiles
          /\ \A e \in Nat : Since(p, e) /\ dep >= e => Since(q, e)
          /\ \A t \in Int : t <= dep => AtMost(ProfileEval(q, t), best)
          /\ \A t \in Int : t > dep => ProfileEval(q, t) = ProfileEval(p, t)
          /\ \A t \in Int : AtMost(ProfileEval(q, t), ProfileEval(p, t))
      <4>1. p \in Profiles /\ dep \in Nat /\ best \in Bounds BY <1>3, <1>5, <2>1
      <4> HIDE DEF dep, p
      <4> QED BY <3>2, <4>1, UpdateFacts
    <3>4. ASSUME NEW d \in todo' PROVE \A i \in 1..Len(q) : q[i][1] >= DepAt(d)
      <4>1. d \in todo /\ d \in conns BY <1>1, <1>2
      <4>2. DepAt(d) \in Nat BY <4>1, ConnFacts
      <4>3. Since(p, DepAt(d)) BY <2>2, <4>1 DEF Since
      <4>4. dep >= DepAt(d) BY <1>1
      <4> HIDE DEF q, p, dep
      <4> QED BY <3>3, <4>2, <4>3, <4>4 DEF Since
    <3> HIDE DEF q, dep
    <3> QED BY <3>1, <3>3, <3>4
  <2> QED BY <2>3, <2>4
<1> HIDE DEF dep, from
<1>11. BoundTypes'
  <2>1. val' \in [StopsOf(Insts) -> Bounds] BY <1>3, <1>4, <1>7
  <2>2. tripBest' \in [Insts -> Bounds] BY <1>3, <1>4, <1>7
  <2>3. profile' \in [Stations -> Profiles] BY <1>4, <1>10
  <2> QED BY <1>8, <2>1, <2>2, <2>3 DEF BoundTypes
<1>12. \A s \in StopsOf(Insts) : val'[s] = IF s = <<c[1], c[2] + 1>> THEN best ELSE val[s]
  BY <1>4, <1>5, <1>7
<1>13. \A i \in Insts : tripBest'[i] = IF i = c[1] THEN best ELSE tripBest[i]
  BY <1>4, <1>5, <1>7
<1>14. Val(c)' = best /\ \A d \in conns : d # c => Val(d)' = Val(d)
  <2>1. Val(c)' = best BY <1>5, <1>12 DEF Val
  <2>2. ASSUME NEW d \in conns, d # c PROVE Val(d)' = Val(d)
    <3>1. d = <<d[1], d[2]>> /\ d[2] \in 1..Stops(d[1]) - 1 /\ <<d[1], d[2] + 1>> \in StopsOf(Insts)
      BY ConnFacts
    <3>2. <<d[1], d[2] + 1>> # <<c[1], c[2] + 1>>
      <4>1. d[1] # c[1] \/ d[2] # c[2] BY <1>5, <2>2, <3>1
      <4>2. d[2] \in Int /\ c[2] \in Int BY <1>5, <3>1
      <4> QED BY <4>1, <4>2
    <3> QED BY <1>12, <3>1, <3>2 DEF Val
  <2> QED BY <2>1, <2>2
<1>15. \A s \in StopsOf(Insts) : AtMost(tripBest'[s[1]], val'[s])
  <2> SUFFICES ASSUME NEW s \in StopsOf(Insts) PROVE AtMost(tripBest'[s[1]], val'[s]) OBVIOUS
  <2>1. s[1] \in Insts BY DEF StopsOf
  <2>2. AtMost(tripBest[s[1]], val[s]) BY DEF ScanInv
  <2>3. tripBest[s[1]] \in Int \X Int /\ val[s] \in Int \X Int /\ best \in Int \X Int
    BY <1>3, <1>7, <2>1, BoundsArePairs
  <2>4. AtMost(best, best) BY <2>3, AtMostOrder
  <2>5. CASE s[1] # c[1]
    <3>1. s # <<c[1], c[2] + 1>> BY <2>5
    <3> QED BY <1>12, <1>13, <2>1, <2>2, <2>5, <3>1
  <2>6. CASE s[1] = c[1]
    <3>1. AtMost(best, val[s]) BY <1>3, <2>2, <2>3, <2>6, AtMostOrder
    <3>2. tripBest'[s[1]] = best /\ (val'[s] = best \/ val'[s] = val[s]) BY <1>12, <1>13, <2>1, <2>6
    <3> QED BY <2>4, <3>1, <3>2
  <2> QED BY <2>5, <2>6
<1>16. \A d \in conns : Done(d)' <=> Done(d) \/ d = c
  BY <1>1, <1>2, <1>9 DEF Done
<1>17. \A d \in conns : Val(d)' # LexInf => Done(d)'
  BY <1>14, <1>16 DEF ScanInv
<1>18. ASSUME NEW d \in conns, Done(d)' PROVE Consistent(d)'
  <2> DEFINE after == <<d[1], d[2] + 2>>
             change(pr) == PlusTransfer(ProfileEval(pr[ToOf(d)], ArrAt(d) + TR))
  <2>1. /\ d[1] \in Insts /\ d[2] \in 1..Stops(d[1]) - 1 /\ Stops(d[1]) \in Nat
        /\ DepAt(d) \in Nat /\ ArrAt(d) \in Nat /\ DepAt(d) <= ArrAt(d)
        /\ <<d[1], d[2] + 1>> \in StopsOf(Insts)
        /\ d[2] + 2 <= Stops(d[1]) => after \in StopsOf(Insts)
    BY ConnFacts
  <2>2. d = c \/ (Done(d) /\ d # c) BY <1>16, <1>18
  <2>3. DepAt(d) >= dep
    <3>1. CASE d = c BY <1>5, <3>1 DEF dep
    <3>2. CASE d # c BY <1>1, <2>2, <3>2 DEF Done
    <3> QED BY <3>1, <3>2
  <2>4. ArrAt(d) + TR \in Int /\ ArrAt(d) + TR > dep BY <1>5, <1>6, <2>1, <2>3
  <2>5. d # c => Consistent(d) BY <2>2 DEF ScanInv
  <2>6. d # c => Val(d)' = Val(d) BY <1>14
  <2>7. d[2] + 2 <= Stops(d[1]) => AtMost(Val(d)', val'[after])
    <3> SUFFICES ASSUME d[2] + 2 <= Stops(d[1]) PROVE AtMost(Val(d)', val'[after]) OBVIOUS
    <3>1. after \in StopsOf(Insts) /\ after[1] = d[1] /\ after[2] = d[2] + 2 BY <2>1
    <3>2. after # <<c[1], c[2] + 1>>
      <4>1. d[1] = c[1] => c[2] <= d[2]
        <5>1. CASE d = c BY <1>5, <5>1
        <5>2. CASE d # c BY <1>1, <1>5, <2>1, <2>2, <5>2 DEF Done
        <5> QED BY <5>1, <5>2
      <4> QED BY <1>5, <2>1, <4>1
    <3>3. val'[after] = val[after] BY <1>12, <3>1, <3>2
    <3>4. CASE d = c
      <4>1. AtMost(tripBest[c[1]], val[after]) BY <3>1, <3>4 DEF ScanInv
      <4>2. best \in Int \X Int /\ tripBest[c[1]] \in Int \X Int /\ val[after] \in Int \X Int
        BY <1>3, <1>5, <1>7, <3>1, BoundsArePairs
      <4>3. AtMost(best, val[after]) BY <1>3, <4>1, <4>2, AtMostOrder
      <4> QED BY <1>14, <3>3, <3>4, <4>3
    <3>5. CASE d # c BY <2>5, <2>6, <3>3, <3>5 DEF Consistent
    <3> QED BY <3>4, <3>5
  <2>8. ToOf(d) = Destination => AtMost(Val(d)', <<ArrAt(d), 0>>)
    <3>1. CASE d = c BY <1>3, <1>14, <3>1
    <3>2. CASE d # c BY <2>5, <2>6, <3>2 DEF Consistent
    <3> QED BY <3>1, <3>2
  <2>9. ToOf(d) \in Stations \ {Destination} => AtMost(Val(d)', change(profile'))
    <3> SUFFICES ASSUME ToOf(d) \in Stations \ {Destination} PROVE AtMost(Val(d)', change(profile')) OBVIOUS
    <3>1. ProfileEval(profile'[ToOf(d)], ArrAt(d) + TR) = ProfileEval(profile[ToOf(d)], ArrAt(d) + TR)
      BY <1>10, <2>4
    <3>2. change(profile') = change(profile) BY <3>1
    <3>3. CASE d = c BY <1>3, <1>14, <3>2, <3>3
    <3>4. CASE d # c BY <2>5, <2>6, <3>2, <3>4 DEF Consistent
    <3> QED BY <3>3, <3>4
  <2>10. FromOf(d) \in Stations =>
           \A t \in Int : t <= DepAt(d) => AtMost(ProfileEval(profile'[FromOf(d)], t), Val(d)')
    <3> SUFFICES ASSUME FromOf(d) \in Stations, NEW t \in Int, t <= DepAt(d)
                 PROVE  AtMost(ProfileEval(profile'[FromOf(d)], t), Val(d)')
      OBVIOUS
    <3>1. CASE d = c
      <4>1. FromOf(d) = from /\ t <= dep BY <3>1 DEF from, dep
      <4> QED BY <1>10, <1>14, <3>1, <4>1
    <3>2. CASE d # c
      <4> DEFINE now == ProfileEval(profile'[FromOf(d)], t)
                 was == ProfileEval(profile[FromOf(d)], t)
      <4>1. AtMost(now, was) BY <1>10
      <4>2. AtMost(was, Val(d)) BY <2>5, <3>2 DEF Consistent
      <4>3. profile[FromOf(d)] \in Profiles /\ profile'[FromOf(d)] \in Profiles BY <1>7, <1>10
      <4>4. now \in Int \X Int /\ was \in Int \X Int BY <4>3, EvalType, BoundsArePairs
      <4>5. Val(d) \in Int \X Int BY <1>7, <2>1, BoundsArePairs DEF Val
      <4> HIDE DEF now, was
      <4>6. AtMost(now, Val(d)) BY <4>1, <4>2, <4>4, <4>5, AtMostOrder
      <4> QED BY <2>6, <3>2, <4>6 DEF now
    <3> QED BY <3>1, <3>2
  <2> QED BY <1>9, <1>1, <2>7, <2>8, <2>9, <2>10 DEF Consistent
<1> QED BY <1>1, <1>8, <1>9, <1>10, <1>11, <1>15, <1>17, <1>18 DEF ScanInv

\* Once the search starts, whatever leaves the query time or later is scanned.
BoundsInv ==
  /\ Given /\ BoundTypes /\ ScanInv
  /\ phase # "scan" => \A c \in todo : DepAt(c) < QueryTime

SearchStep == StartSearch \/ Stop \/ \E i \in open : PruneByCap(i) \/ Complete(i) \/ Ride(i) \/ Board(i)

\* The search leaves the bounds alone.
LEMMA SearchLeavesBounds ==
  ASSUME SearchStep
  PROVE  /\ tt' = tt /\ limits' = limits /\ conns' = conns /\ todo' = todo
         /\ val' = val /\ tripBest' = tripBest /\ profile' = profile
         /\ phase' \in {phase, "search", "done"}
         /\ phase = "scan" => \A c \in todo : DepAt(c) < QueryTime
<1>1. CASE StartSearch BY <1>1 DEF StartSearch, given, bounds, DepAt
<1>2. CASE Stop BY <1>2 DEF Stop, given, bounds
<1>3. ASSUME NEW i \in open, PruneByCap(i) \/ Complete(i) \/ Ride(i) \/ Board(i)
      PROVE  /\ tt' = tt /\ limits' = limits /\ conns' = conns /\ todo' = todo
             /\ val' = val /\ tripBest' = tripBest /\ profile' = profile
             /\ phase' \in {phase, "search", "done"} /\ phase = "search"
  <2>1. CASE Complete(i) BY <2>1 DEF Complete, Top, given, bounds
  <2>2. ASSUME NEW new, Push(i, new), Top(i)
        PROVE  /\ tt' = tt /\ limits' = limits /\ conns' = conns /\ todo' = todo
               /\ val' = val /\ tripBest' = tripBest /\ profile' = profile
               /\ phase' = phase /\ phase = "search"
    BY <2>2 DEF Push, Top, given, bounds
  <2>3. CASE PruneByCap(i) BY <2>2, <2>3 DEF PruneByCap
  <2>4. CASE Ride(i) BY <2>2, <2>4 DEF Ride
  <2>5. CASE Board(i) BY <2>2, <2>5 DEF Board
  <2> QED BY <1>3, <2>1, <2>3, <2>4, <2>5
<1> QED BY <1>1, <1>2, <1>3 DEF SearchStep

LEMMA StepKeepsBounds ==
  ASSUME BoundsInv, [Next]_vars PROVE BoundsInv'
<1>1. ASSUME NEW c \in todo, ScanConnection(c) PROVE BoundsInv'
  <2>1. Given' BY <1>1, ScanKeepsOrder DEF BoundsInv
  <2>2. phase' = "scan" BY <1>1 DEF ScanConnection
  <2>3. c \in conns BY DEF BoundsInv, Given
  <2>4. ArrAt(c) \in Nat /\ Latest \in Nat BY <2>3, ConnFacts, NumberFacts DEF BoundsInv
  <2>5. CASE ArrAt(c) > Latest BY <1>1, <2>1, <2>2, <2>5, ScanSkips DEF BoundsInv
  <2>6. CASE ArrAt(c) <= Latest BY <1>1, <2>1, <2>2, <2>6, ScanSets DEF BoundsInv
  <2> QED BY <2>4, <2>5, <2>6
<1>2. ASSUME /\ tt' = tt /\ limits' = limits /\ conns' = conns /\ todo' = todo
             /\ val' = val /\ tripBest' = tripBest /\ profile' = profile
             /\ phase' \in {phase, "search", "done"}
             /\ phase # phase' /\ phase = "scan" => \A c \in todo : DepAt(c) < QueryTime
      PROVE  BoundsInv'
  <2>1. Given' BY <1>2 DEF Given, BoundsInv
  <2>2. Insts' = Insts /\ StopsOf(Insts)' = StopsOf(Insts) BY <1>2 DEF Insts, StopsOf
  <2>3. BoundTypes' BY <1>2, <2>2 DEF BoundTypes, BoundsInv
  <2>4. \A d : /\ Val(d)' = Val(d) /\ DepAt(d)' = DepAt(d) /\ (Done(d)' <=> Done(d))
               /\ (Consistent(d)' <=> Consistent(d))
    BY <1>2 DEF Val, DepAt, Consistent, Done, ArrAt, ToOf, FromOf, Stops, Train
  <2>5. ScanInv' BY <1>2, <2>2, <2>4 DEF ScanInv, BoundsInv
  <2>6. (phase # "scan" => \A c \in todo : DepAt(c) < QueryTime)'
    BY <1>2, <2>4 DEF BoundsInv
  <2> QED BY <2>1, <2>3, <2>5, <2>6 DEF BoundsInv
<1>3. CASE SearchStep BY <1>2, <1>3, SearchLeavesBounds
<1>4. CASE UNCHANGED vars BY <1>2, <1>4 DEF vars, given, bounds
<1> QED BY <1>1, <1>3, <1>4 DEF Next, SearchStep

LEMMA BoundsInvariant == Spec => []BoundsInv
<1>1. Init => BoundsInv BY InitScan DEF Init, BoundsInv
<1>2. BoundsInv /\ [Next]_vars => BoundsInv' BY StepKeepsBounds
<1> QED BY <1>1, <1>2, PTL DEF Spec

-----------------------------------------------------------------------------
(* The bounds are admissible. *)

\* A usable leg boards and alights at stops of its train, at stations, within
\* the hours of the query.
LEMMA LegFacts ==
  ASSUME NEW tab \in Timetables, NEW l \in UsableLegs(tab)
  PROVE  /\ l.inst \in Instances(tab, Weekday, Horizon)
         /\ l.board \in Nat /\ l.alight \in Nat
         /\ 1 <= l.board /\ l.board < l.alight /\ l.alight <= Len(tab[l.inst[1]].stops)
         /\ From(tab, l) \in Stations /\ To(tab, l) \in Stations
         /\ LegDep(tab, l) \in Int /\ LegArr(tab, l) \in Int
         /\ LegDep(tab, l) >= QueryTime /\ LegArr(tab, l) <= Latest
<1>1. PICK i \in Instances(tab, Weekday, Horizon), b \in 1..MaxStops(tab), a \in 1..MaxStops(tab) :
        l = [inst |-> i, board |-> b, alight |-> a]
  BY DEF UsableLegs, Legs
<1>2. /\ l.board < l.alight /\ l.alight <= Len(tab[l.inst[1]].stops)
      /\ From(tab, l) # NoStation /\ To(tab, l) # NoStation
      /\ LegDep(tab, l) >= QueryTime /\ LegArr(tab, l) <= Latest
  BY DEF UsableLegs
<1>3. l.inst = i /\ l.board = b /\ l.alight = a BY <1>1
<1>4. MaxStops(tab) \in Nat BY MaxStopsType
<1>5. a \in Nat /\ b \in Nat /\ 1 <= b BY <1>4
<1> DEFINE n == Len(tab[i[1]].stops)
<1>6. /\ n \in Nat
      /\ \A k \in 1..n : StationAt(tab[i[1]], k) \in Stations \cup {NoStation}
      /\ \A k \in 1..n - 1 : Dep(tab, i, k) \in Int /\ Arr(tab, i, k + 1) \in Int
  BY InstanceFacts
<1>7. a <= n /\ b < a BY <1>2, <1>3
<1> HIDE DEF n
<1>8. a \in 1..n /\ b \in 1..n /\ b \in 1..n - 1 /\ a - 1 \in 1..n - 1 /\ (a - 1) + 1 = a
  BY <1>5, <1>6, <1>7
<1>9. From(tab, l) \in Stations /\ To(tab, l) \in Stations BY <1>2, <1>3, <1>6, <1>8 DEF From, To
<1>10. Dep(tab, i, b) \in Int BY <1>6, <1>8
<1>11. Arr(tab, i, (a - 1) + 1) \in Int BY <1>6, <1>8
<1>12. LegDep(tab, l) \in Int /\ LegArr(tab, l) \in Int BY <1>3, <1>8, <1>10, <1>11 DEF LegDep, LegArr
<1> QED BY <1>2, <1>3, <1>5, <1>9, <1>12

\* How the enumeration builds the journeys: from those of one leg less.
Extensions(tab, js) ==
  {Q \in {Append(p, l) : p \in js, l \in UsableLegs(tab)} : Connected(tab, Q)}
Built(tab, mt, P) ==
  /\ DOMAIN P = 1..mt + 1 /\ \A k \in 1..mt + 1 : P[k] \subseteq Seq(UsableLegs(tab))
  /\ \A k \in 1..mt + 1 : P[k] = IF k = 1 THEN Extensions(tab, {<<>>}) ELSE Extensions(tab, P[k - 1])
  /\ AllJourneys(tab, mt) = {Q \in UNION {P[n] : n \in DOMAIN P} : To(tab, Q[Len(Q)]) = Destination}

LEMMA JourneysAreBuilt ==
  ASSUME NEW tab \in Timetables, NEW mt \in Nat PROVE \E P : Built(tab, mt, P)
<1> DEFINE legs == UsableLegs(tab)
           Extended(js) == {Q \in {Append(p, l) : p \in js, l \in legs} : Connected(tab, Q)}
           S == SUBSET Seq(legs)
           E == [n \in Nat |-> [js \in S |-> Extended(js)]]
           Step(f) == [n \in 1..mt + 1 |-> IF n = 1 THEN Extended({<<>>}) ELSE Extended(f[n - 1])]
           Partial == CHOOSE f : f = Step(f)
<1>1. \A js \in S : Extended(js) \in S
  <2> SUFFICES ASSUME NEW js \in S PROVE {Append(p, l) : p \in js, l \in legs} \subseteq Seq(legs) OBVIOUS
  <2> HIDE DEF legs
  <2> QED OBVIOUS
<1>2. {<<>>} \in S OBVIOUS
<1>3. E \in [Nat -> [S -> S]] /\ Extended({<<>>}) \in S
  <2> HIDE DEF S, Extended
  <2> QED BY <1>1, <1>2
<1> DEFINE first == Extended({<<>>})
           m == mt + 1
<1>4. PICK f \in [1..m -> S] : Recursion(f, first, E, m)
  <2>1. m \in Nat OBVIOUS
  <2>2. first \in S /\ E \in [Nat -> [S -> S]] BY <1>3
  <2> HIDE DEF E, S, Extended, first, m
  <2> QED BY <2>1, <2>2, RecursionExists
<1>5. f = Step(f)
  <2>1. ASSUME NEW n \in 1..mt + 1 PROVE f[n] = IF n = 1 THEN Extended({<<>>}) ELSE Extended(f[n - 1])
    <3>1. f[n] = IF n = 1 THEN Extended({<<>>}) ELSE E[n][f[n - 1]]
      <4> HIDE DEF E, S, Extended
      <4> QED BY <1>4 DEF Recursion
    <3>2. n # 1 => E[n][f[n - 1]] = Extended(f[n - 1])
      <4> SUFFICES ASSUME n # 1 PROVE E[n][f[n - 1]] = Extended(f[n - 1]) OBVIOUS
      <4>1. n - 1 \in 1..mt + 1 /\ n \in Nat OBVIOUS
      <4>2. f[n - 1] \in S
        <5> HIDE DEF S, E, Extended
        <5> QED BY <1>4, <4>1
      <4> HIDE DEF S, Extended
      <4> QED BY <4>1, <4>2
    <3> HIDE DEF E, Extended
    <3> QED BY <3>1, <3>2
  <2>2. f \in [1..mt + 1 -> S] BY <1>4
  <2> HIDE DEF Extended, S
  <2> QED BY <2>1, <2>2
<1>6. Partial = Step(Partial)
  <2> HIDE DEF Step
  <2> QED BY <1>5
<1>7. AllJourneys(tab, mt) =
        {Q \in UNION {Partial[n] : n \in DOMAIN Partial} : To(tab, Q[Len(Q)]) = Destination}
  BY DEF AllJourneys
<1> DEFINE T == {k \in Nat : k \in 1..mt + 1 => Partial[k] \in S}
<1>9. \A k \in 1..mt + 1 : Partial[k] = IF k = 1 THEN Extended({<<>>}) ELSE Extended(Partial[k - 1])
  <2> HIDE DEF Partial, Extended
  <2> QED BY <1>6
<1> HIDE DEF Partial
<1>10. DOMAIN Partial = 1..mt + 1
  <2> HIDE DEF Extended
  <2> QED BY <1>6
<1> HIDE DEF S, Extended
<1>11. 0 \in T OBVIOUS
<1>12. ASSUME NEW k \in T PROVE k + 1 \in T
  <2> SUFFICES ASSUME k + 1 \in 1..mt + 1 PROVE Partial[k + 1] \in S OBVIOUS
  <2>1. CASE k = 0
    <3>1. Partial[1] = Extended({<<>>}) BY <1>9
    <3> QED BY <1>3, <2>1, <3>1
  <2>2. CASE k # 0
    <3>1. k \in 1..mt + 1 /\ k + 1 # 1 /\ (k + 1) - 1 = k BY <2>2
    <3>2. Partial[k + 1] = Extended(Partial[k]) BY <1>9, <3>1
    <3> QED BY <1>1, <3>1, <3>2
  <2> QED BY <2>1, <2>2
<1>13. T = Nat
  <2>1. T \subseteq Nat OBVIOUS
  <2> HIDE DEF T
  <2> QED BY <1>11, <1>12, <2>1, SetInduction
<1>14. \A k \in 1..mt + 1 : Partial[k] \subseteq Seq(legs)
  <2> SUFFICES ASSUME NEW k \in 1..mt + 1 PROVE Partial[k] \subseteq Seq(legs) OBVIOUS
  <2>1. k \in T BY <1>13
  <2> QED BY <2>1 DEF S
<1>15. \A js : Extended(js) = Extensions(tab, js) BY DEF Extended, Extensions
<1>16. \A k \in 1..mt + 1 : Partial[k] = IF k = 1 THEN Extensions(tab, {<<>>}) ELSE Extensions(tab, Partial[k - 1])
  BY <1>9, <1>15
<1>17. Built(tab, mt, Partial) BY <1>7, <1>10, <1>14, <1>16 DEF Built
<1> QED BY <1>17

\* A journey of the enumeration is a chain of usable legs to the destination.
LEMMA JourneyFacts ==
  ASSUME NEW tab \in Timetables, NEW mt \in Nat, NEW J \in AllJourneys(tab, mt)
  PROVE  /\ J \in Seq(UsableLegs(tab)) /\ Len(J) \in Nat /\ Len(J) >= 1
         /\ Connected(tab, J) /\ To(tab, J[Len(J)]) = Destination
<1> DEFINE legs == UsableLegs(tab)
<1>1. PICK P : Built(tab, mt, P) BY JourneysAreBuilt
<1>2. PICK n \in 1..mt + 1 : J \in P[n] /\ To(tab, J[Len(J)]) = Destination BY <1>1 DEF Built
<1>3. \E js : js \subseteq Seq(legs) /\ J \in Extensions(tab, js)
  <2>1. CASE n = 1
    <3>1. {<<>>} \subseteq Seq(legs) OBVIOUS
    <3> QED BY <1>1, <1>2, <2>1, <3>1 DEF Built
  <2>2. CASE n # 1
    <3>1. n - 1 \in 1..mt + 1 BY <2>2
    <3>2. P[n] = Extensions(tab, P[n - 1]) /\ P[n - 1] \subseteq Seq(legs) BY <1>1, <2>2, <3>1 DEF Built
    <3> QED BY <1>2, <3>2
  <2> QED BY <2>1, <2>2
<1>4. PICK js : js \subseteq Seq(legs) /\ J \in Extensions(tab, js) BY <1>3
<1>5. PICK p \in js, l \in legs : J = Append(p, l) BY <1>4 DEF Extensions
<1>6. Connected(tab, J) BY <1>4 DEF Extensions
<1>7. p \in Seq(legs) BY <1>4, <1>5
<1>8. J \in Seq(legs) /\ Len(J) \in Nat /\ Len(J) >= 1
  <2> HIDE DEF legs
  <2> QED BY <1>5, <1>7
<1> QED BY <1>2, <1>6, <1>8

\* On a train boarded after the query time, each stop within the horizon has
\* its bound once the scan is over.
LEMMA Scanned ==
  ASSUME BoundsInv, phase # "scan", NEW i \in Insts,
         NEW b \in 1..Stops(i) - 1, NEW k \in 1..Stops(i) - 1, b <= k,
         Dep(tt, i, b) >= QueryTime, Arr(tt, i, k + 1) <= Latest
  PROVE  /\ <<i, k>> \in conns /\ Done(<<i, k>>) /\ Consistent(<<i, k>>)
         /\ DepAt(<<i, k>>) = Dep(tt, i, k) /\ ArrAt(<<i, k>>) = Arr(tt, i, k + 1)
         /\ FromOf(<<i, k>>) = StationAt(tt[i[1]], k) /\ ToOf(<<i, k>>) = StationAt(tt[i[1]], k + 1)
         /\ Val(<<i, k>>) = val[<<i, k + 1>>]
         /\ <<i, k>>[1] = i /\ <<i, k>>[2] = k
<1>1. /\ DepAt(<<i, k>>) = Dep(tt, i, k) /\ ArrAt(<<i, k>>) = Arr(tt, i, k + 1)
      /\ FromOf(<<i, k>>) = StationAt(tt[i[1]], k) /\ ToOf(<<i, k>>) = StationAt(tt[i[1]], k + 1)
      /\ Val(<<i, k>>) = val[<<i, k + 1>>]
      /\ <<i, k>>[1] = i /\ <<i, k>>[2] = k
  BY DEF DepAt, ArrAt, FromOf, ToOf, Val, Train
<1>2. tt \in Timetables /\ conns = Connections(tt, Weekday, Horizon) /\ Given BY DEF BoundsInv, Given
<1>3. Dep(tt, i, b) \in Int /\ Dep(tt, i, k) \in Int /\ Dep(tt, i, b) <= Dep(tt, i, k)
  BY <1>2, InstanceFacts DEF Insts, Stops, Train
<1>4. QueryTime \in Nat BY NumberFacts
<1>5. Dep(tt, i, b) >= 0 /\ Dep(tt, i, k) >= QueryTime BY <1>3, <1>4
<1>6. <<i, k>> \in conns BY <1>2, <1>5, NextIsConnection DEF Insts, Stops, Train
<1>7. <<i, k>> \notin todo
  <2>1. \A c \in todo : DepAt(c) < QueryTime BY DEF BoundsInv
  <2> QED BY <1>1, <1>3, <1>4, <1>5, <2>1
<1>8. Done(<<i, k>>) BY <1>1, <1>7 DEF Done
<1>9. Consistent(<<i, k>>) BY <1>6, <1>8 DEF BoundsInv, ScanInv
<1> QED BY <1>1, <1>6, <1>8, <1>9

\* No valid journey does better than the bound on board of it.
LEMMA NoJourneyBeatsBounds ==
  ASSUME BoundsInv, phase # "scan", NEW J \in AllJourneys(tt, MaxTransfers),
         NEW n \in 1..Len(J), NEW k \in J[n].board + 1..J[n].alight
  PROVE  /\ AtMost(val[<<J[n].inst, k>>], <<Arrival(tt, J), Len(J) - n>>)
         /\ val[<<J[n].inst, k>>] \in Bounds /\ Arrival(tt, J) \in Int
<1> DEFINE N == Len(J)
           A == Arrival(tt, J)
           Good(m, h) == AtMost(val[<<J[m].inst, h>>], <<A, N - m>>)
           GoodLeg(m) == LegArr(tt, J[m]) <= A /\ \A h \in J[m].board + 1..J[m].alight : Good(m, h)
<1>1. tt \in Timetables /\ MaxTransfers \in Nat
  BY RouterAssumption DEF BoundsInv, Given, MaxTransfers
<1>2. J \in Seq(UsableLegs(tt)) /\ N \in Nat /\ N >= 1 /\ Connected(tt, J) /\ To(tt, J[N]) = Destination
  BY <1>1, JourneyFacts
<1>3. \A m \in 1..N : J[m] \in UsableLegs(tt) BY <1>2
<1>4. ASSUME NEW m \in 1..N, NEW h \in J[m].board + 1..J[m].alight
      PROVE  LET c == <<J[m].inst, h - 1>> IN
             /\ c \in conns /\ Done(c) /\ Consistent(c) /\ c[1] = J[m].inst /\ c[2] = h - 1
             /\ ArrAt(c) = Arr(tt, J[m].inst, h) /\ ToOf(c) = StationAt(tt[J[m].inst[1]], h)
             /\ DepAt(c) = Dep(tt, J[m].inst, h - 1) /\ FromOf(c) = StationAt(tt[J[m].inst[1]], h - 1)
             /\ Val(c) = val[<<J[m].inst, h>>] /\ val[<<J[m].inst, h>>] \in Bounds
  <2> DEFINE l == J[m]
             i == l.inst
             s == Stops(i)
  <2>1. /\ i \in Insts /\ l.board \in Nat /\ l.alight \in Nat
        /\ 1 <= l.board /\ l.board < l.alight /\ l.alight <= s
        /\ LegDep(tt, l) >= QueryTime /\ LegArr(tt, l) <= Latest
    BY <1>1, <1>3, LegFacts DEF Insts, Stops, Train
  <2>2. s \in Nat BY <1>1, <2>1, InstanceFacts DEF Insts, Stops, Train
  <2>3. h \in 2..s /\ l.alight \in 2..s /\ h <= l.alight /\ h >= l.board + 1 BY <2>1, <2>2
  <2>4. \A x, y \in 2..s : x <= y => Arr(tt, i, x) <= Arr(tt, i, y)
    BY <1>1, <2>1, InstanceFacts DEF Insts, Stops, Train
  <2>5. \A x \in 1..s - 1 : Arr(tt, i, x + 1) \in Int
    BY <1>1, <2>1, InstanceFacts DEF Insts, Stops, Train
  <2> HIDE DEF s
  <2>6. /\ h - 1 \in 1..s - 1 /\ (h - 1) + 1 = h /\ l.board \in 1..s - 1 /\ l.board <= h - 1
        /\ l.alight - 1 \in 1..s - 1 /\ (l.alight - 1) + 1 = l.alight
    <3> DEFINE b == l.board
               a == l.alight
    <3>1. /\ b \in Nat /\ a \in Nat /\ s \in Nat /\ 1 <= b /\ b < a /\ a <= s
          /\ h \in 2..s /\ h <= a /\ h >= b + 1
      BY <2>1, <2>2, <2>3
    <3> HIDE DEF b, a, l
    <3>2. /\ h - 1 \in 1..s - 1 /\ (h - 1) + 1 = h /\ b \in 1..s - 1 /\ b <= h - 1
          /\ a - 1 \in 1..s - 1 /\ (a - 1) + 1 = a
      BY <3>1
    <3> QED BY <3>2 DEF a, b
  <2>7. Arr(tt, i, (h - 1) + 1) \in Int /\ Arr(tt, i, (l.alight - 1) + 1) \in Int BY <2>5, <2>6
  <2>8. Arr(tt, i, h) <= Arr(tt, i, l.alight) BY <2>3, <2>4
  <2>9. Latest \in Int BY NumberFacts
  <2>10. Arr(tt, i, (h - 1) + 1) <= Latest BY <2>1, <2>6, <2>7, <2>8, <2>9 DEF LegArr
  <2>11. Dep(tt, i, l.board) >= QueryTime BY <2>1 DEF LegDep
  <2> DEFINE c == <<i, h - 1>>
  <2>12. /\ c \in conns /\ Done(c) /\ Consistent(c) /\ c[1] = i /\ c[2] = h - 1
         /\ DepAt(c) = Dep(tt, i, h - 1) /\ ArrAt(c) = Arr(tt, i, (h - 1) + 1)
         /\ FromOf(c) = StationAt(tt[i[1]], h - 1) /\ ToOf(c) = StationAt(tt[i[1]], (h - 1) + 1)
         /\ Val(c) = val[<<i, (h - 1) + 1>>]
    <3> DEFINE b == l.board
               q == h - 1
               d == <<i, q>>
    <3>1. /\ i \in Insts /\ b \in 1..Stops(i) - 1 /\ q \in 1..Stops(i) - 1 /\ b <= q
          /\ Dep(tt, i, b) >= QueryTime /\ Arr(tt, i, q + 1) <= Latest
      BY <2>1, <2>6, <2>10, <2>11 DEF s
    <3> HIDE DEF b, q, i, l
    <3>2. /\ d \in conns /\ Done(d) /\ Consistent(d) /\ d[1] = i /\ d[2] = q
          /\ DepAt(d) = Dep(tt, i, q) /\ ArrAt(d) = Arr(tt, i, q + 1)
          /\ FromOf(d) = StationAt(tt[i[1]], q) /\ ToOf(d) = StationAt(tt[i[1]], q + 1)
          /\ Val(d) = val[<<i, q + 1>>]
      BY <3>1, Scanned
    <3> QED BY <3>2 DEF q
  <2>13. <<i, h>> \in StopsOf(Insts)
    <3>1. h \in 1..s BY <2>3, <2>2
    <3> QED BY <2>1, <3>1 DEF StopsOf, s, Stops, Train
  <2>14. val[<<i, h>>] \in Bounds BY <2>13 DEF BoundsInv, BoundTypes
  <2> QED BY <2>6, <2>12, <2>14
<1>5. ASSUME NEW m \in 1..N
      PROVE  /\ J[m].board \in Nat /\ J[m].alight \in Nat /\ J[m].board < J[m].alight
             /\ J[m].alight <= Stops(J[m].inst) /\ 1 <= J[m].board
             /\ From(tt, J[m]) \in Stations /\ To(tt, J[m]) \in Stations
             /\ LegDep(tt, J[m]) \in Int /\ LegArr(tt, J[m]) \in Int
             /\ J[m].alight \in J[m].board + 1..J[m].alight
             /\ J[m].board + 1 \in J[m].board + 1..J[m].alight
  <2>1. /\ J[m].board \in Nat /\ J[m].alight \in Nat /\ J[m].board < J[m].alight
        /\ J[m].alight <= Stops(J[m].inst) /\ 1 <= J[m].board
        /\ From(tt, J[m]) \in Stations /\ To(tt, J[m]) \in Stations
        /\ LegDep(tt, J[m]) \in Int /\ LegArr(tt, J[m]) \in Int
    BY <1>1, <1>3, LegFacts DEF Stops, Train
  <2> QED BY <2>1
<1>6. A = LegArr(tt, J[N]) /\ A \in Int
  <2>1. N \in 1..N BY <1>2
  <2> QED BY <1>5, <2>1 DEF Arrival
<1>7. ASSUME NEW m \in 1..N, Good(m, J[m].alight), LegArr(tt, J[m]) <= A PROVE GoodLeg(m)
  <2> DEFINE l == J[m]
             T == {j \in Nat : l.alight - j >= l.board + 1 => Good(m, l.alight - j)}
  <2>1. l.board \in Nat /\ l.alight \in Nat /\ l.alight <= Stops(l.inst) BY <1>5
  <2>2. 0 \in T
    <3>1. l.alight - 0 = l.alight BY <2>1
    <3> QED BY <1>7, <3>1
  <2>3. ASSUME NEW j \in T PROVE j + 1 \in T
    <3> DEFINE h == l.alight - (j + 1)
    <3> SUFFICES ASSUME h >= l.board + 1 PROVE Good(m, h) OBVIOUS
    <3>1. j \in Nat /\ h + 1 = l.alight - j /\ h + 1 >= l.board + 1 /\ h \in l.board + 1..l.alight
          /\ h + 1 \in l.board + 1..l.alight /\ (h - 1) + 2 = h + 1 /\ h \in Int
      <4> DEFINE b == l.board
                 a == l.alight
      <4>1. j \in Nat /\ b \in Nat /\ a \in Nat /\ h = a - (j + 1) /\ h >= b + 1 BY <2>1
      <4> HIDE DEF b, a, h, l
      <4>2. /\ h + 1 = a - j /\ h + 1 >= b + 1 /\ h \in b + 1..a
            /\ h + 1 \in b + 1..a /\ (h - 1) + 2 = h + 1 /\ h \in Int
        BY <4>1
      <4> QED BY <4>1, <4>2 DEF a, b
    <3>2. Good(m, h + 1) BY <3>1
    <3> HIDE DEF h
    <3>3. val[<<l.inst, h>>] \in Bounds /\ val[<<l.inst, h + 1>>] \in Bounds BY <1>4, <3>1
    <3> DEFINE c == <<l.inst, h - 1>>
    <3>4. Consistent(c) /\ c[1] = l.inst /\ c[2] = h - 1 /\ Val(c) = val[<<l.inst, h>>] BY <1>4, <3>1
    <3>5. c[2] + 2 = h + 1 /\ c[2] + 2 <= Stops(c[1])
      <4>1. Stops(l.inst) \in Nat
        <5>1. l.inst \in Insts BY <1>1, <1>3, LegFacts DEF Insts
        <5> QED BY <1>1, <5>1, InstanceFacts DEF Insts, Stops, Train
      <4> QED BY <2>1, <3>1, <3>4, <4>1
    <3>6. AtMost(val[<<l.inst, h>>], val[<<l.inst, h + 1>>]) BY <3>4, <3>5 DEF Consistent
    <3>7. /\ val[<<l.inst, h>>] \in Int \X Int /\ val[<<l.inst, h + 1>>] \in Int \X Int
          /\ <<A, N - m>> \in Int \X Int
      BY <1>2, <1>6, <3>3, BoundsArePairs
    <3> QED BY <3>2, <3>6, <3>7, AtMostOrder
  <2>4. T = Nat
    <3>1. T \subseteq Nat OBVIOUS
    <3> HIDE DEF T
    <3> QED BY <2>2, <2>3, <3>1, SetInduction
  <2>5. ASSUME NEW h \in l.board + 1..l.alight PROVE Good(m, h)
    <3>1. l.alight - h \in Nat /\ l.alight - (l.alight - h) = h /\ h >= l.board + 1 BY <2>1
    <3>2. l.alight - h \in T BY <2>4, <3>1
    <3> QED BY <3>1, <3>2
  <2> QED BY <1>7, <2>5
<1>8. GoodLeg(N)
  <2>1. N \in 1..N BY <1>2
  <2> DEFINE l == J[N]
             c == <<l.inst, l.alight - 1>>
  <2>2. /\ Consistent(c) /\ ArrAt(c) = Arr(tt, l.inst, l.alight)
        /\ ToOf(c) = StationAt(tt[l.inst[1]], l.alight) /\ Val(c) = val[<<l.inst, l.alight>>]
    BY <1>4, <1>5, <2>1
  <2>3. ToOf(c) = Destination /\ ArrAt(c) = A BY <1>2, <1>6, <2>2 DEF To, LegArr
  <2>4. AtMost(val[<<l.inst, l.alight>>], <<A, 0>>) BY <2>2, <2>3 DEF Consistent
  <2>5. N - N = 0 BY <1>2
  <2>6. LegArr(tt, J[N]) <= A BY <1>6
  <2> QED BY <1>7, <2>1, <2>4, <2>5, <2>6
<1>9. ASSUME NEW m \in 1..N, m + 1 \in 1..N, GoodLeg(m + 1) PROVE GoodLeg(m)
  <2> DEFINE l == J[m]
             next == J[m + 1]
             c == <<l.inst, l.alight - 1>>
             d == <<next.inst, next.board>>
             st == To(tt, l)
             on == ProfileEval(profile[st], ArrAt(c) + TR)
  <2>1. /\ Consistent(c) /\ ArrAt(c) = LegArr(tt, l) /\ ToOf(c) = st
        /\ Val(c) = val[<<l.inst, l.alight>>] /\ Val(c) \in Bounds
    BY <1>4, <1>5 DEF LegArr, To
  <2>2. /\ d \in conns /\ Consistent(d) /\ DepAt(d) = LegDep(tt, next) /\ FromOf(d) = From(tt, next)
        /\ ArrAt(d) = Arr(tt, next.inst, next.board + 1)
        /\ Val(d) = val[<<next.inst, next.board + 1>>] /\ Val(d) \in Bounds
    <3>1. next.board + 1 \in next.board + 1..next.alight /\ (next.board + 1) - 1 = next.board
      <4>1. next.board \in Nat /\ next.alight \in Nat /\ next.board < next.alight BY <1>5, <1>9
      <4> HIDE DEF next
      <4> QED BY <4>1
    <3> HIDE DEF next
    <3>2. m + 1 \in 1..N BY <1>9
    <3> QED BY <1>4, <3>1, <3>2 DEF LegDep, From, next
  <2>3. From(tt, next) = st /\ LegDep(tt, next) >= LegArr(tt, l) + TR
    <3>1. m \in 1..N - 1 BY <1>2, <1>9
    <3> QED BY <1>2, <3>1 DEF Connected
  <2>4. st \in Stations /\ LegArr(tt, l) \in Int /\ LegDep(tt, next) \in Int /\ LegArr(tt, next) \in Int
    BY <1>5, <1>9
  <2>5. TR \in Nat /\ TR > 0 BY NumberFacts
  <2>6. LegArr(tt, l) <= A
    <3>1. LegDep(tt, next) <= LegArr(tt, next)
      <4>1. Given BY DEF BoundsInv
      <4>2. DepAt(d) <= ArrAt(d) /\ ArrAt(d) \in Int
        <5>1. d \in conns BY <2>2
        <5> HIDE DEF d
        <5>2. DepAt(d) \in Nat /\ ArrAt(d) \in Nat /\ DepAt(d) <= ArrAt(d) BY <4>1, <5>1, ConnFacts
        <5> QED BY <5>2
      <4>3. next \in UsableLegs(tt) BY <1>3, <1>9
      <4>4. /\ next.inst \in Instances(tt, Weekday, Horizon) /\ next.board \in Nat /\ next.alight \in Nat
            /\ 1 <= next.board /\ next.board < next.alight /\ next.alight <= Len(tt[next.inst[1]].stops)
        BY <1>1, <4>3, LegFacts
      <4>5. Len(tt[next.inst[1]].stops) \in Nat
            /\ \A x, y \in 2..Len(tt[next.inst[1]].stops) : x <= y => Arr(tt, next.inst, x) <= Arr(tt, next.inst, y)
        BY <1>1, <4>4, InstanceFacts
      <4> HIDE DEF next
      <4>6. next.board + 1 \in 2..Len(tt[next.inst[1]].stops) /\ next.alight \in 2..Len(tt[next.inst[1]].stops)
            /\ next.board + 1 <= next.alight
        <5> DEFINE b == next.board
                   a == next.alight
                   s == Len(tt[next.inst[1]].stops)
        <5>1. b \in Nat /\ a \in Nat /\ s \in Nat /\ 1 <= b /\ b < a /\ a <= s BY <4>4, <4>5
        <5> HIDE DEF a, b, s
        <5>2. b + 1 \in 2..s /\ a \in 2..s /\ b + 1 <= a BY <5>1
        <5> QED BY <5>2 DEF a, b, s
      <4>7. Arr(tt, next.inst, next.board + 1) <= Arr(tt, next.inst, next.alight) BY <4>5, <4>6
      <4>8. LegArr(tt, next) \in Int BY <2>4 DEF next
      <4> QED BY <2>2, <2>4, <4>2, <4>7, <4>8 DEF LegArr, next
    <3>2. LegArr(tt, next) <= A BY <1>9
    <3> HIDE DEF next, l
    <3> QED BY <1>6, <2>3, <2>4, <2>5, <3>1, <3>2
  <2>7. AtMost(Val(d), <<A, N - (m + 1)>>)
    <3>1. next.board + 1 \in next.board + 1..next.alight BY <1>5, <1>9
    <3> QED BY <1>9, <2>2, <3>1
  <2>8. AtMost(Val(c), <<A, N - m>>)
    <3>1. CASE st = Destination
      <4>1. AtMost(Val(c), <<LegArr(tt, l), 0>>) BY <2>1, <3>1 DEF Consistent
      <4>2. N - m \in Nat BY <1>2, <1>9
      <4>3. AtMost(<<LegArr(tt, l), 0>>, <<A, N - m>>)
        <5> HIDE DEF l
        <5> QED BY <1>6, <2>4, <2>6, <4>2 DEF AtMost
      <4>4. Val(c) \in Int \X Int /\ <<LegArr(tt, l), 0>> \in Int \X Int /\ <<A, N - m>> \in Int \X Int
        BY <1>6, <2>1, <2>4, <4>2, BoundsArePairs
      <4> HIDE DEF c, l
      <4> QED BY <4>1, <4>3, <4>4, AtMostOrder
    <3>2. CASE st # Destination
      <4>1. AtMost(Val(c), PlusTransfer(on)) BY <2>1, <2>4, <3>2 DEF Consistent
      <4>2. ArrAt(c) + TR \in Int /\ ArrAt(c) + TR <= DepAt(d)
        <5> HIDE DEF c, d, l, next
        <5> QED BY <2>1, <2>2, <2>3, <2>4, <2>5
      <4>3. AtMost(on, Val(d)) BY <2>2, <2>3, <2>4, <4>2 DEF Consistent
      <4>4. profile[st] \in Profiles BY <2>4 DEF BoundsInv, BoundTypes
      <4>5. on \in Bounds /\ on \in Int \X Int BY <4>2, <4>4, EvalType, BoundsArePairs
      <4> DEFINE x == <<A, N - (m + 1)>>
      <4>6. x \in Int \X Int /\ Val(d) \in Int \X Int /\ Val(c) \in Int \X Int
        BY <1>2, <1>6, <2>1, <2>2, BoundsArePairs
      <4>7. AtMost(on, x)
        <5> HIDE DEF on, x, d
        <5> QED BY <2>7, <4>3, <4>5, <4>6, AtMostOrder DEF x
      <4>8. <<x[1], x[2] + 1>> = <<A, N - m>> BY <1>2
      <4>9. AtMost(PlusTransfer(on), <<x[1], x[2] + 1>>) /\ PlusTransfer(on) \in Bounds
        <5> HIDE DEF on, x
        <5> QED BY <4>5, <4>6, <4>7, PlusIsMore
      <4>10. PlusTransfer(on) \in Int \X Int /\ <<A, N - m>> \in Int \X Int
        BY <1>2, <1>6, <4>9, BoundsArePairs
      <4>11. AtMost(PlusTransfer(on), <<A, N - m>>) BY <4>8, <4>9
      <4> HIDE DEF on, c
      <4> QED BY <4>1, <4>6, <4>10, <4>11, AtMostOrder
    <3> QED BY <3>1, <3>2
  <2> QED BY <1>7, <2>1, <2>6, <2>8
<1> DEFINE T == {j \in Nat : j < N => GoodLeg(N - j)}
<1>10. 0 \in T
  <2>1. N - 0 = N BY <1>2
  <2> QED BY <1>8, <2>1
<1>11. ASSUME NEW j \in T PROVE j + 1 \in T
  <2> HIDE DEF GoodLeg
  <2> SUFFICES ASSUME j + 1 < N PROVE GoodLeg(N - (j + 1)) OBVIOUS
  <2>1. j \in Nat /\ N - (j + 1) \in 1..N /\ (N - (j + 1)) + 1 = N - j /\ N - j \in 1..N /\ j < N BY <1>2
  <2>2. GoodLeg((N - (j + 1)) + 1) BY <2>1
  <2> QED BY <1>9, <2>1, <2>2
<1>12. T = Nat
  <2>1. T \subseteq Nat OBVIOUS
  <2> HIDE DEF T
  <2> QED BY <1>10, <1>11, <2>1, SetInduction
<1>13. GoodLeg(n)
  <2>1. N - n \in Nat /\ N - (N - n) = n /\ N - n < N BY <1>2
  <2>2. N - n \in T BY <1>12, <2>1
  <2> HIDE DEF GoodLeg
  <2> QED BY <2>1, <2>2
<1>14. val[<<J[n].inst, k>>] \in Bounds BY <1>4
<1> QED BY <1>6, <1>13, <1>14

\* README.md "Bound is admissible": on board at any stop of a valid journey, the
\* journey's arrival and remaining transfers are no better than the bound that
\* the scan left there.
THEOREM BoundsAreAdmissible == Spec => []BoundAdmissible
<1>1. BoundsInv => BoundAdmissible
  <2> SUFFICES ASSUME BoundsInv, phase = "search", NEW J \in AllJourneys(tt, MaxTransfers),
                      NEW n \in DOMAIN J, NEW k \in J[n].board + 1..J[n].alight
               PROVE  ~Before(<<Arrival(tt, J), Len(J) - n>>, val[<<J[n].inst, k>>])
    BY DEF BoundAdmissible
  <2> DEFINE v == val[<<J[n].inst, k>>]
             x == <<Arrival(tt, J), Len(J) - n>>
  <2>1. tt \in Timetables /\ MaxTransfers \in Nat
    BY RouterAssumption DEF BoundsInv, Given, MaxTransfers
  <2>2. J \in Seq(UsableLegs(tt)) /\ Len(J) \in Nat BY <2>1, JourneyFacts
  <2>3. n \in 1..Len(J) BY <2>2
  <2>4. phase # "scan" OBVIOUS
  <2>5. AtMost(v, x) /\ v \in Bounds /\ Arrival(tt, J) \in Int BY <2>3, <2>4, NoJourneyBeatsBounds
  <2>6. v \in Int \X Int /\ x \in Int \X Int BY <2>2, <2>3, <2>5, BoundsArePairs
  <2> HIDE DEF v, x
  <2>7. ~Before(x, v) BY <2>5, <2>6, BeforeIsLess
  <2> QED BY <2>7 DEF v, x
<1> QED BY <1>1, BoundsInvariant, PTL

-----------------------------------------------------------------------------
(* The legs and the waiting of a partial journey. *)

\* A leg of a partial journey: on a train boarded after the query time, as far
\* as some later stop.
Rides ==
  {leg \in [inst : Insts, board : Nat, alight : Nat] :
     /\ 1 <= leg.board /\ leg.board < leg.alight /\ leg.alight <= Stops(leg.inst)
     /\ LegDep(tt, leg) >= QueryTime}

LEMMA RideFacts ==
  ASSUME Given, NEW leg \in Rides
  PROVE  /\ leg.inst \in Insts /\ leg.board \in Nat /\ leg.alight \in Nat /\ Stops(leg.inst) \in Nat
         /\ leg.inst[1] \in 1..Len(tt)
         /\ leg.board \in 1..Stops(leg.inst) - 1 /\ leg.alight - 1 \in 1..Stops(leg.inst) - 1
         /\ leg.board <= leg.alight - 1 /\ leg.alight <= Stops(leg.inst)
         /\ LegDep(tt, leg) \in Int /\ LegArr(tt, leg) \in Int
         /\ LegDep(tt, leg) >= QueryTime /\ LegDep(tt, leg) <= LegArr(tt, leg)
         /\ From(tt, leg) \in Stations \cup {NoStation} /\ To(tt, leg) \in Stations \cup {NoStation}
         /\ <<leg.inst, leg.alight - 1>> \in conns
         /\ <<leg.inst, leg.alight>> \in StopsOf(Insts)
<1> DEFINE i == leg.inst
           b == leg.board
           a == leg.alight
           s == Stops(i)
<1>1. /\ i \in Insts /\ b \in Nat /\ a \in Nat /\ 1 <= b /\ b < a /\ a <= s
      /\ Dep(tt, i, b) >= QueryTime
  BY DEF Rides, LegDep
<1>2. tt \in Timetables /\ conns = Connections(tt, Weekday, Horizon) BY DEF Given
<1>3. /\ s \in Nat /\ i[1] \in 1..Len(tt)
      /\ \A k \in 1..s : StationAt(tt[i[1]], k) \in Stations \cup {NoStation}
      /\ \A k \in 1..s - 1 : Dep(tt, i, k) \in Int /\ Arr(tt, i, k + 1) \in Int /\ Dep(tt, i, k) <= Arr(tt, i, k + 1)
      /\ \A j, k \in 1..s - 1 : j <= k => Dep(tt, i, j) <= Dep(tt, i, k)
  BY <1>1, <1>2, InstanceFacts DEF Insts, Stops, Train
<1>4. <<i, a>> \in StopsOf(Insts)
  <2>1. a \in 1..s BY <1>1, <1>3
  <2> QED BY <1>1, <2>1 DEF StopsOf, Stops, Train
<1>5. /\ LegDep(tt, leg) = Dep(tt, i, b) /\ LegArr(tt, leg) = Arr(tt, i, a)
      /\ From(tt, leg) = StationAt(tt[i[1]], b) /\ To(tt, leg) = StationAt(tt[i[1]], a)
  BY DEF LegDep, LegArr, From, To
<1> HIDE DEF i, a, b, s
<1>6. b \in 1..s - 1 /\ a - 1 \in 1..s - 1 /\ b <= a - 1 /\ a \in 1..s /\ b \in 1..s /\ (a - 1) + 1 = a
  BY <1>1, <1>3
<1>7. /\ Dep(tt, i, b) \in Int /\ Dep(tt, i, a - 1) \in Int /\ Arr(tt, i, (a - 1) + 1) \in Int
      /\ Dep(tt, i, a - 1) <= Arr(tt, i, (a - 1) + 1) /\ Dep(tt, i, b) <= Dep(tt, i, a - 1)
  BY <1>3, <1>6
<1>8. Dep(tt, i, b) <= Arr(tt, i, a) /\ Arr(tt, i, a) \in Int BY <1>6, <1>7
<1>9. Dep(tt, i, b) >= 0
  <2>1. QueryTime \in Nat BY NumberFacts
  <2> QED BY <1>1, <1>7, <2>1
<1>10. <<i, a - 1>> \in conns
  BY <1>1, <1>2, <1>6, <1>9, NextIsConnection DEF Insts, Stops, Train, s
<1>11. StationAt(tt[i[1]], b) \in Stations \cup {NoStation} /\ StationAt(tt[i[1]], a) \in Stations \cup {NoStation}
  BY <1>3, <1>6
<1> QED BY <1>1, <1>3, <1>4, <1>5, <1>6, <1>7, <1>8, <1>10, <1>11 DEF i, a, b, s

\* What Waiting adds up.
Waits(J, f) ==
  /\ f \in [1..Len(J) -> Int] /\ f[1] = 0
  /\ \A n \in 2..Len(J) : f[n] = f[n - 1] + (LegDep(tt, J[n]) - LegArr(tt, J[n - 1]))

LEMMA WaitingIs ==
  ASSUME Given, NEW J \in Seq(Rides), J # <<>>
  PROVE  \E f : Waits(J, f) /\ Waiting(tt, J) = f[Len(J)]
<1> DEFINE N == Len(J)
           add(n) == LegDep(tt, J[n]) - LegArr(tt, J[n - 1])
           E == [n \in Nat |-> [x \in Int |-> IF n \in 2..N THEN x + add(n) ELSE x]]
           Step(f) == [n \in 1..N |-> IF n = 1 THEN 0 ELSE f[n - 1] + add(n)]
           upTo == CHOOSE f : f = Step(f)
<1>1. N \in Nat /\ N >= 1 /\ \A n \in 1..N : J[n] \in Rides OBVIOUS
<1>2. \A n \in 2..N : add(n) \in Int
  <2> SUFFICES ASSUME NEW n \in 2..N PROVE add(n) \in Int OBVIOUS
  <2>1. n \in 1..N /\ n - 1 \in 1..N BY <1>1
  <2>2. J[n] \in Rides /\ J[n - 1] \in Rides BY <1>1, <2>1
  <2>3. LegDep(tt, J[n]) \in Int /\ LegArr(tt, J[n - 1]) \in Int BY <2>2, RideFacts
  <2> QED BY <2>3
<1> HIDE DEF add, N
<1>3. E \in [Nat -> [Int -> Int]] BY <1>2
<1>4. PICK f \in [1..N -> Int] : Recursion(f, 0, E, N)
  <2>1. 0 \in Int OBVIOUS
  <2> HIDE DEF E
  <2> QED BY <1>1, <1>3, <2>1, RecursionExists
<1>5. \A n \in 1..N : f[n] = IF n = 1 THEN 0 ELSE f[n - 1] + add(n)
  <2> SUFFICES ASSUME NEW n \in 1..N PROVE f[n] = IF n = 1 THEN 0 ELSE f[n - 1] + add(n) OBVIOUS
  <2>1. f[n] = IF n = 1 THEN 0 ELSE E[n][f[n - 1]]
    <3> HIDE DEF E
    <3> QED BY <1>4 DEF Recursion
  <2>2. CASE n = 1 BY <2>1, <2>2
  <2>3. CASE n # 1
    <3>1. n \in 2..N /\ n - 1 \in 1..N /\ n \in Nat BY <1>1, <2>3
    <3>2. f[n - 1] \in Int BY <1>4, <3>1
    <3>3. E[n][f[n - 1]] = f[n - 1] + add(n) BY <3>1, <3>2
    <3> HIDE DEF E
    <3> QED BY <2>1, <2>3, <3>3
  <2> QED BY <2>2, <2>3
<1>6. f = Step(f) BY <1>4, <1>5
<1>7. upTo = Step(upTo)
  <2> HIDE DEF Step
  <2> QED BY <1>6
<1> HIDE DEF upTo
<1>8. DOMAIN upTo = 1..N /\ \A n \in 1..N : upTo[n] = IF n = 1 THEN 0 ELSE upTo[n - 1] + add(n)
  BY <1>7
<1> DEFINE T == {k \in Nat : k + 1 \in 1..N => upTo[k + 1] = f[k + 1]}
<1>9. 0 \in T
  <2>1. upTo[0 + 1] = 0 /\ f[0 + 1] = 0 BY <1>1, <1>5, <1>8
  <2> QED BY <2>1
<1>10. ASSUME NEW k \in T PROVE k + 1 \in T
  <2> SUFFICES ASSUME (k + 1) + 1 \in 1..N PROVE upTo[(k + 1) + 1] = f[(k + 1) + 1] OBVIOUS
  <2>1. k \in Nat /\ k + 1 \in 1..N /\ (k + 1) + 1 # 1 /\ ((k + 1) + 1) - 1 = k + 1 BY <1>1
  <2>2. upTo[k + 1] = f[k + 1] BY <2>1
  <2> QED BY <1>5, <1>8, <2>1, <2>2
<1>11. T = Nat
  <2>1. T \subseteq Nat OBVIOUS
  <2> HIDE DEF T
  <2> QED BY <1>9, <1>10, <2>1, SetInduction
<1>12. upTo[N] = f[N]
  <2>1. N - 1 \in Nat /\ (N - 1) + 1 = N /\ N \in 1..N BY <1>1
  <2>2. N - 1 \in T BY <1>11, <2>1
  <2> QED BY <2>1, <2>2
<1>13. Waiting(tt, J) = upTo[N] BY DEF Waiting, upTo, Step, add, N
<1>14. Waits(J, f)
  <2>1. \A n \in 2..N : n \in 1..N /\ n # 1 BY <1>1
  <2>2. f[1] = 0 BY <1>1, <1>5
  <2>3. \A n \in 2..N : f[n] = f[n - 1] + add(n) BY <1>5, <2>1
  <2> QED BY <1>4, <2>2, <2>3 DEF Waits, add, N
<1> QED BY <1>12, <1>13, <1>14 DEF N

\* Partial journeys whose first m legs part and arrive alike wait alike up to
\* leg m.
LEMMA WaitAlike ==
  ASSUME Given, NEW J \in Seq(Rides), NEW Q \in Seq(Rides), NEW m \in Nat,
         m >= 1, m <= Len(J), m <= Len(Q),
         \A n \in 1..m : LegDep(tt, J[n]) = LegDep(tt, Q[n]),
         \A n \in 1..m - 1 : LegArr(tt, J[n]) = LegArr(tt, Q[n]),
         NEW f, NEW g, Waits(J, f), Waits(Q, g)
  PROVE  f[m] = g[m]
<1> DEFINE T == {k \in Nat : k + 1 \in 1..m => f[k + 1] = g[k + 1]}
<1>1. Len(J) \in Nat /\ Len(Q) \in Nat OBVIOUS
<1>2. 0 \in T BY DEF Waits
<1>3. ASSUME NEW k \in T PROVE k + 1 \in T
  <2> DEFINE n == (k + 1) + 1
  <2> SUFFICES ASSUME n \in 1..m PROVE f[n] = g[n] OBVIOUS
  <2>1. k \in Nat /\ k + 1 \in 1..m OBVIOUS
  <2>2. n \in 2..Len(J) /\ n \in 2..Len(Q) /\ n - 1 = k + 1 /\ n - 1 \in 1..m - 1 BY <1>1, <2>1
  <2>3. f[n - 1] = g[n - 1] BY <2>1, <2>2
  <2> HIDE DEF n
  <2>4. /\ f[n] = f[n - 1] + (LegDep(tt, J[n]) - LegArr(tt, J[n - 1]))
        /\ g[n] = g[n - 1] + (LegDep(tt, Q[n]) - LegArr(tt, Q[n - 1]))
    BY <2>2 DEF Waits
  <2> QED BY <2>2, <2>3, <2>4
<1>4. T = Nat
  <2>1. T \subseteq Nat OBVIOUS
  <2> HIDE DEF T
  <2> QED BY <1>2, <1>3, <2>1, SetInduction
<1>5. m - 1 \in Nat /\ (m - 1) + 1 = m OBVIOUS
<1>6. m - 1 \in T
  <2> HIDE DEF T
  <2> QED BY <1>4, <1>5
<1>7. m \in 1..m OBVIOUS
<1> QED BY <1>5, <1>6, <1>7

\* One leg: no waiting.  One leg more: the time until it departs.  Riding on:
\* no change.
LEMMA WaitingOfOne ==
  ASSUME Given, NEW J \in Seq(Rides), Len(J) = 1 PROVE Waiting(tt, J) = 0
<1>1. J # <<>> OBVIOUS
<1>2. PICK f : Waits(J, f) /\ Waiting(tt, J) = f[Len(J)] BY <1>1, WaitingIs
<1> QED BY <1>2 DEF Waits

LEMMA WaitingOfMore ==
  ASSUME Given, NEW J \in Seq(Rides), J # <<>>, NEW leg \in Rides
  PROVE  /\ Waiting(tt, J) \in Int
         /\ Waiting(tt, Append(J, leg)) = Waiting(tt, J) + (LegDep(tt, leg) - LegArr(tt, J[Len(J)]))
<1> DEFINE Q == Append(J, leg)
           N == Len(J)
<1>1. N \in Nat /\ N >= 1 OBVIOUS
<1>2. Q \in Seq(Rides) /\ Q # <<>> /\ Len(Q) = N + 1 /\ Q[N + 1] = leg /\ \A n \in 1..N : Q[n] = J[n]
  OBVIOUS
<1> HIDE DEF Q
<1>3. PICK f : Waits(J, f) /\ Waiting(tt, J) = f[N] BY WaitingIs
<1>4. PICK g : Waits(Q, g) /\ Waiting(tt, Q) = g[Len(Q)] BY <1>2, WaitingIs
<1>5. f[N] = g[N]
  <2>1. N <= Len(J) /\ N <= Len(Q) BY <1>1, <1>2
  <2>2. /\ \A n \in 1..N : LegDep(tt, J[n]) = LegDep(tt, Q[n])
        /\ \A n \in 1..N - 1 : LegArr(tt, J[n]) = LegArr(tt, Q[n])
    BY <1>1, <1>2
  <2> HIDE DEF N
  <2> QED BY <1>1, <1>2, <1>3, <1>4, <2>1, <2>2, WaitAlike
<1>6. g[N + 1] = g[N] + (LegDep(tt, Q[N + 1]) - LegArr(tt, Q[N]))
  <2>1. N + 1 \in 2..Len(Q) /\ (N + 1) - 1 = N BY <1>1, <1>2
  <2> QED BY <1>4, <2>1 DEF Waits
<1>7. f[N] \in Int
  <2>1. N \in 1..Len(J) BY <1>1
  <2> QED BY <1>3, <2>1 DEF Waits
<1>8. N \in 1..N BY <1>1
<1> QED BY <1>2, <1>3, <1>4, <1>5, <1>6, <1>7, <1>8 DEF Q

LEMMA WaitingOnBoard ==
  ASSUME Given, NEW J \in Seq(Rides), NEW Q \in Seq(Rides), J # <<>>, Len(Q) = Len(J),
         \A n \in 1..Len(J) : LegDep(tt, J[n]) = LegDep(tt, Q[n]),
         \A n \in 1..Len(J) - 1 : LegArr(tt, J[n]) = LegArr(tt, Q[n])
  PROVE  Waiting(tt, Q) = Waiting(tt, J)
<1>1. Q # <<>> /\ Len(J) \in Nat /\ Len(J) >= 1 /\ Len(J) <= Len(Q) /\ Len(J) <= Len(J) OBVIOUS
<1>2. PICK f : Waits(J, f) /\ Waiting(tt, J) = f[Len(J)] BY WaitingIs
<1>3. PICK g : Waits(Q, g) /\ Waiting(tt, Q) = g[Len(Q)] BY <1>1, WaitingIs
<1>4. f[Len(J)] = g[Len(J)] BY <1>1, <1>2, <1>3, WaitAlike
<1> QED BY <1>2, <1>3, <1>4

-----------------------------------------------------------------------------
(* The keys of the labels. *)

LabelRecords ==
  [kind : {"root", "onboard", "atStation"}, legs : Seq(Rides), fresh : BOOLEAN, ceiling : Int,
   key : Enumeration!Keys]

\* What the profile of the station promises a passenger who changes there.
Promised(l) == ProfileEval(profile[StationOf(l)], TimeOf(l) + TR)

\* A label's key is made of the departure and the waiting of its legs, and of
\* the bound on board, of what the profile promises, or of the arrival itself.
KeySound(l) ==
  /\ l \in LabelRecords
  /\ l.kind = "root" => l = Root
  /\ l.kind # "root" =>
       /\ l.legs # <<>>
       /\ l.key[2] = -Departure(tt, l.legs) /\ l.key[4] = Waiting(tt, l.legs)
  /\ l.kind = "onboard" =>
       /\ val[EventOf(l)][1] <= Latest
       /\ l.key[1] = val[EventOf(l)][1] /\ l.key[3] = TransfersOf(l) + val[EventOf(l)][2]
  /\ l.kind = "atStation" =>
       /\ StationOf(l) \in Stations /\ TimeOf(l) <= Latest
       /\ StationOf(l) = Destination => l.key[1] = TimeOf(l) /\ l.key[3] = TransfersOf(l)
       /\ StationOf(l) # Destination =>
            /\ Promised(l)[1] <= Latest
            /\ l.key[1] = Promised(l)[1] /\ l.key[3] = TransfersOf(l) + (Promised(l)[2] + 1)

\* A label that may be pushed in the place of another.
Follows(m, l) == KeySound(m) /\ ~Enumeration!KeyBefore(m.key, l.key)

\* A key made of a bound that is no less, and of no less waiting, is not before.
LEMMA KeysKeepUp ==
  ASSUME NEW v \in Int \X Int, NEW u \in Int \X Int, AtMost(v, u),
         NEW x \in Int, NEW t \in Int, NEW w \in Int, NEW w2 \in Int, w <= w2
  PROVE  ~Enumeration!KeyBefore(<<u[1], x, t + u[2], w2>>, <<v[1], x, t + v[2], w>>)
<1>1. v[1] \in Int /\ v[2] \in Int /\ u[1] \in Int /\ u[2] \in Int OBVIOUS
<1>2. v[1] < u[1] \/ (v[1] = u[1] /\ v[2] <= u[2]) BY DEF AtMost
<1> QED BY <1>1, <1>2 DEF Enumeration!KeyBefore

LEMMA RootSound == Root \in LabelRecords /\ KeySound(Root)
<1>1. <<>> \in Seq(Rides) OBVIOUS
<1>2. Inf \in Int /\ -Inf \in Int BY Sizes
<1>3. Root \in LabelRecords BY <1>1, <1>2 DEF Root, Label, LabelRecords, Enumeration!Keys
<1>4. Root.kind = "root" BY DEF Root, Label
<1> QED BY <1>3, <1>4 DEF KeySound

\* The leg of a label that is not the root.
LEMMA RidingFacts ==
  ASSUME Given, NEW l, KeySound(l), l.kind # "root"
  PROVE  /\ l.legs \in Seq(Rides) /\ l.legs # <<>> /\ Len(l.legs) \in Nat /\ Len(l.legs) >= 1
         /\ Riding(l) \in Rides /\ TransfersOf(l) \in Int
         /\ StationOf(l) = To(tt, Riding(l)) /\ TimeOf(l) = LegArr(tt, Riding(l)) /\ TimeOf(l) \in Int
         /\ StationOf(l) \in Stations \cup {NoStation}
         /\ Departure(tt, l.legs) \in Int /\ Waiting(tt, l.legs) \in Int
         /\ l.ceiling \in Int /\ l.key \in Enumeration!Keys
         /\ l.key = <<l.key[1], -Departure(tt, l.legs), l.key[3], Waiting(tt, l.legs)>>
<1>1. /\ l.legs \in Seq(Rides) /\ l.legs # <<>> /\ l.ceiling \in Int /\ l.key \in Enumeration!Keys
      /\ l.key[2] = -Departure(tt, l.legs) /\ l.key[4] = Waiting(tt, l.legs)
  BY DEF KeySound, LabelRecords
<1>2. /\ Len(l.legs) \in Nat /\ Len(l.legs) >= 1 /\ l.legs[Len(l.legs)] \in Rides /\ l.legs[1] \in Rides
  BY <1>1
<1>3. TransfersOf(l) \in Int BY <1>2 DEF TransfersOf
<1>4. StationOf(l) = To(tt, Riding(l)) /\ TimeOf(l) = LegArr(tt, Riding(l)) BY DEF StationOf, TimeOf
<1>5. TimeOf(l) \in Int /\ StationOf(l) \in Stations \cup {NoStation} BY <1>2, <1>4, RideFacts DEF Riding
<1>6. Departure(tt, l.legs) \in Int BY <1>2, RideFacts DEF Departure
<1>7. Waiting(tt, l.legs) \in Int BY <1>1, <1>2, WaitingOfMore
<1>8. l.key = <<l.key[1], l.key[2], l.key[3], l.key[4]>> BY <1>1 DEF Enumeration!Keys
<1> QED BY <1>1, <1>2, <1>3, <1>4, <1>5, <1>6, <1>7, <1>8 DEF Riding

\* On board, the connection that brought the label here has its bound.
LEMMA OnboardFacts ==
  ASSUME BoundsInv, NEW l, KeySound(l), l.kind = "onboard"
  PROVE  LET c == <<Riding(l).inst, Riding(l).alight - 1>> IN
         /\ c \in conns /\ Consistent(c) /\ c[1] = Riding(l).inst /\ c[2] + 2 = Riding(l).alight + 1
         /\ Val(c) = val[EventOf(l)] /\ Val(c) \in Bounds
         /\ ToOf(c) = StationOf(l) /\ ArrAt(c) = TimeOf(l) /\ TimeOf(l) <= Latest
<1> DEFINE leg == Riding(l)
           c == <<leg.inst, leg.alight - 1>>
<1>1. Given BY DEF BoundsInv
<1>2. leg \in Rides /\ StationOf(l) = To(tt, leg) /\ TimeOf(l) = LegArr(tt, leg) BY <1>1, RidingFacts
<1>3. /\ leg.alight \in Nat /\ c \in conns /\ EventOf(l) \in StopsOf(Insts)
  BY <1>1, <1>2, RideFacts DEF EventOf
<1>4. c[1] = leg.inst /\ c[2] = leg.alight - 1 /\ c[2] + 1 = leg.alight /\ c[2] + 2 = leg.alight + 1
  BY <1>3
<1>5. Val(c) = val[EventOf(l)] /\ ToOf(c) = StationOf(l) /\ ArrAt(c) = TimeOf(l)
  BY <1>2, <1>4 DEF Val, EventOf, ToOf, To, Train, ArrAt, LegArr
<1>6. val[EventOf(l)] \in Bounds BY <1>3 DEF BoundsInv, BoundTypes
<1>7. Val(c) # LexInf
  <2>1. Val(c)[1] <= Latest BY <1>5 DEF KeySound
  <2>2. LexInf[1] = Inf BY DEF LexInf
  <2> QED BY <2>1, <2>2, NumberFacts, Sizes
<1> HIDE DEF c
<1>8. Done(c) BY <1>3, <1>7 DEF BoundsInv, ScanInv
<1>9. Consistent(c) /\ ArrAt(c) <= Latest BY <1>3, <1>8 DEF BoundsInv, ScanInv, Done
<1> QED BY <1>3, <1>4, <1>5, <1>6, <1>9 DEF c

\* The ceiling that an alighting label gets is a number.
LEMMA CeilingType ==
  ASSUME BoundsInv, NEW l, KeySound(l), l.kind = "onboard"
  PROVE  Ceiling(l) \in Int
<1> DEFINE leg == Riding(l)
           stops == leg.alight + 1..Stops(leg.inst)
           ends == {m \in stops : StationAt(Train(leg.inst), m) = Destination}
<1>1. Given BY DEF BoundsInv
<1>2. leg \in Rides /\ l.ceiling \in Int BY <1>1, RidingFacts
<1>3. /\ leg.inst \in Insts /\ leg.board \in Nat /\ leg.alight \in Nat /\ Stops(leg.inst) \in Nat
      /\ leg.alight - 1 \in 1..Stops(leg.inst) - 1
  BY <1>1, <1>2, RideFacts
<1>4. Ceiling(l) = l.ceiling \/ (ends # {} /\ Ceiling(l) = Min({l.ceiling, Arr(tt, leg.inst, Min(ends))}))
  BY DEF Ceiling, Stops, Train
<1>5. CASE ends # {} /\ Ceiling(l) = Min({l.ceiling, Arr(tt, leg.inst, Min(ends))})
  <2> HIDE DEF leg
  <2>1. ends \subseteq leg.alight + 1..Stops(leg.inst) /\ leg.alight + 1 \in Int /\ Stops(leg.inst) \in Int
    BY <1>3
  <2>2. Min(ends) \in ends
    <3> HIDE DEF ends
    <3> QED BY <1>5, <2>1, MinOf
  <2>3. Min(ends) - 1 \in 1..Stops(leg.inst) - 1 /\ (Min(ends) - 1) + 1 = Min(ends) BY <1>3, <2>1, <2>2
  <2>4. \A k \in 1..Stops(leg.inst) - 1 : Arr(tt, leg.inst, k + 1) \in Int
    BY <1>1, <1>3, InstanceFacts DEF Given, Insts, Stops, Train
  <2> HIDE DEF ends
  <2>5. Arr(tt, leg.inst, (Min(ends) - 1) + 1) \in Int BY <2>3, <2>4
  <2>6. Arr(tt, leg.inst, Min(ends)) \in Int BY <2>3, <2>5
  <2> QED BY <1>2, <1>5, <2>6, MinOfTwo
<1> QED BY <1>2, <1>4, <1>5

\* Who alights gets a key that is not before the one on board: the bound on
\* board counts with arriving here and with changing here.
LEMMA AlightedFollows ==
  ASSUME BoundsInv, NEW l, KeySound(l), l.kind = "onboard"
  PROVE  Alighted(l) = <<>> \/ \E m : Alighted(l) = <<m>> /\ m.legs = l.legs /\ Follows(m, l)
<1> DEFINE st == StationOf(l)
           final == st = Destination
           on == ProfileEval(profile[st], TimeOf(l) + TR)
           bound == IF final THEN <<TimeOf(l), 0>> ELSE <<on[1], on[2] + 1>>
           top == IF final THEN l.ceiling ELSE Ceiling(l)
           key == <<bound[1], l.key[2], TransfersOf(l) + bound[2], Wait(l)>>
           m == Label("atStation", l.legs, FALSE, top, key)
           v == val[EventOf(l)]
           w == Waiting(tt, l.legs)
           dep == -Departure(tt, l.legs)
<1> SUFFICES ASSUME st # NoStation, bound[1] < top, bound[1] <= Latest PROVE Follows(m, l)
  <2>1. m.legs = l.legs BY DEF Label
  <2> HIDE DEF m
  <2>2. (Alighted(l) = <<m>> /\ st # NoStation /\ bound[1] < top /\ bound[1] <= Latest) \/ Alighted(l) = <<>>
    BY DEF Alighted, m
  <2> QED BY <2>1, <2>2
<1>1. Given BY DEF BoundsInv
<1>2. /\ l.legs \in Seq(Rides) /\ l.legs # <<>> /\ TransfersOf(l) \in Int
      /\ st \in Stations \cup {NoStation} /\ TimeOf(l) \in Int
      /\ dep \in Int /\ w \in Int /\ l.ceiling \in Int
      /\ l.key = <<l.key[1], dep, l.key[3], w>>
  BY <1>1, RidingFacts
<1> DEFINE c == <<Riding(l).inst, Riding(l).alight - 1>>
<1>3. /\ Consistent(c) /\ Val(c) = v /\ Val(c) \in Bounds /\ ToOf(c) = st /\ ArrAt(c) = TimeOf(l)
      /\ TimeOf(l) <= Latest
  BY OnboardFacts
<1>4. l.key[1] = v[1] /\ l.key[3] = TransfersOf(l) + v[2] BY DEF KeySound
<1>5. v \in Int \X Int BY <1>3, BoundsArePairs
<1>6. top \in Int BY <1>2, CeilingType
<1>7. st \in Stations /\ TR \in Nat /\ TimeOf(l) + TR \in Int BY <1>2, NumberFacts
<1>8. profile[st] \in Profiles BY <1>7 DEF BoundsInv, BoundTypes
<1>9. on \in Bounds /\ on \in Int \X Int BY <1>7, <1>8, EvalType, BoundsArePairs
<1> HIDE DEF on, c, v, w, dep
<1>10. bound \in Int \X Int /\ AtMost(v, bound)
  <2>1. CASE final
    <3>1. bound = <<TimeOf(l), 0>> BY <2>1
    <3>2. AtMost(v, <<TimeOf(l), 0>>) BY <1>3, <2>1 DEF Consistent
    <3>3. <<TimeOf(l), 0>> \in Int \X Int BY <1>2
    <3> HIDE DEF bound
    <3> QED BY <3>1, <3>2, <3>3
  <2>2. CASE ~final
    <3>1. bound = <<on[1], on[2] + 1>> BY <2>2
    <3>2. AtMost(v, PlusTransfer(on)) BY <1>3, <1>7, <2>2 DEF Consistent, on
    <3>3. AtMost(PlusTransfer(on), <<on[1], on[2] + 1>>) /\ PlusTransfer(on) \in Bounds BY <1>9, PlusIsMore
    <3>4. PlusTransfer(on) \in Int \X Int /\ <<on[1], on[2] + 1>> \in Int \X Int
      BY <1>9, <3>3, BoundsArePairs
    <3> HIDE DEF bound
    <3> QED BY <1>5, <3>1, <3>2, <3>3, <3>4, AtMostOrder
  <2> QED BY <2>1, <2>2
<1>11. Wait(l) = w /\ l.key[2] = dep BY <1>2 DEF Wait
<1>12. key = <<bound[1], dep, TransfersOf(l) + bound[2], w>>
  <2> HIDE DEF bound
  <2> QED BY <1>11
<1>13. l.key = <<v[1], dep, TransfersOf(l) + v[2], w>> BY <1>2, <1>4
<1>14. ~Enumeration!KeyBefore(key, l.key)
  <2> DEFINE t == TransfersOf(l)
  <2>1. w \in Int /\ w <= w /\ dep \in Int /\ t \in Int BY <1>2
  <2>2. v \in Int \X Int /\ bound \in Int \X Int /\ AtMost(v, bound) BY <1>5, <1>10
  <2> HIDE DEF bound, key
  <2>3. key = <<bound[1], dep, t + bound[2], w>> /\ l.key = <<v[1], dep, t + v[2], w>> BY <1>12, <1>13
  <2> HIDE DEF t
  <2>4. ~Enumeration!KeyBefore(<<bound[1], dep, t + bound[2], w>>, <<v[1], dep, t + v[2], w>>)
    BY <2>1, <2>2, KeysKeepUp
  <2> QED BY <2>3, <2>4
<1>15. key \in Enumeration!Keys
  <2> HIDE DEF bound, key
  <2> QED BY <1>2, <1>10, <1>12 DEF Enumeration!Keys
<1>16. /\ m.kind = "atStation" /\ m.legs = l.legs /\ m.fresh = FALSE /\ m.ceiling = top /\ m.key = key
       /\ m = [kind |-> "atStation", legs |-> l.legs, fresh |-> FALSE, ceiling |-> top, key |-> key]
  BY DEF Label
<1>17. m \in LabelRecords
  <2> HIDE DEF bound, top, key, m
  <2> QED BY <1>2, <1>6, <1>15, <1>16 DEF LabelRecords
<1>18. StationOf(m) = st /\ TimeOf(m) = TimeOf(l) /\ TransfersOf(m) = TransfersOf(l)
  <2>1. l.kind # "root" OBVIOUS
  <2> HIDE DEF m
  <2> QED BY <1>16, <2>1 DEF StationOf, TimeOf, TransfersOf, Riding
<1>19. Promised(m) = on BY <1>18 DEF Promised, on
<1>20. m.key[2] = dep /\ m.key[4] = w /\ m.key[1] = bound[1] /\ m.key[3] = TransfersOf(l) + bound[2]
  <2> HIDE DEF bound, key, m
  <2> QED BY <1>12, <1>16
<1>21. final => bound[1] = TimeOf(l) /\ TransfersOf(l) + bound[2] = TransfersOf(l)
  BY <1>2
<1>22. ~final => bound[1] = on[1] /\ bound[2] = on[2] + 1 OBVIOUS
<1>23. bound[1] <= Latest OBVIOUS
<1>24. KeySound(m)
  <2>1. m.key[2] = -Departure(tt, m.legs) /\ m.key[4] = Waiting(tt, m.legs)
    BY <1>16, <1>20 DEF dep, w
  <2> HIDE DEF bound, key, m, top
  <2>2. StationOf(m) = Destination => m.key[1] = TimeOf(m) /\ m.key[3] = TransfersOf(m)
    BY <1>18, <1>20, <1>21
  <2>3. StationOf(m) # Destination =>
          Promised(m)[1] <= Latest /\ m.key[1] = Promised(m)[1] /\ m.key[3] = TransfersOf(m) + (Promised(m)[2] + 1)
    BY <1>18, <1>19, <1>20, <1>22, <1>23
  <2> QED BY <1>2, <1>3, <1>7, <1>16, <1>17, <1>18, <2>1, <2>2, <2>3 DEF KeySound
<1> QED BY <1>14, <1>16, <1>24 DEF Follows

\* Who rides on gets a key that is not before the one here: the bound is no less
\* at the next stop.
LEMMA RiddenFollows ==
  ASSUME BoundsInv, NEW l, KeySound(l), l.kind = "onboard"
  PROVE  Ridden(l) = <<>> \/ \E m : Ridden(l) = <<m>> /\ Follows(m, l)
<1> DEFINE leg == Riding(l)
           k == leg.alight + 1
           N == Len(l.legs)
           v == val[EventOf(l)]
           u == val[<<leg.inst, k>>]
           J == [l.legs EXCEPT ![N].alight = k]
           key == <<u[1], l.key[2], TransfersOf(l) + u[2], Wait(l)>>
           m == Label("onboard", J, FALSE, l.ceiling, key)
           w == Waiting(tt, l.legs)
           dep == -Departure(tt, l.legs)
<1> SUFFICES ASSUME k <= Stops(leg.inst), u[1] <= Latest PROVE Follows(m, l)
  <2> HIDE DEF m
  <2>1. (Ridden(l) = <<m>> /\ k <= Stops(leg.inst) /\ u[1] <= Latest) \/ Ridden(l) = <<>>
    BY DEF Ridden, m, Stops, Train
  <2> QED BY <2>1
<1>1. Given BY DEF BoundsInv
<1>2. /\ l.legs \in Seq(Rides) /\ l.legs # <<>> /\ TransfersOf(l) \in Int /\ N \in Nat /\ N >= 1
      /\ leg \in Rides /\ leg = l.legs[N]
      /\ dep \in Int /\ w \in Int /\ l.ceiling \in Int
      /\ l.key = <<l.key[1], dep, l.key[3], w>>
  BY <1>1, RidingFacts DEF Riding
<1>3. /\ leg \in [inst : Insts, board : Nat, alight : Nat]
      /\ leg.inst \in Insts /\ leg.board \in Nat /\ leg.alight \in Nat /\ Stops(leg.inst) \in Nat
      /\ leg.board <= leg.alight - 1 /\ leg.board >= 1 /\ LegDep(tt, leg) >= QueryTime
  BY <1>1, <1>2, RideFacts DEF Rides
<1> DEFINE longer == [leg EXCEPT !.alight = k]
<1>4. longer \in Rides /\ LegDep(tt, longer) = LegDep(tt, leg) /\ longer.inst = leg.inst
      /\ longer.alight = k /\ longer.board = leg.board
  <2> HIDE DEF leg
  <2>1. longer \in [inst : Insts, board : Nat, alight : Nat] BY <1>3
  <2>2. longer.inst = leg.inst /\ longer.board = leg.board /\ longer.alight = k BY <1>3
  <2>3. LegDep(tt, longer) = LegDep(tt, leg) BY <2>2 DEF LegDep
  <2>4. leg.board < k BY <1>3
  <2> QED BY <1>3, <2>1, <2>2, <2>3, <2>4 DEF Rides
<1>5. J \in Seq(Rides) /\ Len(J) = N /\ J[N] = longer /\ \A n \in 1..N - 1 : J[n] = l.legs[n]
  <2>1. J = [l.legs EXCEPT ![N] = longer] BY <1>2
  <2>2. N \in 1..N /\ N \in DOMAIN l.legs BY <1>2
  <2>3. \A n \in 1..N - 1 : n \in DOMAIN l.legs /\ n # N BY <1>2
  <2> HIDE DEF J, longer, leg
  <2> QED BY <1>2, <1>4, <2>1, <2>2, <2>3
<1> HIDE DEF J
<1>6. J # <<>> BY <1>2, <1>5
<1>7. \A n \in 1..N : LegDep(tt, l.legs[n]) = LegDep(tt, J[n])
  <2> SUFFICES ASSUME NEW n \in 1..N PROVE LegDep(tt, l.legs[n]) = LegDep(tt, J[n]) OBVIOUS
  <2>1. CASE n = N BY <1>2, <1>4, <1>5, <2>1
  <2>2. CASE n # N
    <3>1. n \in 1..N - 1 BY <1>2, <2>2
    <3> QED BY <1>5, <3>1
  <2> QED BY <2>1, <2>2
<1>8. Waiting(tt, J) = w
  <2>1. \A n \in 1..N - 1 : LegArr(tt, l.legs[n]) = LegArr(tt, J[n]) BY <1>5
  <2> QED BY <1>1, <1>2, <1>5, <1>7, <2>1, WaitingOnBoard
<1>9. -Departure(tt, J) = dep
  <2>1. 1 \in 1..N BY <1>2
  <2>2. LegDep(tt, l.legs[1]) = LegDep(tt, J[1]) BY <1>7, <2>1
  <2> QED BY <2>2 DEF Departure
<1> DEFINE c == <<leg.inst, leg.alight - 1>>
<1>10. /\ c \in conns /\ Consistent(c) /\ Val(c) = v /\ Val(c) \in Bounds /\ c[1] = leg.inst /\ c[2] + 2 = k
  BY OnboardFacts
<1>11. u \in Bounds
  <2>1. <<leg.inst, k>> \in StopsOf(Insts)
    <3>1. k \in 1..Stops(leg.inst) BY <1>3
    <3> QED BY <1>3, <3>1 DEF StopsOf, Stops, Train
  <2> QED BY <2>1 DEF BoundsInv, BoundTypes
<1>12. AtMost(v, u)
  <2> HIDE DEF c, leg, v, k
  <2> QED BY <1>10 DEF Consistent, u
<1>13. l.key[1] = v[1] /\ l.key[3] = TransfersOf(l) + v[2] BY DEF KeySound
<1>14. v \in Int \X Int /\ u \in Int \X Int /\ u[1] \in Int /\ u[2] \in Int BY <1>10, <1>11, BoundsArePairs
<1> HIDE DEF v, u, w, dep, leg
<1>15. Wait(l) = w /\ l.key[2] = dep BY <1>2 DEF Wait
<1>16. key = <<u[1], dep, TransfersOf(l) + u[2], w>> BY <1>15
<1>17. l.key = <<v[1], dep, TransfersOf(l) + v[2], w>> BY <1>2, <1>13
<1>18. ~Enumeration!KeyBefore(key, l.key)
  <2> DEFINE t == TransfersOf(l)
  <2>1. w \in Int /\ w <= w /\ dep \in Int /\ t \in Int BY <1>2
  <2>2. v \in Int \X Int /\ u \in Int \X Int BY <1>14
  <2>3. key = <<u[1], dep, t + u[2], w>> /\ l.key = <<v[1], dep, t + v[2], w>> BY <1>16, <1>17
  <2> HIDE DEF key, t
  <2>4. ~Enumeration!KeyBefore(<<u[1], dep, t + u[2], w>>, <<v[1], dep, t + v[2], w>>)
    BY <1>12, <2>1, <2>2, KeysKeepUp
  <2> QED BY <2>3, <2>4
<1>19. key \in Enumeration!Keys
  <2> HIDE DEF key
  <2> QED BY <1>2, <1>14, <1>16 DEF Enumeration!Keys
<1>20. /\ m.kind = "onboard" /\ m.legs = J /\ m.fresh = FALSE /\ m.ceiling = l.ceiling /\ m.key = key
       /\ m = [kind |-> "onboard", legs |-> J, fresh |-> FALSE, ceiling |-> l.ceiling, key |-> key]
  BY DEF Label
<1>21. m \in LabelRecords
  <2> HIDE DEF key, m
  <2> QED BY <1>2, <1>5, <1>19, <1>20 DEF LabelRecords
<1>22. EventOf(m) = <<leg.inst, k>> /\ TransfersOf(m) = TransfersOf(l)
  <2> HIDE DEF m, k
  <2> QED BY <1>4, <1>5, <1>20 DEF EventOf, TransfersOf, Riding
<1>23. m.key[2] = dep /\ m.key[4] = w /\ m.key[1] = u[1] /\ m.key[3] = TransfersOf(l) + u[2]
  <2> HIDE DEF key, m
  <2> QED BY <1>16, <1>20
<1>24. KeySound(m)
  <2>1. m.key[2] = -Departure(tt, m.legs) /\ m.key[4] = Waiting(tt, m.legs)
    BY <1>8, <1>9, <1>20, <1>23
  <2>2. val[EventOf(m)] = u BY <1>22 DEF u
  <2> HIDE DEF key, m
  <2> QED BY <1>6, <1>20, <1>21, <1>22, <1>23, <2>1, <2>2 DEF KeySound
<1> QED BY <1>18, <1>20, <1>24 DEF Follows

\* A departure that a label may board.
LEMMA BoardableFacts ==
  ASSUME BoundsInv, NEW l, KeySound(l), l.kind = "root" \/ l.kind = "atStation",
         NEW c \in Boardable(l)
  PROVE  /\ c \in conns /\ FromOf(c) = StationOf(l) /\ StationOf(l) \in Stations
         /\ Dep(tt, c[1], c[2]) = DepAt(c) /\ DepAt(c) \in Nat /\ DepAt(c) >= QueryTime
         /\ l.kind = "root" => DepAt(c) <= LastFirstDeparture /\ DepAt(c) <= Latest
         /\ l.kind = "atStation" => DepAt(c) >= TimeOf(l) + TR
         /\ c[1][1] \notin ChainTrains(l) /\ ToOf(c) \notin ChainStations(l)
         /\ val[<<c[1], c[2] + 1>>] = Val(c) /\ Val(c) \in Bounds /\ Val(c)[1] <= Latest /\ Consistent(c)
         /\ [inst |-> c[1], board |-> c[2], alight |-> c[2] + 1] \in Rides
<1> DEFINE lo == IF l.kind = "root" THEN QueryTime ELSE TimeOf(l) + TR
           hi == IF l.kind = "root" THEN Min({LastFirstDeparture, Latest}) ELSE Latest
<1>1. Given BY DEF BoundsInv
<1>2. c \in DeparturesIn(tt, conns, StationOf(l), lo, hi)
  <2> HIDE DEF lo, hi
  <2> QED BY DEF Boardable, lo, hi
<1>3. /\ c[1][1] \notin ChainTrains(l) /\ ToOf(c) \notin ChainStations(l)
      /\ val[<<c[1], c[2] + 1>>] = Val(c) /\ Val(c)[1] <= Latest
  BY DEF Boardable, ToOf, Val, Train
<1>4. c \in conns /\ FromOf(c) = StationOf(l) /\ DepAt(c) \in lo..hi
  <2> HIDE DEF lo, hi
  <2> QED BY <1>2 DEF DeparturesIn, FromOf, DepAt, Train
<1>5. /\ c[1] \in Insts /\ c[2] \in 1..Stops(c[1]) - 1 /\ Stops(c[1]) \in Nat
      /\ DepAt(c) \in Nat /\ <<c[1], c[2] + 1>> \in StopsOf(Insts)
  BY <1>1, <1>4, ConnFacts
<1>6. StationOf(l) \in Stations
  <2>1. CASE l.kind = "root" BY <2>1, NumberFacts DEF StationOf
  <2>2. CASE l.kind = "atStation" BY <2>2 DEF KeySound
  <2> QED BY <2>1, <2>2
<1>7. Val(c) \in Bounds BY <1>5 DEF BoundsInv, BoundTypes, Val
<1>8. Consistent(c)
  <2>1. LexInf[1] = Inf BY DEF LexInf
  <2>2. Val(c) # LexInf BY <1>3, <2>1, NumberFacts, Sizes
  <2> QED BY <1>4, <2>2 DEF BoundsInv, ScanInv
<1>9. l.kind = "root" => DepAt(c) >= QueryTime /\ DepAt(c) <= LastFirstDeparture /\ DepAt(c) <= Latest
  <2> SUFFICES ASSUME l.kind = "root"
               PROVE  DepAt(c) >= QueryTime /\ DepAt(c) <= LastFirstDeparture /\ DepAt(c) <= Latest
    OBVIOUS
  <2>1. DepAt(c) \in QueryTime..Min({LastFirstDeparture, Latest}) BY <1>4
  <2>2. LastFirstDeparture \in Int /\ Latest \in Int /\ QueryTime \in Int BY NumberFacts
  <2>3. /\ Min({LastFirstDeparture, Latest}) \in Int
        /\ Min({LastFirstDeparture, Latest}) <= LastFirstDeparture /\ Min({LastFirstDeparture, Latest}) <= Latest
    BY <2>2, MinOfTwo
  <2> QED BY <1>5, <2>1, <2>2, <2>3
<1>10. l.kind = "atStation" => DepAt(c) >= TimeOf(l) + TR /\ DepAt(c) >= QueryTime
  <2> SUFFICES ASSUME l.kind = "atStation" PROVE DepAt(c) >= TimeOf(l) + TR /\ DepAt(c) >= QueryTime
    OBVIOUS
  <2>1. Riding(l) \in Rides /\ TimeOf(l) = LegArr(tt, Riding(l)) BY <1>1, RidingFacts
  <2>2. /\ LegDep(tt, Riding(l)) \in Int /\ LegArr(tt, Riding(l)) \in Int
        /\ LegDep(tt, Riding(l)) >= QueryTime /\ LegDep(tt, Riding(l)) <= LegArr(tt, Riding(l))
    BY <1>1, <2>1, RideFacts
  <2>3. DepAt(c) \in TimeOf(l) + TR..Latest BY <1>4
  <2>4. Latest \in Int /\ TR \in Nat /\ QueryTime \in Nat BY NumberFacts
  <2> QED BY <1>5, <2>1, <2>2, <2>3, <2>4
<1>11. Dep(tt, c[1], c[2]) = DepAt(c) BY DEF DepAt
<1>12. [inst |-> c[1], board |-> c[2], alight |-> c[2] + 1] \in Rides
  <2> DEFINE leg == [inst |-> c[1], board |-> c[2], alight |-> c[2] + 1]
  <2>1. leg \in [inst : Insts, board : Nat, alight : Nat] /\ leg.inst = c[1] /\ leg.board = c[2] /\ leg.alight = c[2] + 1
    BY <1>5
  <2>2. LegDep(tt, leg) >= QueryTime BY <1>9, <1>10, <1>11 DEF LegDep
  <2> HIDE DEF leg
  <2>3. 1 <= leg.board /\ leg.board < leg.alight /\ leg.alight <= Stops(leg.inst) BY <1>5, <2>1
  <2>4. leg \in Rides BY <2>1, <2>2, <2>3 DEF Rides
  <2> QED BY <2>4 DEF leg
<1> QED BY <1>3, <1>4, <1>5, <1>6, <1>7, <1>8, <1>9, <1>10, <1>11, <1>12

\* Who boards gets a key that is not before: the root's key is before all, and
\* after a change the profile's promise counts with this departure.
LEMMA BoardedFollows ==
  ASSUME BoundsInv, NEW l, KeySound(l),
         l.kind = "root" \/ (l.kind = "atStation" /\ StationOf(l) # Destination),
         NEW c \in Boardable(l)
  PROVE  Follows(Boarded(l, c), l)
<1> DEFINE leg == [inst |-> c[1], board |-> c[2], alight |-> c[2] + 1]
           v == Val(c)
           J == Append(l.legs, leg)
           key == IF l.kind = "root" THEN <<v[1], -DepAt(c), v[2], 0>>
                  ELSE <<v[1], l.key[2], Len(l.legs) + v[2], Wait(l) + (DepAt(c) - TimeOf(l))>>
           m == Label("onboard", J, TRUE, l.ceiling, key)
<1>1. Given BY DEF BoundsInv
<1>2. Boarded(l, c) = m BY DEF Boarded, Val, DepAt
<1>3. /\ c \in conns /\ FromOf(c) = StationOf(l) /\ StationOf(l) \in Stations
      /\ DepAt(c) \in Nat /\ DepAt(c) >= QueryTime
      /\ l.kind = "root" => DepAt(c) <= LastFirstDeparture /\ DepAt(c) <= Latest
      /\ l.kind = "atStation" => DepAt(c) >= TimeOf(l) + TR
      /\ v \in Bounds /\ v[1] <= Latest /\ Consistent(c) /\ leg \in Rides
  BY BoardableFacts
<1>4. l.legs \in Seq(Rides) /\ Len(l.legs) \in Nat /\ l.ceiling \in Int BY DEF KeySound, LabelRecords
<1>5. /\ J \in Seq(Rides) /\ J # <<>> /\ Len(J) = Len(l.legs) + 1 /\ J[Len(J)] = leg
      /\ Len(J) - 1 = Len(l.legs)
  <2> HIDE DEF leg
  <2> QED BY <1>3, <1>4
<1>6. LegDep(tt, leg) = DepAt(c) BY DEF LegDep, DepAt
<1>7. v = <<v[1], v[2]>> /\ v[1] \in Nat /\ v[2] \in Nat /\ v \in Int \X Int BY <1>3 DEF Bounds
<1>8. /\ m.kind = "onboard" /\ m.legs = J /\ m.ceiling = l.ceiling /\ m.key = key
      /\ m = [kind |-> "onboard", legs |-> J, fresh |-> TRUE, ceiling |-> l.ceiling, key |-> key]
  BY DEF Label
<1>9. val[EventOf(m)] = v /\ TransfersOf(m) = Len(l.legs)
  <2>1. leg.inst = c[1] /\ leg.alight = c[2] + 1 BY <1>5
  <2> HIDE DEF m, J, leg
  <2>2. Riding(m) = leg /\ TransfersOf(m) = Len(l.legs) BY <1>5, <1>8 DEF TransfersOf, Riding
  <2> QED BY <2>1, <2>2 DEF EventOf, Val
<1> HIDE DEF v, leg, J
<1>10. /\ key \in Enumeration!Keys /\ ~Enumeration!KeyBefore(key, l.key)
       /\ key[1] = v[1] /\ key[3] = Len(l.legs) + v[2]
       /\ key[2] = -Departure(tt, J) /\ key[4] = Waiting(tt, J)
  <2>1. CASE l.kind = "root"
    <3>1. l.legs = <<>> /\ l.key = <<0, -Inf, 0, 0>> BY <2>1 DEF KeySound, Root, Label
    <3>2. Len(l.legs) = 0 /\ Len(J) = 1 /\ J[1] = leg BY <1>5, <3>1
    <3>3. Departure(tt, J) = DepAt(c) BY <1>6, <3>2 DEF Departure
    <3>4. Waiting(tt, J) = 0 BY <1>1, <1>5, <3>2, WaitingOfOne
    <3>5. key = <<v[1], -DepAt(c), v[2], 0>> BY <2>1
    <3>6. key \in Enumeration!Keys BY <1>3, <1>7, <3>5 DEF Enumeration!Keys
    <3>7. DepAt(c) < Inf
      <4>1. DepAt(c) <= Latest BY <1>3, <2>1
      <4> QED BY <1>3, <4>1, NumberFacts, Sizes
    <3>8. /\ key[1] = v[1] /\ key[2] = -DepAt(c) /\ l.key[1] = 0 /\ l.key[2] = -Inf
          /\ key[3] = v[2] /\ key[4] = 0
      BY <3>1, <3>5
    <3> HIDE DEF key
    <3>9. ~Enumeration!KeyBefore(key, l.key)
      <4>1. ~(key[1] < l.key[1]) BY <1>7, <3>8
      <4>2. ~(key[2] < l.key[2]) /\ key[2] # l.key[2] BY <1>3, <3>7, <3>8, Sizes
      <4> QED BY <4>1, <4>2 DEF Enumeration!KeyBefore
    <3> QED BY <1>7, <3>2, <3>3, <3>4, <3>6, <3>8, <3>9
  <2>2. CASE l.kind = "atStation" /\ StationOf(l) # Destination
    <3> DEFINE on == Promised(l)
               w == Waiting(tt, l.legs)
               w2 == Waiting(tt, J)
               dep == -Departure(tt, l.legs)
               t == Len(l.legs)
    <3>1. l.kind # "root" BY <2>2
    <3>2. /\ l.legs # <<>> /\ t >= 1 /\ Riding(l) \in Rides /\ TimeOf(l) = LegArr(tt, Riding(l))
          /\ TimeOf(l) \in Int /\ dep \in Int /\ w \in Int /\ l.key = <<l.key[1], dep, l.key[3], w>>
      BY <1>1, <3>1, RidingFacts
    <3>3. w2 = w + (DepAt(c) - TimeOf(l))
      <4>1. Waiting(tt, Append(l.legs, leg)) = Waiting(tt, l.legs) + (LegDep(tt, leg) - LegArr(tt, l.legs[Len(l.legs)]))
        BY <1>1, <1>3, <1>4, <3>2, WaitingOfMore
      <4> QED BY <1>6, <3>2, <4>1 DEF J, Riding
    <3>4. -Departure(tt, J) = dep
      <4>1. J[1] = l.legs[1] BY <1>3, <1>4, <3>2 DEF J
      <4> QED BY <4>1 DEF Departure
    <3>5. TR \in Nat /\ TR > 0 BY NumberFacts
    <3>6. w2 \in Int /\ w <= w2
      <4>1. DepAt(c) >= TimeOf(l) + TR BY <1>3, <2>2
      <4> HIDE DEF w, w2
      <4> QED BY <1>3, <3>2, <3>3, <3>5, <4>1
    <3>7. key = <<v[1], dep, t + v[2], w2>>
      <4>1. Wait(l) = w /\ l.key[2] = dep BY <3>2 DEF Wait
      <4> HIDE DEF w, w2, dep
      <4> QED BY <3>1, <3>3, <4>1
    <3>8. l.key[1] = on[1] /\ l.key[3] = TransfersOf(l) + (on[2] + 1)
      BY <2>2 DEF KeySound
    <3>9. profile[StationOf(l)] \in Profiles /\ TimeOf(l) + TR \in Int
      BY <1>3, <3>2, <3>5 DEF BoundsInv, BoundTypes
    <3>10. on \in Bounds /\ on \in Int \X Int BY <3>9, EvalType, BoundsArePairs DEF Promised
    <3>11. AtMost(on, v)
      <4>1. TimeOf(l) + TR <= DepAt(c) BY <1>3, <2>2, <3>2, <3>5
      <4> QED BY <1>3, <3>9, <4>1 DEF Consistent, Promised, v
    <3> HIDE DEF on, w, w2, dep, key
    <3>12. l.key = <<on[1], dep, t + on[2], w>>
      <4>1. on[2] \in Int BY <3>10
      <4>2. l.key[3] = t + on[2] BY <1>4, <3>8, <4>1 DEF TransfersOf
      <4> QED BY <3>2, <3>8, <4>2
    <3>13. ~Enumeration!KeyBefore(key, l.key)
      <4>1. t \in Int BY <1>4
      <4> HIDE DEF t
      <4>2. ~Enumeration!KeyBefore(<<v[1], dep, t + v[2], w2>>, <<on[1], dep, t + on[2], w>>)
        BY <1>7, <3>2, <3>6, <3>10, <3>11, <4>1, KeysKeepUp
      <4> QED BY <3>7, <3>12, <4>2
    <3>14. key \in Enumeration!Keys BY <1>4, <1>7, <3>2, <3>6, <3>7 DEF Enumeration!Keys
    <3>15. key[1] = v[1] /\ key[2] = dep /\ key[3] = t + v[2] /\ key[4] = w2 BY <3>7
    <3> QED BY <3>4, <3>13, <3>14, <3>15 DEF w2
  <2> QED BY <2>1, <2>2
<1> HIDE DEF key, m
<1>11. m \in LabelRecords BY <1>4, <1>5, <1>8, <1>10 DEF LabelRecords
<1>12. KeySound(m) BY <1>3, <1>5, <1>8, <1>9, <1>10, <1>11 DEF KeySound
<1> QED BY <1>2, <1>8, <1>10, <1>12 DEF Follows

-----------------------------------------------------------------------------
(* The departures of a label, in their order. *)

\* In a strict total order on a finite set, there is an element of each rank.
StrictOrder(R, S) ==
  /\ \A a \in S : <<a, a>> \notin R
  /\ \A a, b, c \in S : <<a, b>> \in R /\ <<b, c>> \in R => <<a, c>> \in R
  /\ \A a, b \in S : a # b => <<a, b>> \in R \/ <<b, a>> \in R
Smaller(R, S, c) == {d \in S : <<d, c>> \in R}

LEMMA RanksExist ==
  ASSUME NEW S, IsFiniteSet(S), NEW R, StrictOrder(R, S), NEW n \in 1..Cardinality(S)
  PROVE  \E c \in S : Cardinality(Smaller(R, S, c)) = n - 1
<1> DEFINE below(c) == Smaller(R, S, c)
           N == Cardinality(S)
           T == 0..N - 1
           f == [c \in S |-> Cardinality(below(c))]
<1>1. N \in Nat BY FS_CardinalityType
<1>2. \A c \in S : IsFiniteSet(below(c)) /\ Cardinality(below(c)) \in Nat
  <2> SUFFICES ASSUME NEW c \in S PROVE IsFiniteSet(below(c)) /\ Cardinality(below(c)) \in Nat OBVIOUS
  <2>1. below(c) \in SUBSET S BY DEF Smaller
  <2> HIDE DEF below
  <2> QED BY <2>1, FS_Subset, FS_CardinalityType
<1>3. \A c \in S : Cardinality(below(c)) < N
  <2> SUFFICES ASSUME NEW c \in S PROVE Cardinality(below(c)) < N OBVIOUS
  <2>1. below(c) \in SUBSET S /\ below(c) # S BY DEF Smaller, StrictOrder
  <2> HIDE DEF below
  <2>2. Cardinality(below(c)) <= N /\ Cardinality(below(c)) # N BY <2>1, FS_Subset
  <2> QED BY <1>1, <1>2, <2>2
<1>4. \A a, b \in S : <<a, b>> \in R => Cardinality(below(a)) < Cardinality(below(b))
  <2> SUFFICES ASSUME NEW a \in S, NEW b \in S, <<a, b>> \in R
               PROVE  Cardinality(below(a)) < Cardinality(below(b))
    OBVIOUS
  <2>1. below(a) \in SUBSET below(b) BY DEF Smaller, StrictOrder
  <2>2. a \in below(b) /\ a \notin below(a) BY DEF Smaller, StrictOrder
  <2> HIDE DEF below
  <2>3. /\ Cardinality(below(a)) <= Cardinality(below(b))
        /\ Cardinality(below(a)) # Cardinality(below(b))
    BY <1>2, <2>1, <2>2, FS_Subset
  <2> QED BY <1>2, <2>3
<1> HIDE DEF below
<1>5. f \in Injection(S, T)
  <2>1. f \in [S -> T] BY <1>1, <1>2, <1>3
  <2>2. ASSUME NEW a \in S, NEW b \in S, f[a] = f[b] PROVE a = b
    <3>1. Cardinality(below(a)) = Cardinality(below(b)) BY <2>2
    <3>2. ~(<<a, b>> \in R) /\ ~(<<b, a>> \in R) BY <1>2, <1>4, <3>1
    <3> QED BY <3>2 DEF StrictOrder
  <2>3. IsInjective(f)
    <3>1. DOMAIN f = S OBVIOUS
    <3> HIDE DEF f
    <3> QED BY <2>2, <3>1 DEF IsInjective
  <2> HIDE DEF f, T
  <2> QED BY <2>1, <2>3 DEF Injection
<1>6. IsFiniteSet(T) /\ Cardinality(T) = N
  <2>1. 0 \in Int /\ N - 1 \in Int /\ 0 <= N - 1 BY <1>1
  <2>2. (N - 1) - 0 + 1 = N BY <1>1
  <2> QED BY <2>1, <2>2, FS_Interval
<1>7. f \in Surjection(S, T)
  <2> HIDE DEF f, T
  <2> QED BY <1>5, <1>6, FS_Injection
<1>8. n - 1 \in T BY <1>1
<1>9. \E c \in S : f[c] = n - 1
  <2> HIDE DEF f, T
  <2> QED BY <1>7, <1>8 DEF Surjection
<1> QED BY <1>9 DEF below

\* There are finitely many connections.
LEMMA ConnectionsFinite ==
  ASSUME NEW tab \in Timetables PROVE IsFiniteSet(Connections(tab, Weekday, Horizon))
<1> DEFINE I == Instances(tab, Weekday, Horizon)
           lo == -MaxSpanDays(tab)
           hi == (Day - 1 + Horizon) \div Day
           P == (1..Len(tab)) \X (lo..hi)
           C == Connections(tab, Weekday, Horizon)
           M == MaxStops(tab)
<1>1. lo \in Int /\ hi \in Int
  <2>1. Day \in Nat /\ Horizon \in Nat /\ Day > 0 BY TimetableAssumption, QueryAssumption
  <2>2. MaxSpanDays(tab) \in Int BY MaxSpanType
  <2> QED BY <2>1, <2>2
<1>2. Len(tab) \in Nat
  <2>1. tab \in Seq(TrainRecords) BY RouterAssumption
  <2> QED BY <2>1
<1>3. I \subseteq P BY DEF Instances
<1> HIDE DEF lo, hi
<1>4. IsFiniteSet(1..Len(tab)) /\ IsFiniteSet(lo..hi)
  <2>1. 1 \in Int /\ Len(tab) \in Int BY <1>2
  <2> QED BY <1>1, <2>1, FS_Interval
<1>5. IsFiniteSet(P) BY <1>4, FS_Product
<1> HIDE DEF P, I
<1>6. IsFiniteSet(I) BY <1>3, <1>5, FS_Subset
<1>7. M \in Nat BY MaxStopsType
<1>8. IsFiniteSet(1..M)
  <2>1. 1 \in Int /\ M \in Int BY <1>7
  <2> HIDE DEF M
  <2> QED BY <2>1, FS_Interval
<1>9. C \subseteq I \X (1..M)
  <2> SUFFICES ASSUME NEW c \in C PROVE c \in I \X (1..M) OBVIOUS
  <2>1. c = <<c[1], c[2]>> /\ c[1] \in I /\ c[2] \in 1..Len(tab[c[1][1]].stops) - 1
    BY ConnectionFacts DEF I
  <2>2. c[1][1] \in 1..Len(tab) /\ Len(tab[c[1][1]].stops) \in Nat BY <2>1, InstanceFacts DEF I
  <2>3. Len(tab[c[1][1]].stops) <= M BY <2>2, MaxStopsType
  <2> HIDE DEF M
  <2>4. c[2] \in 1..M BY <1>7, <2>1, <2>2, <2>3
  <2> QED BY <2>1, <2>4
<1>10. IsFiniteSet(I \X (1..M))
  <2> HIDE DEF M
  <2> QED BY <1>6, <1>8, FS_Product
<1> HIDE DEF C, M
<1>11. IsFiniteSet(C) BY <1>9, <1>10, FS_Subset
<1> QED BY <1>11 DEF C

\* The departure index lists departures one after the other.
Listed(cs) == {p \in cs \X cs : ListedBefore(tt, p[1], p[2])}

LEMMA ListingOrder ==
  ASSUME Given, NEW cs, cs \subseteq conns
  PROVE  /\ IsFiniteSet(cs) /\ StrictOrder(Listed(cs), cs)
         /\ \A c \in cs : Smaller(Listed(cs), cs, c) = {d \in cs : ListedBefore(tt, d, c)}
<1> DEFINE R == {p \in cs \X cs : ListedBefore(tt, p[1], p[2])}
<1>1. IsFiniteSet(cs)
  <2>1. IsFiniteSet(conns) BY ConnectionsFinite DEF Given
  <2> QED BY <2>1, FS_Subset
<1>2. \A a, b \in cs : <<a, b>> \in R <=> ListedBefore(tt, a, b) OBVIOUS
<1>3. \A c \in cs : /\ DepAt(c) \in Int /\ c[1][1] \in Int /\ c[2] \in Int /\ c[1][2] \in Int
                    /\ c = <<c[1], c[2]>> /\ c[1] = <<c[1][1], c[1][2]>>
                    /\ DepAt(c) = c[1][2] * Day + tt[c[1][1]].stops[c[2]].dep
                    /\ tt[c[1][1]].stops[c[2]].dep \in Int
  <2> SUFFICES ASSUME NEW c \in cs
               PROVE  /\ DepAt(c) \in Int /\ c[1][1] \in Int /\ c[2] \in Int /\ c[1][2] \in Int
                      /\ c = <<c[1], c[2]>> /\ c[1] = <<c[1][1], c[1][2]>>
                      /\ DepAt(c) = c[1][2] * Day + tt[c[1][1]].stops[c[2]].dep
                      /\ tt[c[1][1]].stops[c[2]].dep \in Int
    OBVIOUS
  <2>1. /\ c = <<c[1], c[2]>> /\ c[1] \in Insts /\ c[2] \in 1..Stops(c[1]) - 1
        /\ DepAt(c) \in Nat /\ Stops(c[1]) \in Nat
    BY ConnFacts
  <2>2. tt \in Timetables BY DEF Given
  <2>3. c[1] = <<c[1][1], c[1][2]>> /\ c[1][1] \in 1..Len(tt) /\ c[1][2] \in Int
    BY <2>1, <2>2, InstanceFacts DEF Insts
  <2>4. tt[c[1][1]].stops[c[2]].dep \in Nat
    BY <2>1, <2>2, <2>3, TrainTimes DEF Stops, Train
  <2> QED BY <2>1, <2>3, <2>4 DEF DepAt, Dep
<1>4. \A a, b \in cs : ListedBefore(tt, a, b) <=>
        \/ DepAt(a) < DepAt(b)
        \/ DepAt(a) = DepAt(b) /\ a[1][1] < b[1][1]
        \/ DepAt(a) = DepAt(b) /\ a[1][1] = b[1][1] /\ a[2] < b[2]
  BY DEF ListedBefore, DepAt
<1> HIDE DEF R
<1>5. \A a \in cs : <<a, a>> \notin R BY <1>2, <1>3, <1>4
<1>6. \A a, b, c \in cs : <<a, b>> \in R /\ <<b, c>> \in R => <<a, c>> \in R
  <2> SUFFICES ASSUME NEW a \in cs, NEW b \in cs, NEW c \in cs, ListedBefore(tt, a, b), ListedBefore(tt, b, c)
               PROVE  ListedBefore(tt, a, c)
    BY <1>2
  <2>1. DepAt(a) \in Int /\ DepAt(b) \in Int /\ DepAt(c) \in Int BY <1>3
  <2>2. a[1][1] \in Int /\ b[1][1] \in Int /\ c[1][1] \in Int BY <1>3
  <2>3. a[2] \in Int /\ b[2] \in Int /\ c[2] \in Int BY <1>3
  <2>4. \/ DepAt(a) < DepAt(b)
        \/ DepAt(a) = DepAt(b) /\ a[1][1] < b[1][1]
        \/ DepAt(a) = DepAt(b) /\ a[1][1] = b[1][1] /\ a[2] < b[2]
    BY <1>4
  <2>5. \/ DepAt(b) < DepAt(c)
        \/ DepAt(b) = DepAt(c) /\ b[1][1] < c[1][1]
        \/ DepAt(b) = DepAt(c) /\ b[1][1] = c[1][1] /\ b[2] < c[2]
    BY <1>4
  <2>6. \/ DepAt(a) < DepAt(c)
        \/ DepAt(a) = DepAt(c) /\ a[1][1] < c[1][1]
        \/ DepAt(a) = DepAt(c) /\ a[1][1] = c[1][1] /\ a[2] < c[2]
    BY <2>1, <2>2, <2>3, <2>4, <2>5
  <2> QED BY <1>4, <2>6
<1>7. \A a, b \in cs : a # b => <<a, b>> \in R \/ <<b, a>> \in R
  <2> SUFFICES ASSUME NEW a \in cs, NEW b \in cs, ~ListedBefore(tt, a, b), ~ListedBefore(tt, b, a)
               PROVE  a = b
    BY <1>2
  <2>1. DepAt(a) \in Int /\ DepAt(b) \in Int /\ a[1][1] \in Int /\ b[1][1] \in Int /\ a[2] \in Int /\ b[2] \in Int
    BY <1>3
  <2>2. DepAt(a) = DepAt(b) /\ a[1][1] = b[1][1] /\ a[2] = b[2] BY <1>4, <2>1
  <2> DEFINE x == a[1][2]
             y == b[1][2]
             e == tt[a[1][1]].stops[a[2]].dep
  <2>3. x * Day + e = y * Day + e /\ x \in Int /\ y \in Int /\ e \in Int
    BY <1>3, <2>2
  <2>4. Day \in Nat /\ Day > 0 BY TimetableAssumption
  <2>5. x = y
    <3> HIDE DEF x, y, e
    <3>1. x * Day = y * Day BY <2>3, <2>4
    <3>2. (x - y) * Day = 0 BY <2>3, <2>4, <3>1
    <3> QED BY <2>3, <2>4, <3>2
  <2> QED BY <1>3, <2>2, <2>5
<1>8. StrictOrder(R, cs) BY <1>5, <1>6, <1>7 DEF StrictOrder
<1>9. \A c \in cs : Smaller(R, cs, c) = {d \in cs : ListedBefore(tt, d, c)}
  BY <1>2 DEF Smaller
<1> QED BY <1>1, <1>8, <1>9 DEF R, Listed

LEMMA NthExists ==
  ASSUME Given, NEW cs, cs \subseteq conns, NEW n \in 1..Cardinality(cs)
  PROVE  \E c \in cs : Cardinality({d \in cs : ListedBefore(tt, d, c)}) = n - 1
<1>1. \E c \in cs : Cardinality(Smaller(Listed(cs), cs, c)) = n - 1 BY ListingOrder, RanksExist
<1> QED BY <1>1, ListingOrder

-----------------------------------------------------------------------------
(* Partial journeys are journeys as far as they go. *)

\* The first legs of a connected journey are connected.
LEMMA PrefixConnected ==
  ASSUME NEW tab, NEW S, NEW J \in Seq(S), Connected(tab, J), NEW n \in 1..Len(J),
         NEW Q \in Seq(S), Len(Q) = n, \A i \in 1..n : Q[i] = J[i]
  PROVE  Connected(tab, Q)
<1>1. /\ Len(J) \in Nat /\ DOMAIN J = 1..Len(J) /\ DOMAIN Q = 1..n /\ n \in Nat /\ n >= 1 /\ n <= Len(J)
  OBVIOUS
<1>2. Q[1] = J[1] BY <1>1
<1>3. From(tab, Q[1]) = Source /\ LegDep(tab, Q[1]) \in QueryTime..LastFirstDeparture
  BY <1>2 DEF Connected
<1>4. \A i \in 1..Len(Q) - 1 : From(tab, Q[i + 1]) = To(tab, Q[i]) /\ LegDep(tab, Q[i + 1]) >= LegArr(tab, Q[i]) + TR
  <2> SUFFICES ASSUME NEW i \in 1..n - 1
               PROVE  From(tab, Q[i + 1]) = To(tab, Q[i]) /\ LegDep(tab, Q[i + 1]) >= LegArr(tab, Q[i]) + TR
    OBVIOUS
  <2>1. i \in 1..n /\ i + 1 \in 1..n /\ i \in 1..Len(J) - 1 BY <1>1
  <2>2. Q[i] = J[i] /\ Q[i + 1] = J[i + 1] BY <2>1
  <2> QED BY <2>1, <2>2 DEF Connected
<1>5. \A x \in Calls(Q) : x \in Calls(J) /\ CalledAt(tab, Q, x) = CalledAt(tab, J, x)
  <2> SUFFICES ASSUME NEW x \in Calls(Q) PROVE x \in Calls(J) /\ CalledAt(tab, Q, x) = CalledAt(tab, J, x)
    OBVIOUS
  <2>1. PICK i \in 1..n : x \in {i} \X (Q[i].board + 1..Q[i].alight) BY <1>1 DEF Calls
  <2>2. x[1] = i /\ Q[i] = J[i] /\ i \in DOMAIN J BY <1>1, <2>1
  <2>3. x \in Calls(J) BY <2>1, <2>2 DEF Calls
  <2>4. CalledAt(tab, Q, x) = CalledAt(tab, J, x) BY <2>2 DEF CalledAt
  <2> QED BY <2>3, <2>4
<1>6. TouchesOnce(tab, Q)
  <2>1. TouchesOnce(tab, J) BY DEF Connected
  <2> QED BY <1>2, <1>5, <2>1 DEF TouchesOnce
<1>7. IsInjective([i \in DOMAIN Q |-> Q[i].inst[1]])
  <2>1. IsInjective([i \in DOMAIN J |-> J[i].inst[1]]) BY DEF Connected
  <2>2. \A i, j \in 1..Len(J) : J[i].inst[1] = J[j].inst[1] => i = j BY <1>1, <2>1 DEF IsInjective
  <2>3. \A i \in 1..n : Q[i] = J[i] /\ i \in 1..Len(J) BY <1>1
  <2>4. \A i, j \in 1..n : Q[i].inst[1] = Q[j].inst[1] => i = j BY <2>2, <2>3
  <2> QED BY <1>1, <2>4 DEF IsInjective
<1> QED BY <1>3, <1>4, <1>6, <1>7 DEF Connected

\* The enumeration finds every valid journey.
LEMMA ValidIsJourney ==
  ASSUME NEW tab \in Timetables, NEW mt \in Nat, NEW J \in Seq(UsableLegs(tab)), Valid(tab, mt, J)
  PROVE  J \in AllJourneys(tab, mt)
<1> DEFINE legs == UsableLegs(tab)
           N == Len(J)
           first(k) == SubSeq(J, 1, k)
<1>1. PICK P : Built(tab, mt, P) BY JourneysAreBuilt
<1>2. J \in Seq(legs) /\ N \in Nat /\ N >= 1 /\ N <= mt + 1 /\ Connected(tab, J) /\ To(tab, J[N]) = Destination
  <2>1. J # <<>> /\ N <= mt + 1 /\ Connected(tab, J) /\ To(tab, J[N]) = Destination BY DEF Valid
  <2>2. J \in Seq(legs) OBVIOUS
  <2> HIDE DEF legs
  <2>3. N \in Nat /\ N >= 1 BY <2>1, <2>2
  <2> QED BY <2>1, <2>2, <2>3
<1> DEFINE T == {k \in Nat : k \in 1..N => first(k) \in P[k]}
<1>3. \A k \in 1..N : /\ first(k) \in Seq(legs) /\ Len(first(k)) = k /\ \A i \in 1..k : first(k)[i] = J[i]
  <2> HIDE DEF legs
  <2> QED BY <1>2
<1>4. \A k \in 1..N : Connected(tab, first(k))
  <2> HIDE DEF legs, first
  <2> QED BY <1>2, <1>3, PrefixConnected
<1>5. 0 \in T OBVIOUS
<1>6. ASSUME NEW k \in T PROVE k + 1 \in T
  <2> SUFFICES ASSUME k + 1 \in 1..N PROVE first(k + 1) \in P[k + 1] OBVIOUS
  <2>1. k \in Nat /\ k + 1 \in 1..mt + 1 /\ J[k + 1] \in legs
    <3>1. k \in Nat /\ k + 1 \in 1..mt + 1 BY <1>2
    <3> HIDE DEF legs
    <3> QED BY <1>2, <3>1
  <2>2. CASE k = 0
    <3>1. first(1) = Append(<<>>, J[1])
      <4>1. J[1] \in legs /\ 1 \in 1..N BY <1>2, <2>1, <2>2
      <4>2. first(1) \in Seq(legs) /\ Len(first(1)) = 1 /\ first(1)[1] = J[1] BY <1>3, <4>1
      <4> HIDE DEF legs, first
      <4> QED BY <4>1, <4>2
    <3> HIDE DEF first
    <3>2. first(1) \in Extensions(tab, {<<>>}) BY <1>2, <1>4, <2>1, <2>2, <3>1 DEF Extensions
    <3>3. P[1] = Extensions(tab, {<<>>})
      <4>1. 1 \in 1..mt + 1 BY <2>1, <2>2
      <4> QED BY <1>1, <4>1 DEF Built
    <3> QED BY <2>2, <3>2, <3>3
  <2>3. CASE k # 0
    <3>1. k \in 1..N /\ k + 1 # 1 /\ (k + 1) - 1 = k BY <2>1, <2>3
    <3>2. first(k) \in P[k] BY <3>1
    <3>3. first(k + 1) = Append(first(k), J[k + 1])
      <4> HIDE DEF legs
      <4> QED BY <1>2, <2>1, <3>1
    <3> HIDE DEF first, T, legs
    <3>4. first(k + 1) \in Extensions(tab, P[k])
      <4>1. first(k + 1) \in {Append(p, l) : p \in P[k], l \in UsableLegs(tab)} BY <2>1, <3>2, <3>3 DEF legs
      <4>2. Connected(tab, first(k + 1)) BY <1>4
      <4> QED BY <4>1, <4>2 DEF Extensions
    <3>5. P[k + 1] = Extensions(tab, P[k]) BY <1>1, <2>1, <3>1 DEF Built
    <3> QED BY <3>4, <3>5
  <2> QED BY <2>2, <2>3
<1>7. T = Nat
  <2>1. T \subseteq Nat OBVIOUS
  <2> HIDE DEF T
  <2> QED BY <1>5, <1>6, <2>1, SetInduction
<1>8. first(N) \in P[N] BY <1>2, <1>7
<1>9. first(N) = J
  <2> HIDE DEF legs
  <2> QED BY <1>2
<1>10. J \in P[N] /\ N \in DOMAIN P
  <2> HIDE DEF first
  <2> QED BY <1>1, <1>2, <1>8, <1>9 DEF Built
<1> QED BY <1>1, <1>2, <1>10 DEF Built

\* A label's legs are a journey so far, within the horizon and the transfers.
ChainSound(l) ==
  /\ l.kind # "root" =>
       /\ Connected(tt, l.legs) /\ Len(l.legs) <= MaxTransfers + 1
       /\ \A n \in 1..Len(l.legs) : From(tt, l.legs[n]) \in Stations /\ LegArr(tt, l.legs[n]) <= Latest
  /\ l.kind = "atStation" /\ StationOf(l) # Destination => Len(l.legs) <= MaxTransfers

LEMMA LimitFacts == Given => MaxTransfers \in Nat /\ K \in Nat /\ K > 0
BY RouterAssumption DEF Given, MaxTransfers, K

\* No station twice, the source included.
Apart(J) ==
  \A x \in Calls(J) : CalledAt(tt, J, x) # NoStation =>
    /\ CalledAt(tt, J, x) # Source
    /\ \A y \in Calls(J) : CalledAt(tt, J, y) = CalledAt(tt, J, x) => y = x

\* One call more, at a station that has not been touched.
LEMMA OneCallMore ==
  ASSUME NEW J, NEW L, NEW z, Apart(J), From(tt, L[1]) = Source,
         \A x \in Calls(L) : x \in Calls(J) \/ x = z,
         \A x \in Calls(J) : CalledAt(tt, L, x) = CalledAt(tt, J, x),
         CalledAt(tt, L, z) # NoStation =>
           CalledAt(tt, L, z) # Source /\ \A x \in Calls(J) : CalledAt(tt, J, x) # CalledAt(tt, L, z)
  PROVE  TouchesOnce(tt, L)
<1> DEFINE at(x) == CalledAt(tt, L, x)
<1>1. SUFFICES ASSUME NEW x \in Calls(L), at(x) # NoStation
               PROVE  at(x) # Source /\ \A y \in Calls(L) : at(y) = at(x) => y = x
  BY DEF TouchesOnce
<1>2. CASE x \in Calls(J)
  <2>1. at(x) # Source BY <1>1, <1>2 DEF Apart
  <2>2. ASSUME NEW y \in Calls(L), at(y) = at(x) PROVE y = x
    <3>1. CASE y \in Calls(J) BY <1>1, <1>2, <2>2, <3>1 DEF Apart
    <3>2. CASE y = z BY <1>1, <1>2, <2>2, <3>2
    <3> QED BY <3>1, <3>2
  <2> QED BY <2>1, <2>2
<1>3. CASE x = z /\ x \notin Calls(J)
  <2>1. at(x) # Source BY <1>1, <1>3
  <2>2. ASSUME NEW y \in Calls(L), at(y) = at(x) PROVE y = x
    <3>1. y \in Calls(J) => at(y) = CalledAt(tt, J, y) OBVIOUS
    <3>2. y \notin Calls(J) BY <1>1, <1>3, <2>2, <3>1
    <3> QED BY <1>3, <3>2
  <2> QED BY <2>1, <2>2
<1> QED BY <1>2, <1>3

\* What chain_has_station looks at are the source and every station called at.
LEMMA ChainCovers ==
  ASSUME Given, NEW l, NEW J \in Seq(Rides), l.legs = J
  PROVE  /\ Source \in ChainStations(l)
         /\ \A x \in Calls(J) : CalledAt(tt, J, x) # NoStation => CalledAt(tt, J, x) \in ChainStations(l)
<1>1. Source \in ChainStations(l) BY DEF ChainStations
<1>2. ASSUME NEW x \in Calls(J), CalledAt(tt, J, x) # NoStation PROVE CalledAt(tt, J, x) \in ChainStations(l)
  <2>1. PICK n \in DOMAIN J : x \in {n} \X (J[n].board + 1..J[n].alight) BY DEF Calls
  <2>2. x[1] = n /\ x[2] \in J[n].board + 1..J[n].alight BY <2>1
  <2> DEFINE leg == J[n]
  <2>3. leg \in ToSet(l.legs) BY DEF ToSet
  <2>4. CalledAt(tt, J, x) = StationAt(tt[leg.inst[1]], x[2]) BY <2>2 DEF CalledAt
  <2> HIDE DEF leg
  <2>5. CalledAt(tt, J, x) \in {StationAt(tt[leg.inst[1]], h) : h \in leg.board..leg.alight}
    <3>1. x[2] \in leg.board..leg.alight
      <4>1. leg \in Rides BY DEF leg
      <4>2. leg.board \in Nat /\ leg.alight \in Nat BY <4>1, RideFacts
      <4>3. x[2] \in leg.board + 1..leg.alight BY <2>2 DEF leg
      <4> QED BY <4>2, <4>3
    <3> QED BY <2>4, <3>1
  <2>6. CalledAt(tt, J, x) \in StationsBetween(tt[leg.inst[1]], leg.board, leg.alight)
    BY <1>2, <2>5 DEF StationsBetween
  <2> QED BY <2>3, <2>6 DEF ChainStations
<1> QED BY <1>1, <1>2

\* Who alights has the same legs, and may still change unless this is the end.
LEMMA AlightedChains ==
  ASSUME BoundsInv, NEW l, KeySound(l), ChainSound(l), l.kind = "onboard", NEW m, Alighted(l) = <<m>>
  PROVE  ChainSound(m)
<1>1. Given BY DEF BoundsInv
<1>2. l.legs \in Seq(Rides) /\ Len(l.legs) \in Nat BY <1>1, RidingFacts
<1>3. /\ m.kind = "atStation" /\ m.legs = l.legs
      /\ StationOf(l) = Destination \/ MayChange(l)
  BY DEF Alighted, Label
<1>4. StationOf(m) = StationOf(l) BY <1>3 DEF StationOf, Riding
<1>5. StationOf(m) # Destination => Len(m.legs) <= MaxTransfers
  <2>1. MaxTransfers \in Nat BY <1>1, LimitFacts
  <2> QED BY <1>2, <1>3, <1>4, <2>1 DEF MayChange, TransfersOf
<1> QED BY <1>3, <1>5 DEF ChainSound

\* Who rides on touches one station more, which the label has not touched.
LEMMA RiddenChains ==
  ASSUME BoundsInv, NEW l, KeySound(l), ChainSound(l), l.kind = "onboard", NEW m, Ridden(l) = <<m>>, KeySound(m)
  PROVE  ChainSound(m)
<1> DEFINE J == l.legs
           N == Len(J)
           leg == Riding(l)
           k == leg.alight + 1
           L == [J EXCEPT ![N].alight = k]
           z == <<N, k>>
<1>1. Given BY DEF BoundsInv
<1>2. m.kind = "onboard" /\ m.legs = L /\ StationAt(tt[leg.inst[1]], k) \notin ChainStations(l)
  BY DEF Ridden, Label
<1>3. J \in Seq(Rides) /\ N \in Nat /\ N >= 1 /\ leg \in Rides /\ leg = J[N]
  BY <1>1, RidingFacts DEF Riding
<1>4. leg \in [inst : Insts, board : Nat, alight : Nat] /\ leg.board <= leg.alight - 1
  BY <1>1, <1>3, RideFacts DEF Rides
<1> DEFINE longer == [leg EXCEPT !.alight = k]
<1>5. longer.inst = leg.inst /\ longer.board = leg.board /\ longer.alight = k /\ leg.alight \in Nat /\ leg.board \in Nat
  <2> HIDE DEF leg
  <2> QED BY <1>4
<1>6. DOMAIN L = 1..N /\ DOMAIN J = 1..N /\ Len(L) = N /\ L[N] = longer /\ \A n \in 1..N - 1 : L[n] = J[n]
  <2>1. L = [J EXCEPT ![N] = longer] BY <1>3
  <2>2. N \in 1..N /\ DOMAIN J = 1..N BY <1>3
  <2>3. \A n \in 1..N - 1 : n \in DOMAIN J /\ n # N BY <1>3
  <2>4. DOMAIN L = 1..N BY <2>1, <2>2
  <2> HIDE DEF L, longer, leg
  <2> QED BY <1>3, <2>1, <2>2, <2>3, <2>4
<1> HIDE DEF L, J, leg, longer
<1>7. \A n \in 1..N : /\ L[n].inst = J[n].inst /\ L[n].board = J[n].board
                      /\ From(tt, L[n]) = From(tt, J[n]) /\ LegDep(tt, L[n]) = LegDep(tt, J[n])
  <2> SUFFICES ASSUME NEW n \in 1..N PROVE L[n].inst = J[n].inst /\ L[n].board = J[n].board
    BY DEF From, LegDep
  <2>1. CASE n = N BY <1>3, <1>5, <1>6, <2>1
  <2>2. CASE n # N
    <3>1. n \in 1..N - 1 BY <1>3, <2>2
    <3> QED BY <1>6, <3>1
  <2> QED BY <2>1, <2>2
<1>8. Connected(tt, J) /\ N <= MaxTransfers + 1 /\ \A n \in 1..N : From(tt, J[n]) \in Stations /\ LegArr(tt, J[n]) <= Latest
  BY DEF ChainSound, J
<1>9. From(tt, L[1]) = Source /\ LegDep(tt, L[1]) \in QueryTime..LastFirstDeparture
  <2>1. 1 \in 1..N BY <1>3
  <2> QED BY <1>7, <1>8, <2>1 DEF Connected
<1>10. \A n \in 1..Len(L) - 1 : From(tt, L[n + 1]) = To(tt, L[n]) /\ LegDep(tt, L[n + 1]) >= LegArr(tt, L[n]) + TR
  <2> SUFFICES ASSUME NEW n \in 1..N - 1
               PROVE  From(tt, L[n + 1]) = To(tt, L[n]) /\ LegDep(tt, L[n + 1]) >= LegArr(tt, L[n]) + TR
    BY <1>6
  <2>1. n + 1 \in 1..N BY <1>3
  <2>2. L[n] = J[n] BY <1>6
  <2>3. From(tt, J[n + 1]) = To(tt, J[n]) /\ LegDep(tt, J[n + 1]) >= LegArr(tt, J[n]) + TR
    BY <1>8 DEF Connected
  <2> QED BY <1>7, <2>1, <2>2, <2>3
<1>11. IsInjective([n \in DOMAIN L |-> L[n].inst[1]])
  <2>1. IsInjective([n \in DOMAIN J |-> J[n].inst[1]]) BY <1>8 DEF Connected
  <2>2. \A i, j \in 1..N : J[i].inst[1] = J[j].inst[1] => i = j BY <1>6, <2>1 DEF IsInjective
  <2>3. \A i, j \in 1..N : L[i].inst[1] = L[j].inst[1] => i = j BY <1>7, <2>2
  <2> QED BY <1>6, <2>3 DEF IsInjective
<1>12. \A x \in Calls(L) : x \in Calls(J) \/ x = z
  <2> SUFFICES ASSUME NEW x \in Calls(L) PROVE x \in Calls(J) \/ x = z OBVIOUS
  <2>1. PICK n \in 1..N : x \in {n} \X (L[n].board + 1..L[n].alight) BY <1>6 DEF Calls
  <2>2. CASE n = N
    <3>1. x = <<N, x[2]>> /\ x[2] \in leg.board + 1..k BY <1>5, <1>6, <2>1, <2>2
    <3>2. x[2] = k \/ x[2] \in leg.board + 1..leg.alight BY <1>5, <3>1
    <3>3. CASE x[2] = k BY <3>1, <3>3
    <3>4. CASE x[2] \in leg.board + 1..leg.alight
      <4>1. x \in {N} \X (J[N].board + 1..J[N].alight) BY <1>3, <3>1, <3>4
      <4>2. N \in DOMAIN J BY <1>3, <1>6
      <4> QED BY <4>1, <4>2 DEF Calls
    <3> QED BY <3>2, <3>3, <3>4
  <2>3. CASE n # N
    <3>1. n \in 1..N - 1 BY <1>3, <2>3
    <3>2. x \in {n} \X (J[n].board + 1..J[n].alight) BY <1>6, <2>1, <3>1
    <3>3. n \in DOMAIN J BY <1>6
    <3> QED BY <3>2, <3>3 DEF Calls
  <2> QED BY <2>2, <2>3
<1>13. \A x \in Calls(J) : CalledAt(tt, L, x) = CalledAt(tt, J, x)
  <2> SUFFICES ASSUME NEW x \in Calls(J) PROVE CalledAt(tt, L, x) = CalledAt(tt, J, x) OBVIOUS
  <2>1. PICK n \in 1..N : x \in {n} \X (J[n].board + 1..J[n].alight) BY <1>6 DEF Calls
  <2>2. x[1] = n BY <2>1
  <2> QED BY <1>7, <2>2 DEF CalledAt
<1>14. CalledAt(tt, L, z) \notin ChainStations(l)
  <2>1. z[1] = N /\ z[2] = k /\ L[N].inst = leg.inst BY <1>5, <1>6
  <2> QED BY <1>2, <2>1 DEF CalledAt
<1>15. Apart(J)
  <2>1. TouchesOnce(tt, J) /\ From(tt, J[1]) = Source BY <1>8 DEF Connected
  <2> QED BY <2>1 DEF TouchesOnce, Apart
<1>16. TouchesOnce(tt, L)
  <2>1. Source \in ChainStations(l) BY <1>1, <1>3, ChainCovers DEF J
  <2>2. \A x \in Calls(J) : CalledAt(tt, J, x) # NoStation => CalledAt(tt, J, x) \in ChainStations(l)
    BY <1>1, <1>3, ChainCovers DEF J
  <2>3. CalledAt(tt, L, z) # NoStation =>
          CalledAt(tt, L, z) # Source /\ \A x \in Calls(J) : CalledAt(tt, J, x) # CalledAt(tt, L, z)
    <3> DEFINE s == CalledAt(tt, L, z)
    <3> HIDE DEF s
    <3>1. s \notin ChainStations(l) BY <1>14 DEF s
    <3>2. s # NoStation => s # Source /\ \A x \in Calls(J) : CalledAt(tt, J, x) # s BY <2>1, <2>2, <3>1
    <3> QED BY <3>2 DEF s
  <2> HIDE DEF z
  <2> QED BY <1>9, <1>12, <1>13, <1>15, <2>3, OneCallMore
<1>17. Connected(tt, L) BY <1>9, <1>10, <1>11, <1>16 DEF Connected
<1>18. \A n \in 1..N : From(tt, L[n]) \in Stations /\ LegArr(tt, L[n]) <= Latest
  <2> SUFFICES ASSUME NEW n \in 1..N PROVE From(tt, L[n]) \in Stations /\ LegArr(tt, L[n]) <= Latest OBVIOUS
  <2>1. From(tt, L[n]) \in Stations BY <1>7, <1>8
  <2>2. CASE n = N
    <3>1. TimeOf(m) <= Latest BY <1>2, OnboardFacts
    <3>2. TimeOf(m) = LegArr(tt, L[N]) BY <1>2, <1>6 DEF TimeOf, Riding
    <3> QED BY <2>1, <2>2, <3>1, <3>2
  <2>3. CASE n # N
    <3>1. n \in 1..N - 1 BY <1>3, <2>3
    <3> QED BY <1>6, <1>8, <2>1, <3>1
  <2> QED BY <2>2, <2>3
<1> QED BY <1>2, <1>6, <1>8, <1>17, <1>18 DEF ChainSound

\* Who boards comes in time from where the legs so far end, on a train that they
\* do not use, and touches a station that they do not touch.
LEMMA BoardedChains ==
  ASSUME BoundsInv, NEW l, KeySound(l), ChainSound(l),
         l.kind = "root" \/ (l.kind = "atStation" /\ StationOf(l) # Destination),
         NEW c \in Boardable(l), KeySound(Boarded(l, c))
  PROVE  ChainSound(Boarded(l, c))
<1> DEFINE J == l.legs
           N == Len(J)
           leg == [inst |-> c[1], board |-> c[2], alight |-> c[2] + 1]
           L == Append(J, leg)
           m == Boarded(l, c)
           z == <<N + 1, c[2] + 1>>
<1>1. Given BY DEF BoundsInv
<1>2. m.kind = "onboard" /\ m.legs = L BY DEF Boarded, Label
<1>3. /\ c \in conns /\ FromOf(c) = StationOf(l) /\ StationOf(l) \in Stations
      /\ DepAt(c) \in Nat /\ DepAt(c) >= QueryTime /\ leg \in Rides
      /\ l.kind = "root" => DepAt(c) <= LastFirstDeparture
      /\ l.kind = "atStation" => DepAt(c) >= TimeOf(l) + TR
      /\ c[1][1] \notin ChainTrains(l) /\ ToOf(c) \notin ChainStations(l)
  BY BoardableFacts
<1>4. J \in Seq(Rides) /\ N \in Nat BY DEF KeySound, LabelRecords
<1>5. c[2] \in Int
  <2>1. c[2] \in 1..Stops(c[1]) - 1 BY <1>1, <1>3, ConnFacts
  <2> QED BY <2>1
<1>6. leg.inst = c[1] /\ leg.board = c[2] /\ leg.alight = c[2] + 1 OBVIOUS
<1> HIDE DEF leg, m
<1>7. /\ DOMAIN L = 1..N + 1 /\ DOMAIN J = 1..N /\ Len(L) = N + 1 /\ L[N + 1] = leg
      /\ \A n \in 1..N : L[n] = J[n]
  <2> HIDE DEF J
  <2> QED BY <1>3, <1>4
<1> HIDE DEF L, J
<1>8. LegDep(tt, leg) = DepAt(c) /\ From(tt, leg) = StationOf(l) BY <1>3, <1>6 DEF LegDep, DepAt, From, FromOf, Train
<1>9. ASSUME l.kind # "root"
      PROVE  /\ N >= 1 /\ To(tt, J[N]) = StationOf(l) /\ LegArr(tt, J[N]) = TimeOf(l)
             /\ Connected(tt, J) /\ N <= MaxTransfers
             /\ \A n \in 1..N : From(tt, J[n]) \in Stations /\ LegArr(tt, J[n]) <= Latest
             /\ From(tt, J[1]) = Source /\ LegDep(tt, J[1]) \in QueryTime..LastFirstDeparture
             /\ DepAt(c) >= LegArr(tt, J[N]) + TR
  <2>1. l.legs # <<>> /\ Len(l.legs) >= 1 /\ StationOf(l) = To(tt, Riding(l)) /\ TimeOf(l) = LegArr(tt, Riding(l))
    BY <1>1, <1>9, RidingFacts
  <2>2. To(tt, J[N]) = StationOf(l) /\ LegArr(tt, J[N]) = TimeOf(l) BY <2>1 DEF Riding, J
  <2>3. /\ Connected(tt, J) /\ N <= MaxTransfers
        /\ \A n \in 1..N : From(tt, J[n]) \in Stations /\ LegArr(tt, J[n]) <= Latest
    BY <1>9 DEF ChainSound, J
  <2>4. From(tt, J[1]) = Source /\ LegDep(tt, J[1]) \in QueryTime..LastFirstDeparture BY <2>3 DEF Connected
  <2>5. DepAt(c) >= LegArr(tt, J[N]) + TR BY <1>3, <1>9, <2>2
  <2> QED BY <2>1, <2>2, <2>3, <2>4, <2>5 DEF J
<1>10. l.kind = "root" => J = <<>> /\ N = 0 /\ StationOf(l) = Source
  <2> SUFFICES ASSUME l.kind = "root" PROVE J = <<>> /\ StationOf(l) = Source
    <3>1. Len(<<>>) = 0 OBVIOUS
    <3> QED BY <3>1
  <2>1. l.legs = <<>> BY DEF KeySound, Root, Label
  <2> QED BY <2>1 DEF StationOf, J
<1>11. From(tt, L[1]) = Source /\ LegDep(tt, L[1]) \in QueryTime..LastFirstDeparture
  <2>1. CASE l.kind = "root"
    <3>1. L[1] = leg BY <1>7, <1>10, <2>1
    <3>2. DepAt(c) \in QueryTime..LastFirstDeparture
      <4>1. QueryTime \in Nat /\ LastFirstDeparture \in Nat BY NumberFacts
      <4> QED BY <1>3, <2>1, <4>1
    <3> QED BY <1>8, <1>10, <2>1, <3>1, <3>2
  <2>2. CASE l.kind # "root"
    <3>1. 1 \in 1..N BY <1>4, <1>9, <2>2
    <3> QED BY <1>7, <1>9, <2>2, <3>1
  <2> QED BY <2>1, <2>2
<1>12. \A n \in 1..Len(L) - 1 : From(tt, L[n + 1]) = To(tt, L[n]) /\ LegDep(tt, L[n + 1]) >= LegArr(tt, L[n]) + TR
  <2> SUFFICES ASSUME NEW n \in 1..N
               PROVE  From(tt, L[n + 1]) = To(tt, L[n]) /\ LegDep(tt, L[n + 1]) >= LegArr(tt, L[n]) + TR
    BY <1>4, <1>7
  <2>1. l.kind # "root" BY <1>10
  <2>2. L[n] = J[n] BY <1>7
  <2>3. CASE n = N BY <1>7, <1>8, <1>9, <2>1, <2>2, <2>3
  <2>4. CASE n # N
    <3>1. n \in 1..N - 1 /\ n + 1 \in 1..N BY <1>4, <2>4
    <3>2. L[n + 1] = J[n + 1] BY <1>7, <3>1
    <3>3. From(tt, J[n + 1]) = To(tt, J[n]) /\ LegDep(tt, J[n + 1]) >= LegArr(tt, J[n]) + TR
      BY <1>9, <2>1, <3>1 DEF Connected
    <3> QED BY <2>2, <3>2, <3>3
  <2> QED BY <2>3, <2>4
<1>13. \A n \in 1..N : J[n].inst[1] # c[1][1]
  <2> SUFFICES ASSUME NEW n \in 1..N PROVE J[n].inst[1] # c[1][1] OBVIOUS
  <2>1. J[n] \in ToSet(l.legs) BY <1>7 DEF ToSet, J
  <2>2. J[n].inst[1] \in ChainTrains(l) BY <2>1 DEF ChainTrains
  <2> QED BY <1>3, <2>2
<1>14. IsInjective([n \in DOMAIN L |-> L[n].inst[1]])
  <2>1. \A i, j \in 1..N : J[i].inst[1] = J[j].inst[1] => i = j
    <3>1. CASE l.kind = "root" BY <1>10, <3>1
    <3>2. CASE l.kind # "root"
      <4>1. IsInjective([n \in DOMAIN J |-> J[n].inst[1]]) BY <1>9, <3>2 DEF Connected
      <4> QED BY <1>7, <4>1 DEF IsInjective
    <3> QED BY <3>1, <3>2
  <2>2. L[N + 1].inst[1] = c[1][1] BY <1>6, <1>7
  <2>3. \A i \in 1..N + 1 : i = N + 1 \/ i \in 1..N BY <1>4
  <2>4. \A i, j \in 1..N + 1 : L[i].inst[1] = L[j].inst[1] => i = j BY <1>7, <1>13, <2>1, <2>2, <2>3
  <2> QED BY <1>7, <2>4 DEF IsInjective
<1>15. \A x \in Calls(L) : x \in Calls(J) \/ x = z
  <2> SUFFICES ASSUME NEW x \in Calls(L) PROVE x \in Calls(J) \/ x = z OBVIOUS
  <2>1. PICK n \in 1..N + 1 : x \in {n} \X (L[n].board + 1..L[n].alight) BY <1>7 DEF Calls
  <2>2. CASE n = N + 1
    <3>1. x = <<N + 1, x[2]>> /\ x[2] \in c[2] + 1..c[2] + 1
      <4>1. x \in {N + 1} \X (L[N + 1].board + 1..L[N + 1].alight) BY <2>1, <2>2
      <4>2. L[N + 1].board = c[2] /\ L[N + 1].alight = c[2] + 1 BY <1>6, <1>7
      <4> QED BY <4>1, <4>2
    <3>2. x[2] = c[2] + 1 BY <1>5, <3>1
    <3> QED BY <3>1, <3>2
  <2>3. CASE n # N + 1
    <3>1. n \in 1..N BY <1>4, <2>3
    <3>2. x \in {n} \X (J[n].board + 1..J[n].alight) BY <1>7, <2>1, <3>1
    <3>3. n \in DOMAIN J BY <1>7, <3>1
    <3> QED BY <3>2, <3>3 DEF Calls
  <2> QED BY <2>2, <2>3
<1>16. \A x \in Calls(J) : CalledAt(tt, L, x) = CalledAt(tt, J, x)
  <2> SUFFICES ASSUME NEW x \in Calls(J) PROVE CalledAt(tt, L, x) = CalledAt(tt, J, x) OBVIOUS
  <2>1. PICK n \in 1..N : x \in {n} \X (J[n].board + 1..J[n].alight) BY <1>7 DEF Calls
  <2>2. x[1] = n BY <2>1
  <2> QED BY <1>7, <2>2 DEF CalledAt
<1>17. CalledAt(tt, L, z) \notin ChainStations(l)
  <2>1. z[1] = N + 1 /\ z[2] = c[2] + 1 /\ L[N + 1].inst = c[1] BY <1>6, <1>7
  <2> QED BY <1>3, <2>1 DEF CalledAt, ToOf, Train
<1>18. Apart(J)
  <2>1. CASE l.kind = "root"
    <3>1. Calls(J) = {} BY <1>7, <1>10, <2>1 DEF Calls
    <3> QED BY <3>1 DEF Apart
  <2>2. CASE l.kind # "root"
    <3>1. TouchesOnce(tt, J) /\ From(tt, J[1]) = Source BY <1>9, <2>2 DEF Connected
    <3> QED BY <3>1 DEF TouchesOnce, Apart
  <2> QED BY <2>1, <2>2
<1>19. TouchesOnce(tt, L)
  <2>1. Source \in ChainStations(l) BY <1>1, <1>4, ChainCovers DEF J
  <2>2. \A x \in Calls(J) : CalledAt(tt, J, x) # NoStation => CalledAt(tt, J, x) \in ChainStations(l)
    BY <1>1, <1>4, ChainCovers DEF J
  <2>3. CalledAt(tt, L, z) # NoStation =>
          CalledAt(tt, L, z) # Source /\ \A x \in Calls(J) : CalledAt(tt, J, x) # CalledAt(tt, L, z)
    <3> DEFINE s == CalledAt(tt, L, z)
    <3> HIDE DEF s
    <3>1. s \notin ChainStations(l) BY <1>17 DEF s
    <3>2. s # NoStation => s # Source /\ \A x \in Calls(J) : CalledAt(tt, J, x) # s BY <2>1, <2>2, <3>1
    <3> QED BY <3>2 DEF s
  <2> HIDE DEF z
  <2> QED BY <1>11, <1>15, <1>16, <1>18, <2>3, OneCallMore
<1>20. Connected(tt, L) BY <1>11, <1>12, <1>14, <1>19 DEF Connected
<1>21. \A n \in 1..N + 1 : From(tt, L[n]) \in Stations /\ LegArr(tt, L[n]) <= Latest
  <2> SUFFICES ASSUME NEW n \in 1..N + 1 PROVE From(tt, L[n]) \in Stations /\ LegArr(tt, L[n]) <= Latest OBVIOUS
  <2>1. CASE n = N + 1
    <3>1. TimeOf(m) <= Latest BY <1>2, OnboardFacts DEF m
    <3>2. TimeOf(m) = LegArr(tt, L[N + 1]) BY <1>2, <1>7 DEF TimeOf, Riding
    <3> QED BY <1>3, <1>7, <1>8, <2>1, <3>1, <3>2
  <2>2. CASE n # N + 1
    <3>1. n \in 1..N BY <1>4, <2>2
    <3>2. l.kind # "root" BY <1>10, <3>1
    <3> QED BY <1>7, <1>9, <3>1, <3>2
  <2> QED BY <2>1, <2>2
<1>22. Len(L) <= MaxTransfers + 1
  <2>1. MaxTransfers \in Nat BY <1>1, LimitFacts
  <2> QED BY <1>4, <1>7, <1>9, <1>10, <2>1
<1>23. ChainSound(m) BY <1>2, <1>7, <1>20, <1>21, <1>22 DEF ChainSound
<1> QED BY <1>23 DEF m
-----------------------------------------------------------------------------
(* The search is a best-first enumeration. *)

\* A label's key says what its legs and the bounds promise, and its legs are a
\* journey so far.
LabelSound(l) == KeySound(l) /\ ChainSound(l)

\* A label that may be pushed in the place of another.
Succeeds(m, l) == LabelSound(m) /\ ~Enumeration!KeyBefore(m.key, l.key)

SearchInv ==
  /\ labels \in Seq(LabelRecords) /\ open \subseteq 1..Len(labels)
  /\ \A i \in 1..Len(labels) : LabelSound(labels[i])
  /\ answer \in Seq(Seq(Rides))
  /\ phase = "scan" => labels = <<>> /\ open = {} /\ answer = <<>>

LEMMA NewLabelsSucceed ==
  ASSUME BoundsInv, NEW l, LabelSound(l)
  PROVE  /\ l.kind = "onboard" =>
              /\ Alighted(l) = <<>> \/ \E m : Alighted(l) = <<m>> /\ Succeeds(m, l)
              /\ Ridden(l) = <<>> \/ \E m : Ridden(l) = <<m>> /\ Succeeds(m, l)
         /\ l.kind = "root" \/ (l.kind = "atStation" /\ StationOf(l) # Destination) =>
              \A c \in Boardable(l) : Succeeds(Boarded(l, c), l)
<1>1. KeySound(l) /\ ChainSound(l) BY DEF LabelSound
<1>2. ASSUME l.kind = "onboard" PROVE Alighted(l) = <<>> \/ \E m : Alighted(l) = <<m>> /\ Succeeds(m, l)
  <2>1. CASE Alighted(l) = <<>> BY <2>1
  <2>2. CASE Alighted(l) # <<>>
    <3>1. PICK m : Alighted(l) = <<m>> /\ Follows(m, l) BY <1>1, <1>2, <2>2, AlightedFollows
    <3>2. ChainSound(m) BY <1>1, <1>2, <3>1, AlightedChains
    <3> QED BY <3>1, <3>2 DEF Follows, Succeeds, LabelSound
  <2> QED BY <2>1, <2>2
<1>3. ASSUME l.kind = "onboard" PROVE Ridden(l) = <<>> \/ \E m : Ridden(l) = <<m>> /\ Succeeds(m, l)
  <2>1. CASE Ridden(l) = <<>> BY <2>1
  <2>2. CASE Ridden(l) # <<>>
    <3>1. PICK m : Ridden(l) = <<m>> /\ Follows(m, l) BY <1>1, <1>3, <2>2, RiddenFollows
    <3>2. KeySound(m) BY <3>1 DEF Follows
    <3>3. ChainSound(m) BY <1>1, <1>3, <3>1, <3>2, RiddenChains
    <3> QED BY <3>1, <3>3 DEF Follows, Succeeds, LabelSound
  <2> QED BY <2>1, <2>2
<1>4. ASSUME l.kind = "root" \/ (l.kind = "atStation" /\ StationOf(l) # Destination), NEW c \in Boardable(l)
      PROVE  Succeeds(Boarded(l, c), l)
  <2>1. Follows(Boarded(l, c), l) BY <1>1, <1>4, BoardedFollows
  <2>2. KeySound(Boarded(l, c)) BY <2>1 DEF Follows
  <2>3. ChainSound(Boarded(l, c)) BY <1>1, <1>4, <2>2, BoardedChains
  <2> QED BY <2>1, <2>3 DEF Follows, Succeeds, LabelSound
<1> QED BY <1>2, <1>3, <1>4

\* The keys that wait and those of the answer, as the enumeration sees them.
Frontier == IF phase = "scan" THEN {Root.key} ELSE {labels[i].key : i \in open}
Emitted == [i \in DOMAIN answer |-> Rank(tt, answer[i])]

\* A key with the number of its label after it.
LEMMA AppendFacts ==
  ASSUME NEW S, NEW a \in Seq(S), NEW x \in S, NEW n \in Nat, Len(a) = n
  PROVE  DOMAIN Append(a, x) = 1..n + 1 /\ \A k \in 1..n : Append(a, x)[k] = a[k]
OBVIOUS

LEMMA KeyIsSequence ==
  ASSUME NEW a \in Enumeration!Keys, NEW i \in Int
  PROVE  DOMAIN Append(a, i) = 1..5 /\ \A k \in 1..4 : Append(a, i)[k] = a[k]
<1> DEFINE p == a[1]
           q == a[2]
           r == a[3]
           s == a[4]
<1>1. a = <<p, q, r, s>> /\ p \in Int /\ q \in Int /\ r \in Int /\ s \in Int
  BY DEF Enumeration!Keys
<1> HIDE DEF p, q, r, s
<1>2. <<p, q, r, s>> \in Seq(Int) /\ Len(<<p, q, r, s>>) = 4 BY <1>1
<1>3. a \in Seq(Int) /\ Len(a) = 4 /\ 4 \in Nat BY <1>1, <1>2
<1>4. DOMAIN Append(a, i) = 1..4 + 1 /\ \A k \in 1..4 : Append(a, i)[k] = a[k] BY <1>3, AppendFacts
<1> QED BY <1>4

\* The label that is taken has the least key.
LEMMA TopIsLeast ==
  ASSUME SearchInv, NEW i \in open, Top(i), NEW j \in open
  PROVE  ~Enumeration!KeyBefore(labels[j].key, labels[i].key)
<1> DEFINE a == labels[i].key
           b == labels[j].key
<1>1. i \in 1..Len(labels) /\ j \in 1..Len(labels) BY DEF SearchInv
<1>2. a \in Enumeration!Keys /\ b \in Enumeration!Keys
  BY <1>1 DEF SearchInv, LabelSound, KeySound, LabelRecords
<1> HIDE DEF a, b
<1>3. \A n \in 1..4 : a[n] \in Int /\ b[n] \in Int BY <1>2 DEF Enumeration!Keys
<1>5. CASE i = j
  <2>1. a = b BY <1>5 DEF a, b
  <2> QED BY <1>3, <2>1 DEF a, b, Enumeration!KeyBefore
<1>6. CASE i # j
  <2> DEFINE x == Append(a, i)
             y == Append(b, j)
  <2>1. Before(x, y) BY <1>6 DEF Top, a, b
  <2>2. i \in Int /\ j \in Int BY <1>1
  <2>3. /\ DOMAIN x = 1..5
        /\ x[1] = a[1] /\ x[2] = a[2] /\ x[3] = a[3] /\ x[4] = a[4]
        /\ y[1] = b[1] /\ y[2] = b[2] /\ y[3] = b[3] /\ y[4] = b[4]
    <3>1. DOMAIN x = 1..5 /\ \A k \in 1..4 : x[k] = a[k] BY <1>2, <2>2, KeyIsSequence
    <3>2. \A k \in 1..4 : y[k] = b[k] BY <1>2, <2>2, KeyIsSequence
    <3> HIDE DEF x, y
    <3> QED BY <3>1, <3>2
  <2> HIDE DEF x, y
  <2>4. PICK n \in 1..5 : x[n] < y[n] /\ \A k \in 1..n - 1 : x[k] = y[k] BY <2>1, <2>3 DEF Before
  <2>5. SUFFICES ASSUME Enumeration!KeyBefore(b, a) PROVE FALSE BY DEF a, b
  <2>6. CASE n = 1 BY <1>3, <2>3, <2>4, <2>5, <2>6 DEF Enumeration!KeyBefore
  <2>7. CASE n = 2
    <3>1. x[1] = y[1] BY <2>4, <2>7
    <3> QED BY <1>3, <2>3, <2>4, <2>5, <2>7, <3>1 DEF Enumeration!KeyBefore
  <2>8. CASE n = 3
    <3>1. x[1] = y[1] /\ x[2] = y[2] BY <2>4, <2>8
    <3> QED BY <1>3, <2>3, <2>4, <2>5, <2>8, <3>1 DEF Enumeration!KeyBefore
  <2>9. CASE n = 4
    <3>1. x[1] = y[1] /\ x[2] = y[2] /\ x[3] = y[3] BY <2>4, <2>9
    <3> QED BY <1>3, <2>3, <2>4, <2>5, <2>9, <3>1 DEF Enumeration!KeyBefore
  <2>10. CASE n = 5
    <3>1. x[1] = y[1] /\ x[2] = y[2] /\ x[3] = y[3] /\ x[4] = y[4] BY <2>4, <2>10
    <3> QED BY <1>3, <2>3, <2>5, <3>1 DEF Enumeration!KeyBefore
  <2> QED BY <2>6, <2>7, <2>8, <2>9, <2>10
<1> QED BY <1>5, <1>6

\* What a label says depends on the timetable and on the bounds only.
LEMMA LabelsKeep ==
  ASSUME tt' = tt, limits' = limits, val' = val, profile' = profile
  PROVE  /\ Rides' = Rides /\ LabelRecords' = LabelRecords
         /\ \A l : LabelSound(l)' <=> LabelSound(l)
<1>1. Rides' = Rides BY DEF Rides, Insts, Stops, Train
<1>2. LabelRecords' = LabelRecords BY <1>1 DEF LabelRecords, Enumeration!Keys
<1>3. \A l : /\ StationOf(l)' = StationOf(l) /\ TimeOf(l)' = TimeOf(l)
             /\ TransfersOf(l)' = TransfersOf(l) /\ EventOf(l)' = EventOf(l) /\ Riding(l)' = Riding(l)
  BY DEF StationOf, TimeOf, TransfersOf, EventOf, Riding
<1>4. \A l : Promised(l)' = Promised(l) BY <1>3 DEF Promised
<1>5. \A l : KeySound(l)' <=> KeySound(l) BY <1>2, <1>3, <1>4 DEF KeySound
<1>6. \A l : ChainSound(l)' <=> ChainSound(l) BY <1>3 DEF ChainSound, MaxTransfers
<1>7. \A l : LabelSound(l)' <=> LabelSound(l) BY <1>5, <1>6 DEF LabelSound
<1> QED BY <1>1, <1>2, <1>7

\* A label is taken and others, with no smaller keys, are put in its place.
LEMMA PushKeeps ==
  ASSUME BoundsInv, SearchInv, NEW i \in open, Top(i), NEW new, Push(i, new),
         new \in Seq(LabelRecords), \A n \in 1..Len(new) : Succeeds(new[n], labels[i])
  PROVE  SearchInv' /\ Enumeration!Next
<1> DEFINE key == labels[i].key
           N == Len(labels)
<1>1. /\ labels' = labels \o new /\ open' = (open \ {i}) \union (N + 1..N + Len(new))
      /\ tt' = tt /\ limits' = limits /\ answer' = answer /\ phase' = phase
      /\ val' = val /\ profile' = profile
  BY DEF Push, given, bounds
<1>2. phase = "search" BY DEF Top
<1>3. labels \in Seq(LabelRecords) /\ open \subseteq 1..N /\ N \in Nat /\ answer \in Seq(Seq(Rides))
  BY DEF SearchInv
<1>4. Len(new) \in Nat OBVIOUS
<1>5. /\ labels' \in Seq(LabelRecords) /\ Len(labels') = N + Len(new)
      /\ \A n \in 1..N : labels'[n] = labels[n]
      /\ \A n \in N + 1..N + Len(new) : n - N \in 1..Len(new) /\ labels'[n] = new[n - N]
  BY <1>1, <1>3
<1>6. LabelRecords' = LabelRecords /\ Rides' = Rides /\ \A l : LabelSound(l)' <=> LabelSound(l)
  BY <1>1, LabelsKeep
<1> HIDE DEF N
<1>7. \A n \in 1..Len(labels') : n \in 1..N \/ n \in N + 1..N + Len(new) BY <1>3, <1>4, <1>5
<1>8. \A n \in 1..Len(labels') : LabelSound(labels'[n])
  <2> SUFFICES ASSUME NEW n \in 1..Len(labels') PROVE LabelSound(labels'[n]) OBVIOUS
  <2>1. CASE n \in 1..N BY <1>5, <2>1 DEF SearchInv, N
  <2>2. CASE n \in N + 1..N + Len(new) BY <1>5, <2>2 DEF Succeeds
  <2> QED BY <1>7, <2>1, <2>2
<1>9. open' \subseteq 1..Len(labels')
  <2> SUFFICES ASSUME NEW j \in open' PROVE j \in 1..Len(labels') OBVIOUS
  <2>1. j \in 1..N \/ j \in N + 1..N + Len(new) BY <1>1, <1>3 DEF N
  <2>2. Len(labels') = N + Len(new) BY <1>5
  <2> QED BY <1>3, <1>4, <2>1, <2>2
<1>10. SearchInv'
  BY <1>1, <1>2, <1>3, <1>5, <1>6, <1>8, <1>9 DEF SearchInv
<1>11. Frontier = {labels[j].key : j \in open} /\ Frontier' = {labels'[j].key : j \in open'}
  BY <1>1, <1>2 DEF Frontier
<1>12. \A j \in open' : labels'[j].key \in Enumeration!Keys /\ ~Enumeration!KeyBefore(labels'[j].key, key)
  <2> SUFFICES ASSUME NEW j \in open'
               PROVE  labels'[j].key \in Enumeration!Keys /\ ~Enumeration!KeyBefore(labels'[j].key, key)
    OBVIOUS
  <2>1. labels'[j] \in LabelRecords BY <1>5, <1>9
  <2>2. labels'[j].key \in Enumeration!Keys BY <2>1 DEF LabelRecords
  <2>3. j \in open \/ j \in N + 1..N + Len(new) BY <1>1 DEF N
  <2>4. CASE j \in open
    <3>1. labels'[j] = labels[j] BY <1>3, <1>5, <2>4
    <3>2. ~Enumeration!KeyBefore(labels[j].key, labels[i].key) BY <2>4, TopIsLeast
    <3> QED BY <2>2, <3>1, <3>2
  <2>5. CASE j \in N + 1..N + Len(new)
    <3>1. j - N \in 1..Len(new) /\ labels'[j] = new[j - N] BY <1>5, <2>5
    <3>2. ~Enumeration!KeyBefore(new[j - N].key, labels[i].key) BY <3>1 DEF Succeeds
    <3> QED BY <2>2, <3>1, <3>2
  <2> QED BY <2>3, <2>4, <2>5
<1>13. /\ key \in Frontier /\ \A other \in Frontier : ~Enumeration!KeyBefore(other, key)
       /\ Frontier' \in SUBSET Enumeration!Keys
       /\ \A k \in Frontier' : ~Enumeration!KeyBefore(k, key)
  BY <1>11, <1>12, TopIsLeast
<1>14. Emitted' = Emitted BY <1>1 DEF Emitted
<1> HIDE DEF key
<1>15. Enumeration!Next BY <1>13, <1>14 DEF Enumeration!Next, Enumeration!Take, Frontier, Emitted
<1> QED BY <1>10, <1>15

\* Each iteration of the search keeps the labels sound and is a step of the
\* enumeration, or changes nothing that it sees.
LEMMA RidePushes ==
  ASSUME BoundsInv, SearchInv, NEW i \in open, Ride(i)
  PROVE  SearchInv' /\ Enumeration!Next
<1> DEFINE l == labels[i]
           new == Alighted(l) \o Ridden(l)
<1>1. Top(i) /\ l.kind = "onboard" /\ Push(i, new) BY DEF Ride
<1>2. LabelSound(l)
  <2>1. i \in 1..Len(labels) BY DEF SearchInv
  <2> QED BY <2>1 DEF SearchInv
<1> HIDE DEF l
<1>3. Alighted(l) = <<>> \/ \E m : Alighted(l) = <<m>> /\ Succeeds(m, l) BY <1>1, <1>2, NewLabelsSucceed
<1>4. Ridden(l) = <<>> \/ \E m : Ridden(l) = <<m>> /\ Succeeds(m, l) BY <1>1, <1>2, NewLabelsSucceed
<1> DEFINE F == {m \in LabelRecords : Succeeds(m, l)}
<1>5. \A m : Succeeds(m, l) => m \in F BY DEF Succeeds, LabelSound, KeySound
<1> HIDE DEF F
<1>6. Alighted(l) \in Seq(F)
  <2>1. CASE Alighted(l) = <<>> BY <2>1
  <2>2. CASE Alighted(l) # <<>>
    <3>1. PICK m : Alighted(l) = <<m>> /\ Succeeds(m, l) BY <1>3, <2>2
    <3>2. m \in F BY <1>5, <3>1
    <3> QED BY <3>1, <3>2
  <2> QED BY <2>1, <2>2
<1>7. Ridden(l) \in Seq(F)
  <2>1. CASE Ridden(l) = <<>> BY <2>1
  <2>2. CASE Ridden(l) # <<>>
    <3>1. PICK m : Ridden(l) = <<m>> /\ Succeeds(m, l) BY <1>4, <2>2
    <3>2. m \in F BY <1>5, <3>1
    <3> QED BY <3>1, <3>2
  <2> QED BY <2>1, <2>2
<1>8. new \in Seq(F) BY <1>6, <1>7
<1> HIDE DEF new
<1>9. \A n \in 1..Len(new) : new[n] \in F BY <1>8
<1>10. \A n \in 1..Len(new) : Succeeds(new[n], l) BY <1>9 DEF F
<1>11. new \in Seq(LabelRecords)
  <2>1. \A n \in 1..Len(new) : new[n] \in LabelRecords BY <1>9 DEF F
  <2> QED BY <1>8, <2>1
<1> QED BY <1>1, <1>10, <1>11, PushKeeps DEF l

LEMMA BoardPushes ==
  ASSUME BoundsInv, SearchInv, NEW i \in open, Board(i)
  PROVE  SearchInv' /\ Enumeration!Next
<1> DEFINE l == labels[i]
           cs == Boardable(l)
           nth(n) == CHOOSE c \in cs : Cardinality({d \in cs : ListedBefore(tt, d, c)}) = n - 1
           new == [n \in 1..Cardinality(cs) |-> Boarded(l, nth(n))]
<1>1. Top(i) /\ Push(i, new) BY DEF Board
<1>2. l.kind = "root" \/ (l.kind = "atStation" /\ StationOf(l) # Destination) BY DEF Board
<1>3. LabelSound(l)
  <2>1. i \in 1..Len(labels) BY DEF SearchInv
  <2> QED BY <2>1 DEF SearchInv
<1> HIDE DEF l
<1>4. Given BY DEF BoundsInv
<1>5. cs \subseteq conns BY <1>2, <1>3, BoardableFacts DEF LabelSound
<1> HIDE DEF cs
<1>6. Cardinality(cs) \in Nat
  <2>1. IsFiniteSet(conns) BY <1>4, ConnectionsFinite DEF Given
  <2>2. IsFiniteSet(cs) BY <1>5, <2>1, FS_Subset
  <2> QED BY <2>2, FS_CardinalityType
<1>7. \A n \in 1..Cardinality(cs) : nth(n) \in cs
  <2> SUFFICES ASSUME NEW n \in 1..Cardinality(cs) PROVE nth(n) \in cs OBVIOUS
  <2>1. \E c \in cs : Cardinality({d \in cs : ListedBefore(tt, d, c)}) = n - 1
    BY <1>4, <1>5, NthExists
  <2> QED BY <2>1
<1> HIDE DEF nth
<1>8. \A n \in 1..Cardinality(cs) : Succeeds(Boarded(l, nth(n)), l)
  BY <1>2, <1>3, <1>7, NewLabelsSucceed DEF cs
<1>9. \A n \in 1..Cardinality(cs) : Boarded(l, nth(n)) \in LabelRecords
  BY <1>8 DEF Succeeds, LabelSound, KeySound
<1>10. new \in Seq(LabelRecords) /\ Len(new) = Cardinality(cs) BY <1>6, <1>9
<1>11. \A n \in 1..Len(new) : Succeeds(new[n], l) BY <1>8, <1>10
<1> HIDE DEF new
<1> QED BY <1>1, <1>10, <1>11, PushKeeps DEF l

LEMMA PruningPushes ==
  ASSUME BoundsInv, SearchInv, NEW i \in open, PruneByCap(i)
  PROVE  SearchInv' /\ Enumeration!Next
<1>1. Top(i) /\ Push(i, <<>>) BY DEF PruneByCap
<1>2. <<>> \in Seq(LabelRecords) /\ Len(<<>>) = 0 OBVIOUS
<1>3. \A n \in 1..Len(<<>>) : Succeeds(<<>>[n], labels[i]) BY <1>2
<1> QED BY <1>1, <1>2, <1>3, PushKeeps

\* A completed journey is taken under its rank.
LEMMA CompleteEmits ==
  ASSUME BoundsInv, SearchInv, NEW i \in open, Complete(i)
  PROVE  SearchInv' /\ Enumeration!Next
<1> DEFINE l == labels[i]
           key == l.key
           J == l.legs
<1>1. /\ Top(i) /\ l.kind = "atStation" /\ StationOf(l) = Destination
      /\ answer' = answer \/ answer' = Append(answer, J)
      /\ phase' = "done" \/ phase' = phase
      /\ open' = open \ {i} /\ labels' = labels
      /\ tt' = tt /\ limits' = limits /\ val' = val /\ profile' = profile
  BY DEF Complete, given, bounds
<1>2. phase = "search" BY <1>1 DEF Top
<1>3. i \in 1..Len(labels) /\ LabelSound(l) /\ KeySound(l) /\ answer \in Seq(Seq(Rides))
  BY DEF SearchInv, LabelSound
<1>4. Given BY DEF BoundsInv
<1>5. /\ J \in Seq(Rides) /\ J # <<>> /\ TimeOf(l) = LegArr(tt, Riding(l))
      /\ key = <<key[1], -Departure(tt, J), key[3], Waiting(tt, J)>>
  <2>1. l.kind # "root" BY <1>1
  <2> HIDE DEF l
  <2> QED BY <1>3, <1>4, <2>1, RidingFacts
<1>6. key[1] = TimeOf(l) /\ key[3] = TransfersOf(l) BY <1>1, <1>3 DEF KeySound
<1>7. key = Rank(tt, J) BY <1>5, <1>6 DEF Rank, Arrival, Riding, TransfersOf
<1>8. LabelRecords' = LabelRecords /\ Rides' = Rides /\ \A m : LabelSound(m)' <=> LabelSound(m)
  BY <1>1, LabelsKeep
<1> HIDE DEF J, l
<1>9. answer' \in Seq(Seq(Rides))
  <2> DEFINE S == Seq(Rides)
  <2>1. J \in S /\ answer \in Seq(S) BY <1>3, <1>5
  <2> HIDE DEF S
  <2>2. Append(answer, J) \in Seq(S) BY <2>1
  <2>3. answer' \in Seq(S) BY <1>1, <2>1, <2>2
  <2> QED BY <2>3 DEF S
<1>10. SearchInv' BY <1>1, <1>2, <1>8, <1>9 DEF SearchInv
<1>11. Frontier = {labels[j].key : j \in open} /\ Frontier' = {labels[j].key : j \in open'}
  BY <1>1, <1>2 DEF Frontier
<1>12. \A j \in open : labels[j].key \in Enumeration!Keys /\ ~Enumeration!KeyBefore(labels[j].key, key)
  <2> SUFFICES ASSUME NEW j \in open
               PROVE  labels[j].key \in Enumeration!Keys /\ ~Enumeration!KeyBefore(labels[j].key, key)
    OBVIOUS
  <2>1. j \in 1..Len(labels) BY DEF SearchInv
  <2>2. labels[j].key \in Enumeration!Keys BY <2>1 DEF SearchInv, LabelSound, KeySound, LabelRecords
  <2>3. ~Enumeration!KeyBefore(labels[j].key, labels[i].key) BY <1>1, TopIsLeast
  <2> QED BY <2>2, <2>3 DEF l
<1>13. key \in Frontier BY <1>11 DEF l
<1>14. Emitted' \in {Emitted, Append(Emitted, key)}
  <2>1. CASE answer' = answer BY <1>1, <2>1 DEF Emitted
  <2>2. CASE answer' = Append(answer, J)
    <3>1. Len(answer) \in Nat /\ DOMAIN answer = 1..Len(answer) BY <1>3
    <3>2. /\ DOMAIN answer' = 1..Len(answer) + 1 /\ answer'[Len(answer) + 1] = J
          /\ \A n \in 1..Len(answer) : answer'[n] = answer[n]
      BY <1>3, <1>5, <2>2
    <3>3. Emitted' = [n \in 1..Len(answer) + 1 |-> Rank(tt, answer'[n])] BY <1>1, <3>2 DEF Emitted
    <3>4. Emitted = [n \in 1..Len(answer) |-> Rank(tt, answer[n])] BY <3>1 DEF Emitted
    <3> DEFINE R == {Rank(tt, Q) : Q \in Seq(Rides)}
    <3>5. \A n \in 1..Len(answer) : Rank(tt, answer[n]) \in R BY <1>3
    <3>6. key \in R BY <1>5, <1>7
    <3> HIDE DEF R
    <3>7. Emitted \in Seq(R) /\ Len(Emitted) = Len(answer) BY <3>1, <3>4, <3>5
    <3>8. /\ Append(Emitted, key) \in Seq(R) /\ Len(Append(Emitted, key)) = Len(answer) + 1
          /\ \A n \in 1..Len(answer) : Append(Emitted, key)[n] = Emitted[n]
          /\ Append(Emitted, key)[Len(answer) + 1] = key
      BY <3>6, <3>7
    <3>9. \A n \in 1..Len(answer) + 1 : Append(Emitted, key)[n] = Rank(tt, answer'[n])
      <4> SUFFICES ASSUME NEW n \in 1..Len(answer) + 1
                   PROVE  Append(Emitted, key)[n] = Rank(tt, answer'[n])
        OBVIOUS
      <4>1. CASE n = Len(answer) + 1 BY <1>7, <3>2, <3>8, <4>1
      <4>2. CASE n # Len(answer) + 1
        <5>1. n \in 1..Len(answer) BY <3>1, <4>2
        <5> QED BY <3>2, <3>4, <3>8, <5>1
      <4> QED BY <4>1, <4>2
    <3>10. Append(Emitted, key) = [n \in 1..Len(answer) + 1 |-> Rank(tt, answer'[n])]
      BY <3>8, <3>9
    <3> QED BY <3>3, <3>10
  <2> QED BY <1>1, <2>1, <2>2
<1>15. /\ \A other \in Frontier : ~Enumeration!KeyBefore(other, key)
       /\ Frontier' \in SUBSET Enumeration!Keys
       /\ \A k \in Frontier' : ~Enumeration!KeyBefore(k, key)
  BY <1>1, <1>11, <1>12
<1> HIDE DEF key
<1>16. Enumeration!Next BY <1>13, <1>14, <1>15 DEF Enumeration!Next, Enumeration!Take, Frontier, Emitted
<1> QED BY <1>10, <1>16

\* The scan and the turns of the search that the enumeration does not see.
LEMMA StartKeeps ==
  ASSUME BoundsInv, SearchInv, StartSearch
  PROVE  SearchInv' /\ Frontier' = Frontier /\ Emitted' = Emitted
<1>1. /\ phase = "scan" /\ phase' = "search" /\ labels' = <<Root>> /\ open' = {1} /\ answer' = answer
      /\ tt' = tt /\ limits' = limits /\ val' = val /\ profile' = profile
  BY DEF StartSearch, given, bounds
<1>2. LabelRecords' = LabelRecords /\ Rides' = Rides /\ \A l : LabelSound(l)' <=> LabelSound(l)
  BY <1>1, LabelsKeep
<1>3. Root \in LabelRecords /\ LabelSound(Root)
  <2>1. Root.kind = "root" BY DEF Root, Label
  <2>2. ChainSound(Root) BY <2>1 DEF ChainSound
  <2> QED BY <2>2, RootSound DEF LabelSound
<1>4. labels' \in Seq(LabelRecords) /\ Len(labels') = 1 /\ labels'[1] = Root BY <1>1, <1>3
<1>5. open' \subseteq 1..Len(labels') BY <1>1, <1>4
<1>6. \A i \in 1..Len(labels') : LabelSound(labels'[i])
  <2>1. \A i \in 1..Len(labels') : i = 1 BY <1>4
  <2> QED BY <1>3, <1>4, <2>1
<1>7. answer' \in Seq(Seq(Rides)) BY <1>1 DEF SearchInv
<1>8. SearchInv' BY <1>1, <1>2, <1>4, <1>5, <1>6, <1>7 DEF SearchInv
<1>9. Frontier' = Frontier
  <2>1. Frontier = {Root.key} BY <1>1 DEF Frontier
  <2>2. Frontier' = {labels'[j].key : j \in open'} BY <1>1 DEF Frontier
  <2>3. {labels'[j].key : j \in open'} = {labels'[1].key} BY <1>1
  <2> QED BY <1>4, <2>1, <2>2, <2>3
<1>10. Emitted' = Emitted BY <1>1 DEF Emitted
<1> QED BY <1>8, <1>9, <1>10

LEMMA QuietKeeps ==
  ASSUME BoundsInv, SearchInv, labels' = labels, open' = open, answer' = answer, tt' = tt, limits' = limits,
         phase' = "scan" <=> phase = "scan",
         phase # "scan" => val' = val /\ profile' = profile
  PROVE  SearchInv' /\ Frontier' = Frontier /\ Emitted' = Emitted
<1>1. Rides' = Rides BY DEF Rides, Insts, Stops, Train
<1>2. LabelRecords' = LabelRecords BY <1>1 DEF LabelRecords, Enumeration!Keys
<1>3. (\A i \in 1..Len(labels) : LabelSound(labels[i]))'
  <2>1. CASE phase = "scan"
    <3>1. labels' = <<>> /\ Len(labels') = 0 BY <2>1 DEF SearchInv
    <3> QED BY <3>1
  <2>2. CASE phase # "scan"
    <3>1. \A l : LabelSound(l)' <=> LabelSound(l) BY <2>2, LabelsKeep
    <3>2. \A i \in 1..Len(labels) : LabelSound(labels[i])' BY <3>1 DEF SearchInv
    <3> QED BY <3>2
  <2> QED BY <2>1, <2>2
<1>4. SearchInv' BY <1>1, <1>2, <1>3 DEF SearchInv
<1>5. Frontier' = Frontier BY DEF Frontier
<1>6. Emitted' = Emitted BY DEF Emitted
<1> QED BY <1>4, <1>5, <1>6

\* Every step of the search is a step of the enumeration or a stutter.
LEMMA StepKeepsSearch ==
  ASSUME BoundsInv, SearchInv, [Next]_vars
  PROVE  SearchInv' /\ [Enumeration!Next]_<<Frontier, Emitted>>
<1>1. ASSUME SearchInv' /\ Frontier' = Frontier /\ Emitted' = Emitted
      PROVE  SearchInv' /\ [Enumeration!Next]_<<Frontier, Emitted>>
  BY <1>1
<1>2. ASSUME NEW c \in todo, ScanConnection(c) PROVE SearchInv' /\ Frontier' = Frontier /\ Emitted' = Emitted
  <2>1. /\ labels' = labels /\ open' = open /\ answer' = answer /\ tt' = tt /\ limits' = limits
        /\ phase = "scan" /\ phase' = "scan"
    BY <1>2 DEF ScanConnection, given, search
  <2> QED BY <2>1, QuietKeeps
<1>3. CASE StartSearch BY <1>1, <1>3, StartKeeps
<1>4. CASE Stop
  <2>1. /\ labels' = labels /\ open' = open /\ answer' = answer /\ tt' = tt /\ limits' = limits
        /\ phase = "search" /\ phase' = "done" /\ val' = val /\ profile' = profile
    BY <1>4 DEF Stop, given, bounds
  <2> QED BY <1>1, <2>1, QuietKeeps
<1>5. ASSUME NEW i \in open, PruneByCap(i) \/ Complete(i) \/ Ride(i) \/ Board(i)
      PROVE  SearchInv' /\ Enumeration!Next
  BY <1>5, PruningPushes, CompleteEmits, RidePushes, BoardPushes
<1>6. CASE UNCHANGED vars
  <2>1. /\ labels' = labels /\ open' = open /\ answer' = answer /\ tt' = tt /\ limits' = limits
        /\ phase' = phase /\ val' = val /\ profile' = profile
    BY <1>6 DEF vars, given, bounds, search
  <2> QED BY <1>1, <2>1, QuietKeeps
<1> QED BY <1>1, <1>2, <1>3, <1>4, <1>5, <1>6 DEF Next

LEMMA SearchInvariant == Spec => [](BoundsInv /\ SearchInv)
<1>1. Init => BoundsInv BY InitScan DEF Init, BoundsInv
<1>2. Init => SearchInv
  <2> SUFFICES ASSUME Init PROVE SearchInv OBVIOUS
  <2>1. labels = <<>> /\ open = {} /\ answer = <<>> BY DEF Init
  <2>2. labels \in Seq(LabelRecords) /\ Len(labels) = 0 BY <2>1
  <2>3. answer \in Seq(Seq(Rides)) BY <2>1
  <2> QED BY <2>1, <2>2, <2>3 DEF SearchInv
<1>3. BoundsInv /\ SearchInv /\ [Next]_vars => BoundsInv' /\ SearchInv'
  BY StepKeepsBounds, StepKeepsSearch
<1> QED BY <1>1, <1>2, <1>3, PTL DEF Spec

\* The search implements the best-first enumeration for every timetable, query
\* and limits: it never puts in the place of a label one with a smaller key,
\* and completes a journey under its rank ("Bound is consistent, and keys are
\* monotone", README.md:378-384).
THEOREM SearchIsBestFirst == Spec => EnumerationPromise
<1>1. Init => Enumeration!Init
  <2> SUFFICES ASSUME Init PROVE Enumeration!Init OBVIOUS
  <2>1. phase = "scan" /\ answer = <<>> BY DEF Init
  <2>2. Root.key \in Enumeration!Keys BY RootSound DEF LabelRecords
  <2>3. DOMAIN answer = {} BY <2>1
  <2>4. [i \in DOMAIN answer |-> Rank(tt, answer[i])] = <<>> BY <2>3
  <2> QED BY <2>1, <2>2, <2>4 DEF Enumeration!Init
<1>2. BoundsInv /\ SearchInv /\ [Next]_vars
        => [Enumeration!Next]_<<IF phase = "scan" THEN {Root.key} ELSE {labels[i].key : i \in open},
                                [i \in DOMAIN answer |-> Rank(tt, answer[i])]>>
  BY StepKeepsSearch DEF Frontier, Emitted
<1> QED BY <1>1, <1>2, SearchInvariant, PTL DEF Spec, EnumerationPromise, Enumeration!Spec

-----------------------------------------------------------------------------
(* The answer. *)

\* The legs of a label that has reached the destination are a valid journey.
LEMMA CompletedIsJourney ==
  ASSUME BoundsInv, NEW l, LabelSound(l), l.kind = "atStation", StationOf(l) = Destination
  PROVE  l.legs \in AllJourneys(tt, MaxTransfers) /\ l.legs \in Seq(Rides)
<1> DEFINE J == l.legs
           N == Len(J)
<1>1. Given /\ KeySound(l) /\ ChainSound(l) /\ l.kind # "root" BY DEF BoundsInv, LabelSound
<1>2. J \in Seq(Rides) /\ J # <<>> /\ N \in Nat /\ N >= 1 /\ To(tt, J[N]) = Destination
  BY <1>1, RidingFacts DEF Riding
<1>3. /\ Connected(tt, J) /\ N <= MaxTransfers + 1
      /\ \A n \in 1..N : From(tt, J[n]) \in Stations /\ LegArr(tt, J[n]) <= Latest
  BY <1>1 DEF ChainSound
<1> HIDE DEF J
<1>4. tt \in Timetables /\ MaxTransfers \in Nat BY <1>1, LimitFacts DEF Given
<1>5. \A n \in 1..N : To(tt, J[n]) \in Stations
  <2> SUFFICES ASSUME NEW n \in 1..N PROVE To(tt, J[n]) \in Stations OBVIOUS
  <2>1. CASE n = N BY <1>2, <2>1, NumberFacts
  <2>2. CASE n # N
    <3>1. n \in 1..N - 1 /\ n + 1 \in 1..N BY <1>2, <2>2
    <3>2. From(tt, J[n + 1]) = To(tt, J[n]) BY <1>3, <3>1 DEF Connected
    <3> QED BY <1>3, <3>1, <3>2
  <2> QED BY <2>1, <2>2
<1>6. \A n \in 1..N : J[n] \in UsableLegs(tt)
  <2> SUFFICES ASSUME NEW n \in 1..N PROVE J[n] \in UsableLegs(tt) OBVIOUS
  <2> DEFINE leg == J[n]
             M == MaxStops(tt)
  <2>1. leg \in Rides BY <1>2
  <2>2. From(tt, leg) \in Stations /\ To(tt, leg) \in Stations /\ LegArr(tt, leg) <= Latest BY <1>3, <1>5
  <2> HIDE DEF leg
  <2>3. /\ leg \in [inst : Insts, board : Nat, alight : Nat] /\ leg.inst \in Insts
        /\ leg.board \in Nat /\ leg.alight \in Nat /\ 1 <= leg.board /\ leg.board < leg.alight
        /\ leg.alight <= Len(tt[leg.inst[1]].stops) /\ LegDep(tt, leg) >= QueryTime
        /\ leg.inst[1] \in 1..Len(tt) /\ Len(tt[leg.inst[1]].stops) \in Nat
    BY <1>1, <2>1, RideFacts DEF Rides, Stops, Train
  <2>4. M \in Nat /\ Len(tt[leg.inst[1]].stops) <= M BY <1>4, <2>3, MaxStopsType
  <2> HIDE DEF M
  <2>5. leg.board \in 1..M /\ leg.alight \in 1..M BY <2>3, <2>4
  <2>6. leg = [inst |-> leg.inst, board |-> leg.board, alight |-> leg.alight] BY <2>3
  <2>7. leg \in Legs(tt) BY <2>3, <2>5, <2>6 DEF Legs, Insts, M
  <2>8. From(tt, leg) # NoStation /\ To(tt, leg) # NoStation BY <2>2, NumberFacts
  <2> QED BY <2>2, <2>3, <2>7, <2>8 DEF UsableLegs, leg
<1>7. J \in Seq(UsableLegs(tt))
  <2> DEFINE S == UsableLegs(tt)
  <2> HIDE DEF S
  <2> QED BY <1>2, <1>6 DEF S
<1>8. Valid(tt, MaxTransfers, J)
  <2>1. DOMAIN J = 1..N BY <1>2
  <2> QED BY <1>2, <1>3, <1>6, <2>1 DEF Valid
<1> QED BY <1>2, <1>4, <1>7, <1>8, ValidIsJourney DEF J

\* No itinerary twice.
Distinct == \A i, j \in DOMAIN answer : i < j => Signature(tt, answer[i]) # Signature(tt, answer[j])
AnswerInv == AnswerValid /\ Distinct

\* A journey is added only if it is valid and its itinerary is new.
LEMMA CompleteKeepsAnswer ==
  ASSUME BoundsInv, SearchInv, AnswerInv, NEW i \in open, Complete(i)
  PROVE  AnswerInv'
<1> DEFINE l == labels[i]
           J == l.legs
           N == Len(answer)
<1>1. /\ tt' = tt /\ limits' = limits /\ l.kind = "atStation" /\ StationOf(l) = Destination
      /\ answer' = answer \/ (answer' = Append(answer, J) /\ ~Seen(J))
  BY DEF Complete, given
<1>2. LabelSound(l) /\ answer \in Seq(Seq(Rides))
  <2>1. i \in 1..Len(labels) BY DEF SearchInv
  <2> QED BY <2>1 DEF SearchInv
<1>3. J \in AllJourneys(tt, MaxTransfers) /\ J \in Seq(Rides) BY <1>1, <1>2, CompletedIsJourney
<1> HIDE DEF l, J
<1>4. CASE answer' = answer BY <1>1, <1>4 DEF AnswerInv, AnswerValid, Distinct, MaxTransfers
<1>5. CASE answer' = Append(answer, J) /\ ~Seen(J)
  <2>1. /\ DOMAIN answer = 1..N /\ N \in Nat /\ DOMAIN answer' = 1..N + 1 /\ answer'[N + 1] = J
        /\ \A n \in 1..N : answer'[n] = answer[n]
    <3> DEFINE S == Seq(Rides)
    <3>1. answer \in Seq(S) /\ J \in S BY <1>2, <1>3
    <3> HIDE DEF S
    <3> QED BY <1>5, <3>1
  <2> HIDE DEF N
  <2>2. \A n \in 1..N + 1 : n = N + 1 \/ n \in 1..N BY <2>1
  <2>3. \A n \in 1..N : answer[n] \in AllJourneys(tt, MaxTransfers) BY <2>1 DEF AnswerInv, AnswerValid
  <2>4. \A n \in 1..N + 1 : answer'[n] \in AllJourneys(tt, MaxTransfers) BY <1>3, <2>1, <2>2, <2>3
  <2>5. AnswerValid' BY <1>1, <2>1, <2>4 DEF AnswerValid, MaxTransfers
  <2>6. \A n \in 1..N : Signature(tt, answer[n]) # Signature(tt, J) BY <1>5, <2>1 DEF Seen
  <2>7. \A m, n \in 1..N : m < n => Signature(tt, answer[m]) # Signature(tt, answer[n])
    BY <2>1 DEF AnswerInv, Distinct
  <2>8. ASSUME NEW m \in 1..N + 1, NEW n \in 1..N + 1, m < n
        PROVE  Signature(tt, answer'[m]) # Signature(tt, answer'[n])
    <3>1. m \in 1..N BY <2>1, <2>8
    <3>2. CASE n = N + 1 BY <2>1, <2>6, <3>1, <3>2
    <3>3. CASE n \in 1..N BY <2>1, <2>7, <2>8, <3>1, <3>3
    <3> QED BY <2>2, <3>2, <3>3
  <2>9. Distinct' BY <1>1, <2>1, <2>8 DEF Distinct
  <2> QED BY <2>5, <2>9 DEF AnswerInv
<1> QED BY <1>1, <1>4, <1>5

LEMMA StepKeepsAnswer ==
  ASSUME BoundsInv, SearchInv, AnswerInv, [Next]_vars PROVE AnswerInv'
<1>1. ASSUME answer' = answer, tt' = tt, limits' = limits PROVE AnswerInv'
  BY <1>1 DEF AnswerInv, AnswerValid, Distinct, MaxTransfers
<1>2. ASSUME NEW c \in todo, ScanConnection(c) PROVE AnswerInv'
  BY <1>1, <1>2 DEF ScanConnection, given, search
<1>3. CASE StartSearch BY <1>1, <1>3 DEF StartSearch, given
<1>4. CASE Stop BY <1>1, <1>4 DEF Stop, given
<1>5. ASSUME NEW i \in open, NEW new, Push(i, new) PROVE AnswerInv' BY <1>1, <1>5 DEF Push, given
<1>6. ASSUME NEW i \in open, PruneByCap(i) \/ Complete(i) \/ Ride(i) \/ Board(i) PROVE AnswerInv'
  <2>1. CASE Complete(i) BY <2>1, CompleteKeepsAnswer
  <2>2. CASE PruneByCap(i) BY <1>5, <2>2 DEF PruneByCap
  <2>3. CASE Ride(i) BY <1>5, <2>3 DEF Ride
  <2>4. CASE Board(i) BY <1>5, <2>4 DEF Board
  <2> QED BY <1>6, <2>1, <2>2, <2>3, <2>4
<1>7. CASE UNCHANGED vars BY <1>1, <1>7 DEF vars, given, search
<1> QED BY <1>2, <1>3, <1>4, <1>6, <1>7 DEF Next

LEMMA AnswerInvariant == Spec => []AnswerInv
<1>1. Init => AnswerInv
  <2> SUFFICES ASSUME Init PROVE AnswerInv OBVIOUS
  <2>1. answer = <<>> /\ DOMAIN answer = {} BY DEF Init
  <2> QED BY <2>1 DEF AnswerInv, AnswerValid, Distinct
<1>2. BoundsInv /\ SearchInv /\ AnswerInv /\ [Next]_vars => AnswerInv' BY StepKeepsAnswer
<1> QED BY <1>1, <1>2, SearchInvariant, PTL DEF Spec

\* Whatever the timetable, the query and the limits, every answer is a journey
\* that a passenger can make: legs that meet, with time to change, to the
\* destination within the horizon, no station and no train twice, and no more
\* transfers than allowed (router.h:3-6).
THEOREM AnswersAreJourneys == Spec => []AnswerValid
<1>1. AnswerInv => AnswerValid BY DEF AnswerInv
<1> QED BY <1>1, AnswerInvariant, PTL

\* Ranks and keys are compared alike.
LEMMA RanksCompareAsKeys ==
  ASSUME NEW J, NEW L, Before(Rank(tt, J), Rank(tt, L))
  PROVE  Enumeration!KeyBefore(Rank(tt, J), Rank(tt, L))
<1> DEFINE a == Rank(tt, J)
           b == Rank(tt, L)
<1>1. DOMAIN a = 1..4 BY DEF Rank
<1> HIDE DEF a, b
<1>2. PICK i \in 1..4 : a[i] < b[i] /\ \A j \in 1..i - 1 : a[j] = b[j] BY <1>1 DEF Before, a, b
<1>3. Enumeration!KeyBefore(a, b)
  <2>1. CASE i = 1 BY <1>2, <2>1 DEF Enumeration!KeyBefore
  <2>2. CASE i = 2
    <3>1. a[1] = b[1] BY <1>2, <2>2
    <3> QED BY <1>2, <2>2, <3>1 DEF Enumeration!KeyBefore
  <2>3. CASE i = 3
    <3>1. a[1] = b[1] /\ a[2] = b[2] BY <1>2, <2>3
    <3> QED BY <1>2, <2>3, <3>1 DEF Enumeration!KeyBefore
  <2>4. CASE i = 4
    <3>1. a[1] = b[1] /\ a[2] = b[2] /\ a[3] = b[3] BY <1>2, <2>4
    <3> QED BY <1>2, <2>4, <3>1 DEF Enumeration!KeyBefore
  <2> QED BY <2>1, <2>2, <2>3, <2>4
<1> QED BY <1>3 DEF a, b

\* A frontier and what was emitted, in order: nothing that waits is before what
\* was emitted.
Ordered(f, e) ==
  /\ f \in SUBSET Enumeration!Keys /\ e \in Seq(Enumeration!Keys)
  /\ \A i, j \in 1..Len(e) : i < j => ~Enumeration!KeyBefore(e[j], e[i])
  /\ \A k \in f : \A i \in 1..Len(e) : ~Enumeration!KeyBefore(k, e[i])

\* The order on keys is total: not being before is transitive.
LEMMA NotBeforeTransitive ==
  ASSUME NEW a \in Enumeration!Keys, NEW b \in Enumeration!Keys, NEW c \in Enumeration!Keys,
         ~Enumeration!KeyBefore(c, b), ~Enumeration!KeyBefore(b, a)
  PROVE  ~Enumeration!KeyBefore(c, a)
BY DEF Enumeration!KeyBefore, Enumeration!Keys

\* What taking an item of key k leaves.
Took(k, e, f2, e2) ==
  /\ f2 \in SUBSET Enumeration!Keys /\ \A new \in f2 : ~Enumeration!KeyBefore(new, k)
  /\ e2 \in {e, Append(e, k)}

\* Taking an item of the least key, and putting none with a smaller key in its
\* place, keeps the order.
LEMMA TakingKeepsOrder ==
  ASSUME NEW f, NEW e, NEW f2, NEW e2, NEW k \in f, Ordered(f, e), Took(k, e, f2, e2)
  PROVE  Ordered(f2, e2)
<1>0. f2 \in SUBSET Enumeration!Keys /\ (\A new \in f2 : ~Enumeration!KeyBefore(new, k)) /\ e2 \in {e, Append(e, k)}
  BY DEF Took
<1>1. k \in Enumeration!Keys /\ e \in Seq(Enumeration!Keys) BY DEF Ordered
<1>2. \A i \in 1..Len(e) : e[i] \in Enumeration!Keys /\ ~Enumeration!KeyBefore(k, e[i]) BY <1>1 DEF Ordered
<1>3. \A new \in f2 : \A i \in 1..Len(e) : ~Enumeration!KeyBefore(new, e[i])
  BY <1>0, <1>1, <1>2, NotBeforeTransitive
<1>4. CASE e2 = e BY <1>0, <1>3, <1>4 DEF Ordered
<1>5. CASE e2 = Append(e, k)
  <2>1. /\ e2 \in Seq(Enumeration!Keys)
        /\ Len(e2) = Len(e) + 1 /\ Len(e) \in Nat
        /\ \A i \in 1..Len(e) : e2[i] = e[i]
        /\ e2[Len(e) + 1] = k
    BY <1>1, <1>5
  <2>2. \A i, j \in 1..Len(e2) : i < j => ~Enumeration!KeyBefore(e2[j], e2[i])
    <3> SUFFICES ASSUME NEW i \in 1..Len(e2), NEW j \in 1..Len(e2), i < j
                 PROVE  ~Enumeration!KeyBefore(e2[j], e2[i])
      OBVIOUS
    <3>1. CASE j = Len(e) + 1 BY <1>2, <2>1, <3>1
    <3>2. CASE j # Len(e) + 1 BY <2>1, <3>2 DEF Ordered
    <3> QED BY <3>1, <3>2
  <2>3. \A new \in f2 : \A i \in 1..Len(e2) : ~Enumeration!KeyBefore(new, e2[i])
    BY <1>0, <1>3, <2>1
  <2> QED BY <1>0, <2>1, <2>2, <2>3 DEF Ordered
<1> QED BY <1>0, <1>4, <1>5

\* Whoever keeps the promise of BestFirst emits in order: no key that is emitted
\* is before an earlier one (router.h:14-16).
THEOREM EmittedInOrder == EnumerationPromise => []Enumeration!InOrder
<1>1. Enumeration!Init => Ordered(Frontier, Emitted)
  BY DEF Enumeration!Init, Ordered, Frontier, Emitted
<1>2. Ordered(Frontier, Emitted) /\ [Enumeration!Next]_<<IF phase = "scan" THEN {Root.key} ELSE {labels[i].key : i \in open},
                                [i \in DOMAIN answer |-> Rank(tt, answer[i])]>>
        => Ordered(Frontier, Emitted)'
  <2> SUFFICES ASSUME Ordered(Frontier, Emitted),
                      [Enumeration!Next]_<<IF phase = "scan" THEN {Root.key} ELSE {labels[i].key : i \in open},
                                           [i \in DOMAIN answer |-> Rank(tt, answer[i])]>>
               PROVE  Ordered(Frontier', Emitted')
    BY DEF Ordered, Enumeration!Keys, Enumeration!KeyBefore
  <2>1. CASE Enumeration!Next
    <3>1. PICK k \in Frontier : Took(k, Emitted, Frontier', Emitted')
      BY <2>1 DEF Enumeration!Next, Enumeration!Take, Frontier, Emitted, Took
    <3> QED BY <3>1, TakingKeepsOrder
  <2>2. CASE Frontier' = Frontier /\ Emitted' = Emitted BY <2>2
  <2> QED BY <2>1, <2>2 DEF Frontier, Emitted
<1>3. Ordered(Frontier, Emitted) => Enumeration!InOrder
  BY DEF Ordered, Enumeration!InOrder, Emitted
<1> QED BY <1>1, <1>2, <1>3, PTL DEF EnumerationPromise, Enumeration!Spec

\* The answers come in rank order and no itinerary comes twice (router.h:14-16).
THEOREM AnswersInRankOrder == Spec => []AnswerInOrder
<1>1. Spec => []Enumeration!InOrder
  BY SearchIsBestFirst, EmittedInOrder, PTL
<1>2. SearchInv /\ AnswerInv /\ Enumeration!InOrder => AnswerInOrder
  <2> SUFFICES ASSUME SearchInv, AnswerInv, Enumeration!InOrder PROVE AnswerInOrder OBVIOUS
  <2>1. answer \in Seq(Seq(Rides)) /\ DOMAIN answer = 1..Len(answer) /\ Len(answer) \in Nat BY DEF SearchInv
  <2> SUFFICES ASSUME NEW i \in 1..Len(answer), NEW j \in 1..Len(answer), i < j
               PROVE  ~Before(Rank(tt, answer[j]), Rank(tt, answer[i]))
    BY <2>1 DEF AnswerInOrder, AnswerInv, Distinct
  <2> DEFINE e == [n \in DOMAIN answer |-> Rank(tt, answer[n])]
  <2>2. e[i] = Rank(tt, answer[i]) /\ e[j] = Rank(tt, answer[j]) BY <2>1
  <2>3. Len(e) = Len(answer) BY <2>1
  <2>4. ~Enumeration!KeyBefore(e[j], e[i])
    <3>1. \A m, n \in 1..Len(e) : m < n => ~Enumeration!KeyBefore(e[n], e[m])
      BY DEF Enumeration!InOrder
    <3> HIDE DEF e
    <3> QED BY <2>3, <3>1
  <2>5. ~Enumeration!KeyBefore(Rank(tt, answer[j]), Rank(tt, answer[i]))
    BY <2>2, <2>4 DEF Enumeration!KeyBefore
  <2> QED BY <2>5, RanksCompareAsKeys
<1> QED BY <1>1, <1>2, SearchInvariant, AnswerInvariant, PTL
=============================================================================
