--------------------------- MODULE AlgorithmsProofs ---------------------------
(***************************************************************************)
(* Programs without state, for any input.                                  *)
(*                                                                         *)
(* What a loop of such a program computes is a recursive function here.    *)
(* That the function exists is an induction (RecursionExists); what the    *)
(* loop maintains is another one, with the loop's invariant.               *)
(***************************************************************************)
EXTENDS Algorithms, TLAPS, WellFoundedInduction, FiniteSetTheorems, SequenceTheorems

-----------------------------------------------------------------------------
(* Numbers, least elements, recursive functions. *)

\* Induction over the numbers, on the set of those a statement holds of.
LEMMA SetInduction ==
  ASSUME NEW T, T \subseteq Nat, 0 \in T, \A n \in T : n + 1 \in T
  PROVE  T = Nat
<1> DEFINE R == OpToRel(<, Nat)
<1>1. IsWellFoundedOn(R, Nat) BY NatLessThanWellFounded
<1>2. \A x, y \in Nat : <<x, y>> \in R <=> x < y BY DEF OpToRel
<1> HIDE DEF R
<1> SUFFICES ASSUME Nat \ T # {} PROVE FALSE OBVIOUS
<1>3. PICK x \in Nat \ T : \A y \in Nat \ T : ~(<<y, x>> \in R) BY <1>1, WFMin
<1>4. x # 0 /\ x - 1 \in Nat /\ x - 1 < x BY <1>3
<1>5. x - 1 \in T BY <1>2, <1>3, <1>4
<1>6. (x - 1) + 1 = x BY <1>3
<1> QED BY <1>3, <1>5, <1>6

\* Min and Max of the library, of numbers within limits.
LEMMA MinOf ==
  ASSUME NEW S, S \subseteq Nat, S # {}
  PROVE  Min(S) \in S /\ \A n \in S : Min(S) <= n
<1> DEFINE R == OpToRel(<, Nat)
<1>1. IsWellFoundedOn(R, Nat) BY NatLessThanWellFounded
<1>2. \A x, y \in Nat : <<x, y>> \in R <=> x < y BY DEF OpToRel
<1> HIDE DEF R
<1>3. PICK x \in S : \A y \in S : ~(<<y, x>> \in R) BY <1>1, WFMin
<1>4. \A y \in S : y \in Nat /\ ~(y < x) BY <1>2, <1>3
<1>5. \E y \in S : \A n \in S : y <= n BY <1>4
<1> QED BY <1>5 DEF Min

LEMMA MaxOf ==
  ASSUME NEW b \in Nat, NEW S, S \subseteq 0..b, S # {}
  PROVE  Max(S) \in S /\ \A n \in S : n <= Max(S)
<1> DEFINE T == {b - x : x \in S}
<1>1. T \subseteq Nat /\ T # {}
  <2>1. \A x \in S : x \in 0..b OBVIOUS
  <2>2. \A x \in S : b - x \in Nat BY <2>1
  <2> QED BY <2>2
<1>2. Min(T) \in T /\ \A n \in T : Min(T) <= n
  <2> HIDE DEF T
  <2> QED BY <1>1, MinOf
<1>3. PICK x \in S : Min(T) = b - x BY <1>2
<1>4. \A n \in S : n <= x
  <2> SUFFICES ASSUME NEW n \in S PROVE n <= x OBVIOUS
  <2>1. b - n \in T OBVIOUS
  <2>2. b - x <= b - n BY <1>2, <1>3, <2>1
  <2> QED BY <2>2
<1>5. \E y \in S : \A n \in S : y >= n BY <1>4
<1>6. \A n \in S : n \in Nat OBVIOUS
<1> QED BY <1>5, <1>6 DEF Max

\* A function given by its value at 0 and its steps, on 0..m.
Recursion(f, a, E, m) == f = [n \in 0..m |-> IF n = 0 THEN a ELSE E[n][f[n - 1]]]

LEMMA RecursionExists ==
  ASSUME NEW S, NEW a \in S, NEW E \in [Nat -> [S -> S]], NEW m \in Nat
  PROVE  \E f \in [0..m -> S] : Recursion(f, a, E, m)
<1> DEFINE T == {k \in Nat : \E f \in [0..k -> S] : Recursion(f, a, E, k)}
<1>1. 0 \in T
  <2> DEFINE f == [n \in 0..0 |-> a]
  <2>1. f \in [0..0 -> S] OBVIOUS
  <2>2. f = [n \in 0..0 |-> IF n = 0 THEN a ELSE E[n][f[n - 1]]] OBVIOUS
  <2> HIDE DEF f
  <2> QED BY <2>1, <2>2 DEF Recursion
<1>2. ASSUME NEW k \in T PROVE k + 1 \in T
  <2>1. k \in Nat OBVIOUS
  <2>2. PICK f \in [0..k -> S] : Recursion(f, a, E, k) OBVIOUS
  <2> DEFINE e == E[k + 1][f[k]]
             g == [n \in 0..k + 1 |-> IF n = k + 1 THEN e ELSE f[n]]
  <2>3. e \in S
    <3>1. f[k] \in S /\ k + 1 \in Nat BY <2>1, <2>2
    <3> QED BY <3>1
  <2>4. g \in [0..k + 1 -> S]
    <3>1. \A n \in 0..k + 1 : n = k + 1 \/ n \in 0..k BY <2>1
    <3> QED BY <2>2, <2>3, <3>1
  <2>5. ASSUME NEW n \in 0..k + 1 PROVE g[n] = IF n = 0 THEN a ELSE E[n][g[n - 1]]
    <3>1. CASE n = k + 1
      <4>1. g[n] = e /\ n # 0 BY <2>1, <3>1
      <4>2. k \in 0..k + 1 /\ k # k + 1 /\ n - 1 = k BY <2>1, <3>1
      <4>3. g[n - 1] = f[k] BY <4>2
      <4> QED BY <3>1, <4>1, <4>3
    <3>2. CASE n # k + 1
      <4>1. n \in 0..k /\ g[n] = f[n] BY <2>1, <3>2
      <4>2. f[n] = IF n = 0 THEN a ELSE E[n][f[n - 1]] BY <2>2, <4>1 DEF Recursion
      <4>3. n # 0 => n - 1 \in 0..k + 1 /\ n - 1 # k + 1 BY <2>1, <4>1
      <4>4. n # 0 => g[n - 1] = f[n - 1] BY <4>3
      <4> QED BY <4>1, <4>2, <4>4
    <3> QED BY <3>1, <3>2
  <2>6. g = [n \in 0..k + 1 |-> IF n = 0 THEN a ELSE E[n][g[n - 1]]]
    <3>1. DOMAIN g = 0..k + 1 /\ g = [n \in 0..k + 1 |-> g[n]] OBVIOUS
    <3> HIDE DEF g
    <3> QED BY <2>5, <3>1
  <2> HIDE DEF g
  <2>7. Recursion(g, a, E, k + 1) BY <2>6 DEF Recursion
  <2> QED BY <2>1, <2>4, <2>7
<1>3. T = Nat
  <2>1. T \subseteq Nat OBVIOUS
  <2> HIDE DEF T
  <2> QED BY <1>1, <1>2, <2>1, SetInduction
<1> QED BY <1>3

-----------------------------------------------------------------------------
(* Sums. *)

\* The partial sums of a sequence of numbers.
Sums(s, f) ==
  /\ f \in [0..Len(s) -> Int] /\ f[0] = 0
  /\ \A n \in 1..Len(s) : f[n] = f[n - 1] + s[n]

LEMMA SumOfFacts ==
  ASSUME NEW s \in Seq(Int) PROVE \E f : Sums(s, f) /\ SumOf(s) = f[Len(s)]
<1> DEFINE N == Len(s)
           E == [n \in Nat |-> [x \in Int |-> IF n \in 1..N THEN x + s[n] ELSE x]]
           Step(f) == [n \in 0..N |-> IF n = 0 THEN 0 ELSE f[n - 1] + s[n]]
           Sum == CHOOSE f : f = Step(f)
<1>1. N \in Nat /\ \A n \in 1..N : s[n] \in Int OBVIOUS
<1> HIDE DEF N
<1>2. E \in [Nat -> [Int -> Int]] BY <1>1
<1>3. PICK f \in [0..N -> Int] : Recursion(f, 0, E, N)
  <2>1. 0 \in Int OBVIOUS
  <2> HIDE DEF E
  <2> QED BY <1>1, <1>2, <2>1, RecursionExists
<1>4. \A n \in 0..N : f[n] = IF n = 0 THEN 0 ELSE f[n - 1] + s[n]
  <2> SUFFICES ASSUME NEW n \in 0..N PROVE f[n] = IF n = 0 THEN 0 ELSE f[n - 1] + s[n] OBVIOUS
  <2>1. f[n] = IF n = 0 THEN 0 ELSE E[n][f[n - 1]]
    <3> HIDE DEF E
    <3> QED BY <1>3 DEF Recursion
  <2>2. CASE n = 0 BY <2>1, <2>2
  <2>3. CASE n # 0
    <3>1. n \in Nat /\ n \in 1..N /\ n - 1 \in 0..N BY <1>1, <2>3
    <3>2. E[n][f[n - 1]] = f[n - 1] + s[n] BY <1>3, <3>1
    <3> QED BY <2>1, <2>3, <3>2
  <2> QED BY <2>2, <2>3
<1>5. f = Step(f)
  <2>1. f = [n \in 0..N |-> f[n]] BY <1>3
  <2> QED BY <1>4, <2>1
<1>6. Sum = Step(Sum)
  <2> HIDE DEF Step
  <2> QED BY <1>5
<1>7. SumOf(s) = Sum[N] BY DEF SumOf, N
<1> HIDE DEF Sum
<1>8. \A n \in 0..N : Sum[n] = IF n = 0 THEN 0 ELSE Sum[n - 1] + s[n] BY <1>6
<1> DEFINE T == {n \in Nat : n \in 0..N => Sum[n] \in Int}
<1>9. T = Nat
  <2>1. 0 \in T BY <1>1, <1>8
  <2>2. ASSUME NEW n \in T PROVE n + 1 \in T
    <3> SUFFICES ASSUME n + 1 \in 0..N PROVE Sum[n + 1] \in Int OBVIOUS
    <3>1. n \in 0..N /\ n + 1 \in 1..N /\ n + 1 # 0 /\ (n + 1) - 1 = n BY <1>1
    <3>2. Sum[n + 1] = Sum[n] + s[n + 1] BY <1>8, <3>1
    <3> QED BY <1>1, <3>1, <3>2
  <2>3. T \subseteq Nat OBVIOUS
  <2> HIDE DEF T
  <2> QED BY <2>1, <2>2, <2>3, SetInduction
<1>10. Sum \in [0..N -> Int]
  <2>1. \A n \in 0..N : n \in T => Sum[n] \in Int OBVIOUS
  <2>2. \A n \in 0..N : n \in Nat BY <1>1
  <2>3. Sum = [n \in 0..N |-> Sum[n]] BY <1>6
  <2> HIDE DEF T
  <2>4. \A n \in 0..N : Sum[n] \in Int BY <1>9, <2>1, <2>2
  <2> QED BY <2>3, <2>4
<1>11. Sums(s, Sum)
  <2>1. \A n \in 1..N : n \in 0..N /\ n # 0 BY <1>1
  <2>2. 0 \in 0..N BY <1>1
  <2> QED BY <1>8, <1>10, <2>1, <2>2 DEF Sums, N
<1> QED BY <1>7, <1>11 DEF N

\* Sums of the same length compare as their terms do.
LEMMA SumsCompare ==
  ASSUME NEW s \in Seq(Int), NEW t \in Seq(Int), Len(s) = Len(t), \A i \in 1..Len(s) : s[i] <= t[i]
  PROVE  SumOf(s) <= SumOf(t)
<1> DEFINE N == Len(s)
<1>1. PICK f : Sums(s, f) /\ SumOf(s) = f[N] BY SumOfFacts
<1>2. PICK g : Sums(t, g) /\ SumOf(t) = g[N] BY SumOfFacts
<1>3. N \in Nat /\ \A i \in 1..N : s[i] \in Int /\ t[i] \in Int OBVIOUS
<1>4. /\ \A n \in 0..N : f[n] \in Int /\ g[n] \in Int
      /\ f[0] = 0 /\ g[0] = 0
      /\ \A n \in 1..N : f[n] = f[n - 1] + s[n] /\ g[n] = g[n - 1] + t[n] /\ s[n] <= t[n]
  BY <1>1, <1>2 DEF Sums
<1> HIDE DEF N
<1> DEFINE T == {n \in Nat : n \in 0..N => f[n] <= g[n]}
<1>5. T = Nat
  <2>1. 0 \in T BY <1>4
  <2>2. ASSUME NEW n \in T PROVE n + 1 \in T
    <3> SUFFICES ASSUME n + 1 \in 0..N PROVE f[n + 1] <= g[n + 1] OBVIOUS
    <3>1. n \in 0..N /\ n + 1 \in 1..N /\ (n + 1) - 1 = n BY <1>3
    <3>2. f[n + 1] = f[n] + s[n + 1] /\ g[n + 1] = g[n] + t[n + 1] /\ s[n + 1] <= t[n + 1] BY <1>4, <3>1
    <3>3. f[n] <= g[n] BY <3>1
    <3> QED BY <1>3, <1>4, <3>1, <3>2, <3>3
  <2>3. T \subseteq Nat OBVIOUS
  <2> HIDE DEF T
  <2> QED BY <2>1, <2>2, <2>3, SetInduction
<1>6. N \in T /\ N \in 0..N BY <1>3, <1>5
<1> QED BY <1>1, <1>2, <1>6

-----------------------------------------------------------------------------
(* Counters. *)

\* The value of a counter after each interval.
Grows(start, h, V) ==
  /\ V \in [0..Len(h) -> Nat] /\ V[0] = start
  /\ \A k \in 1..Len(h) : V[k] = IF h[k].restarted THEN h[k].after ELSE V[k - 1] + h[k].before

LEMMA ValueFacts ==
  ASSUME NEW start \in Nat, NEW h \in Seq(Intervals) PROVE Grows(start, h, Value(start, h))
<1> DEFINE N == Len(h)
           E == [n \in Nat |-> [x \in Nat |-> IF n \in 1..N
                                               THEN IF h[n].restarted THEN h[n].after ELSE x + h[n].before
                                               ELSE x]]
           Step(f) == [k \in 0..N |-> IF k = 0 THEN start
                                      ELSE IF h[k].restarted THEN h[k].after ELSE f[k - 1] + h[k].before]
           V == CHOOSE f : f = Step(f)
<1>1. N \in Nat /\ \A n \in 1..N : h[n].before \in Nat /\ h[n].after \in Nat
  <2>1. N \in Nat /\ \A n \in 1..N : h[n] \in Intervals OBVIOUS
  <2> QED BY <2>1 DEF Intervals
<1> HIDE DEF N
<1>2. E \in [Nat -> [Nat -> Nat]] BY <1>1
<1>3. PICK f \in [0..N -> Nat] : Recursion(f, start, E, N)
  <2> HIDE DEF E
  <2> QED BY <1>1, <1>2, RecursionExists
<1>4. \A n \in 0..N : f[n] = IF n = 0 THEN start
                             ELSE IF h[n].restarted THEN h[n].after ELSE f[n - 1] + h[n].before
  <2> SUFFICES ASSUME NEW n \in 0..N, n # 0
               PROVE  f[n] = IF h[n].restarted THEN h[n].after ELSE f[n - 1] + h[n].before
    BY <1>1, <1>3 DEF Recursion
  <2>1. f[n] = E[n][f[n - 1]]
    <3> HIDE DEF E
    <3> QED BY <1>3 DEF Recursion
  <2>2. n \in Nat /\ n \in 1..N /\ n - 1 \in 0..N BY <1>1
  <2>3. f[n - 1] \in Nat BY <1>3, <2>2
  <2>4. E[n][f[n - 1]] = IF h[n].restarted THEN h[n].after ELSE f[n - 1] + h[n].before BY <2>2, <2>3
  <2> QED BY <2>1, <2>4
<1>5. f = Step(f)
  <2>1. f = [n \in 0..N |-> f[n]] BY <1>3
  <2> QED BY <1>4, <2>1
<1>6. V = Step(V)
  <2> HIDE DEF Step
  <2> QED BY <1>5
<1>7. Value(start, h) = V BY DEF Value, N
<1> HIDE DEF V
<1>8. \A n \in 0..N : V[n] = IF n = 0 THEN start
                             ELSE IF h[n].restarted THEN h[n].after ELSE V[n - 1] + h[n].before
  BY <1>6
<1> DEFINE T == {n \in Nat : n \in 0..N => V[n] \in Nat}
<1>9. T = Nat
  <2>1. 0 \in T BY <1>1, <1>8
  <2>2. ASSUME NEW n \in T PROVE n + 1 \in T
    <3> SUFFICES ASSUME n + 1 \in 0..N PROVE V[n + 1] \in Nat OBVIOUS
    <3>1. n \in 0..N /\ n + 1 \in 1..N /\ n + 1 # 0 /\ (n + 1) - 1 = n BY <1>1
    <3>2. V[n + 1] = IF h[n + 1].restarted THEN h[n + 1].after ELSE V[n] + h[n + 1].before BY <1>8, <3>1
    <3> QED BY <1>1, <3>1, <3>2
  <2>3. T \subseteq Nat OBVIOUS
  <2> HIDE DEF T
  <2> QED BY <2>1, <2>2, <2>3, SetInduction
<1>10. V \in [0..N -> Nat]
  <2>1. \A n \in 0..N : n \in T => V[n] \in Nat OBVIOUS
  <2>2. \A n \in 0..N : n \in Nat BY <1>1
  <2>3. V = [n \in 0..N |-> V[n]] BY <1>6
  <2> HIDE DEF T
  <2>4. \A n \in 0..N : V[n] \in Nat BY <1>9, <2>1, <2>2
  <2> QED BY <2>3, <2>4
<1>11. Grows(start, h, V)
  <2>1. \A n \in 1..N : n \in 0..N /\ n # 0 BY <1>1
  <2>2. 0 \in 0..N BY <1>1
  <2> QED BY <1>8, <1>10, <2>1, <2>2 DEF Grows, N
<1> QED BY <1>7, <1>11

\* What counterDelta has after each sample.
Totals == [total : Int, prev : Int]
Counts(p, C) ==
  /\ C \in [0..Len(p) -> Totals] /\ C[0] = [total |-> 0, prev |-> NoSample]
  /\ \A k \in 1..Len(p) :
       C[k] = IF p[k] = NoSample THEN C[k - 1]
              ELSE [total |-> C[k - 1].total + Increase(C[k - 1].prev, p[k]), prev |-> p[k]]

LEMMA CounterFacts ==
  ASSUME NEW p \in Seq(Int) PROVE \E C : Counts(p, C) /\ CounterDelta(p) = C[Len(p)].total
<1> DEFINE N == Len(p)
           Add(r, v) == IF v = NoSample THEN r ELSE [total |-> r.total + Increase(r.prev, v), prev |-> v]
           none == [total |-> 0, prev |-> NoSample]
           E == [n \in Nat |-> [r \in Totals |-> IF n \in 1..N THEN Add(r, p[n]) ELSE r]]
           Step(f) == [k \in 0..N |->
                         IF k = 0 THEN [total |-> 0, prev |-> NoSample]
                         ELSE IF p[k] = NoSample THEN f[k - 1]
                         ELSE [total |-> f[k - 1].total + Increase(f[k - 1].prev, p[k]), prev |-> p[k]]]
           C == CHOOSE f : f = Step(f)
<1>1. N \in Nat /\ \A n \in 1..N : p[n] \in Int OBVIOUS
<1>2. none \in Totals BY DEF Totals, NoSample
<1>3. ASSUME NEW r \in Totals, NEW v \in Int PROVE Add(r, v) \in Totals
  <2>1. r.total \in Int /\ r.prev \in Int BY DEF Totals
  <2>2. Increase(r.prev, v) \in Int BY <2>1 DEF Increase
  <2> QED BY <2>1, <2>2 DEF Totals
<1>4. \A f : Step(f) = [k \in 0..N |-> IF k = 0 THEN none ELSE Add(f[k - 1], p[k])] OBVIOUS
<1>5. CounterDelta(p) = C[N].total BY DEF CounterDelta
<1>6. \A C1 : /\ C1 \in [0..N -> Totals]
              /\ \A k \in 0..N : C1[k] = IF k = 0 THEN none ELSE Add(C1[k - 1], p[k])
              => Counts(p, C1)
  BY <1>1 DEF Counts
<1> HIDE DEF N, none, Add, Step
<1>7. E \in [Nat -> [Totals -> Totals]] BY <1>1, <1>3
<1>8. PICK f \in [0..N -> Totals] : Recursion(f, none, E, N)
  <2> HIDE DEF E
  <2> QED BY <1>1, <1>2, <1>7, RecursionExists
<1>9. \A n \in 0..N : f[n] = IF n = 0 THEN none ELSE Add(f[n - 1], p[n])
  <2> SUFFICES ASSUME NEW n \in 0..N, n # 0 PROVE f[n] = Add(f[n - 1], p[n])
    BY <1>1, <1>8 DEF Recursion
  <2>1. f[n] = E[n][f[n - 1]]
    <3> HIDE DEF E
    <3> QED BY <1>8 DEF Recursion
  <2>2. n \in Nat /\ n \in 1..N /\ n - 1 \in 0..N BY <1>1
  <2>3. f[n - 1] \in Totals BY <1>8, <2>2
  <2>4. E[n][f[n - 1]] = Add(f[n - 1], p[n]) BY <2>2, <2>3
  <2> QED BY <2>1, <2>4
<1>10. f = Step(f)
  <2>1. f = [n \in 0..N |-> f[n]] BY <1>8
  <2>2. Step(f) = [n \in 0..N |-> IF n = 0 THEN none ELSE Add(f[n - 1], p[n])] BY <1>4
  <2> QED BY <1>9, <2>1, <2>2
<1>11. C = Step(C) BY <1>10
<1> HIDE DEF C
<1>12. C = [k \in 0..N |-> IF k = 0 THEN none ELSE Add(C[k - 1], p[k])] BY <1>4, <1>11
<1>13. \A n \in 0..N : C[n] = IF n = 0 THEN none ELSE Add(C[n - 1], p[n]) BY <1>12
<1> DEFINE T == {n \in Nat : n \in 0..N => C[n] \in Totals}
<1>14. T = Nat
  <2>1. 0 \in T BY <1>1, <1>2, <1>13
  <2>2. ASSUME NEW n \in T PROVE n + 1 \in T
    <3> SUFFICES ASSUME n + 1 \in 0..N PROVE C[n + 1] \in Totals OBVIOUS
    <3>1. n \in 0..N /\ n + 1 \in 1..N /\ n + 1 # 0 /\ (n + 1) - 1 = n BY <1>1
    <3>2. C[n + 1] = Add(C[n], p[n + 1]) BY <1>13, <3>1
    <3>3. C[n] \in Totals BY <3>1
    <3> QED BY <1>1, <1>3, <3>1, <3>2, <3>3
  <2>3. T \subseteq Nat OBVIOUS
  <2> HIDE DEF T
  <2> QED BY <2>1, <2>2, <2>3, SetInduction
<1>15. C \in [0..N -> Totals]
  <2>1. \A n \in 0..N : n \in T => C[n] \in Totals OBVIOUS
  <2>2. \A n \in 0..N : n \in Nat BY <1>1
  <2> HIDE DEF T
  <2>3. \A n \in 0..N : C[n] \in Totals BY <1>14, <2>1, <2>2
  <2>4. C = [n \in 0..N |-> C[n]] BY <1>12
  <2> QED BY <2>3, <2>4
<1> QED BY <1>5, <1>6, <1>13, <1>15 DEF N

\* gap is what happened beyond what is counted, v the value, prev the last sample:
\* either nothing was missed since prev but what the next sample shows, or at
\* least what the process has counted since it restarted.
Behind(gap, v, prev) ==
  /\ gap \in Nat /\ v \in Nat /\ prev \in Nat
  /\ gap >= v \/ (v >= prev /\ gap >= v - prev)

\* An interval keeps it, scraped or not.
LEMMA IntervalKeeps ==
  ASSUME NEW gap, NEW v, NEW prev, Behind(gap, v, prev), NEW x \in Intervals,
         NEW next, next = IF x.restarted THEN x.after ELSE v + x.before
  PROVE  /\ Behind(gap + (x.before + x.after), next, prev)
         /\ Behind(gap + (x.before + x.after) - Increase(prev, next), next, next)
<1>1. /\ gap \in Nat /\ v \in Nat /\ prev \in Nat /\ x.before \in Nat /\ x.after \in Nat
      /\ x.restarted \in BOOLEAN
      /\ gap >= v \/ (v >= prev /\ gap >= v - prev)
  BY DEF Behind, Intervals
<1>2. next \in Nat BY <1>1
<1>3. Increase(prev, next) = IF next >= prev THEN next - prev ELSE next
  BY <1>1 DEF Increase, NoSample
<1> DEFINE b == x.before
           a == x.after
<1>4. b \in Nat /\ a \in Nat BY <1>1
<1> HIDE DEF a, b
<1>5. CASE x.restarted
  <2>1. next = a BY <1>5 DEF a
  <2>2. Behind(gap + (b + a), next, prev) BY <1>1, <1>2, <1>4, <2>1 DEF Behind
  <2>3. Behind(gap + (b + a) - Increase(prev, next), next, next)
    BY <1>1, <1>2, <1>3, <1>4, <2>1 DEF Behind
  <2> QED BY <2>2, <2>3 DEF a, b
<1>6. CASE ~x.restarted
  <2>1. next = v + b BY <1>6 DEF b
  <2>2. Behind(gap + (b + a), next, prev) BY <1>1, <1>2, <1>4, <2>1 DEF Behind
  <2>3. Behind(gap + (b + a) - Increase(prev, next), next, next)
    BY <1>1, <1>2, <1>3, <1>4, <2>1 DEF Behind
  <2> QED BY <2>2, <2>3 DEF a, b
<1> QED BY <1>5, <1>6

\* A process that has not restarted is behind by what it counted since prev.
LEMMA IntervalIsExact ==
  ASSUME NEW gap \in Nat, NEW v \in Nat, NEW prev \in Nat, v >= prev, gap = v - prev,
         NEW x \in Intervals, ~x.restarted, NEW next, next = v + x.before
  PROVE  /\ next >= prev /\ gap + (x.before + x.after) = next - prev
         /\ gap + (x.before + x.after) - Increase(prev, next) = 0
<1>1. x.before \in Nat /\ x.after = 0 BY DEF Intervals
<1>2. Increase(prev, next) = next - prev BY <1>1 DEF Increase, NoSample
<1> QED BY <1>1, <1>2

\* The samples of a process.
LEMMA ScrapedFacts ==
  ASSUME NEW start \in Nat, NEW h \in Seq(Intervals)
  PROVE  /\ Scraped(start, h) \in Seq(Int) /\ Len(Scraped(start, h)) = Len(h) + 1
         /\ Scraped(start, h)[1] = start
         /\ \A k \in 1..Len(h) :
              Scraped(start, h)[k + 1] = IF h[k].scraped THEN Value(start, h)[k] ELSE NoSample
<1> DEFINE V == Value(start, h)
           tail == [k \in DOMAIN h |-> IF h[k].scraped THEN V[k] ELSE NoSample]
<1>1. Grows(start, h, V) BY ValueFacts
<1> HIDE DEF V
<1>2. Len(h) \in Nat /\ DOMAIN h = 1..Len(h) OBVIOUS
<1>3. \A k \in 1..Len(h) : tail[k] \in Int
  <2> SUFFICES ASSUME NEW k \in 1..Len(h) PROVE tail[k] \in Int OBVIOUS
  <2>1. k \in 0..Len(h) BY <1>2
  <2>2. V[k] \in Int BY <1>1, <2>1 DEF Grows
  <2> QED BY <1>2, <2>2 DEF NoSample
<1>4. tail \in Seq(Int) /\ Len(tail) = Len(h) /\ <<start>> \in Seq(Int)
  <2>1. tail \in [1..Len(h) -> Int] BY <1>2, <1>3
  <2> QED BY <1>2, <2>1
<1>5. Scraped(start, h) = <<start>> \o tail BY DEF Scraped, V
<1>6. \A k \in 1..Len(h) : tail[k] = IF h[k].scraped THEN V[k] ELSE NoSample BY <1>2
<1> HIDE DEF tail
<1>7. \A k \in 1..Len(h) : (<<start>> \o tail)[k + 1] = tail[k] BY <1>2, <1>4
<1>8. (<<start>> \o tail)[1] = start BY <1>4
<1>9. <<start>> \o tail \in Seq(Int) /\ Len(<<start>> \o tail) = Len(h) + 1 BY <1>2, <1>4
<1> QED BY <1>5, <1>6, <1>7, <1>8, <1>9 DEF V

\* One process: what is counted is at most what happened, and all of it if it
\* never restarted and was scraped at the end.
LEMMA OneCounter ==
  ASSUME NEW start \in Nat, NEW h \in Seq(Intervals), h # <<>>
  PROVE  /\ CounterDelta(Scraped(start, h)) \in Int /\ Happened(h) \in Int
         /\ CounterDelta(Scraped(start, h)) <= Happened(h)
         /\ (\A k \in DOMAIN h : ~h[k].restarted) /\ h[Len(h)].scraped
              => CounterDelta(Scraped(start, h)) = Happened(h)
<1> DEFINE N == Len(h)
           p == Scraped(start, h)
           V == Value(start, h)
           did == [k \in DOMAIN h |-> h[k].before + h[k].after]
<1>1. N \in Nat /\ N >= 1 /\ DOMAIN h = 1..N /\ \A k \in 1..N : h[k] \in Intervals OBVIOUS
<1>2. \A k \in 1..N : h[k].before \in Nat /\ h[k].after \in Nat /\ h[k].scraped \in BOOLEAN
  BY <1>1 DEF Intervals
<1>3. /\ p \in Seq(Int) /\ Len(p) = N + 1 /\ p[1] = start
      /\ \A k \in 1..N : p[k + 1] = IF h[k].scraped THEN V[k] ELSE NoSample
  BY ScrapedFacts
<1>4. Grows(start, h, V) BY ValueFacts
<1>5. did \in Seq(Int) /\ Len(did) = N
  <2>1. did \in [1..N -> Int] BY <1>1, <1>2
  <2> QED BY <1>1, <2>1
<1>6. \A k \in 1..N : did[k] = h[k].before + h[k].after BY <1>1
<1>7. Happened(h) = SumOf(did) BY DEF Happened
<1> HIDE DEF did, p, V, N
<1>8. PICK f : Sums(did, f) /\ SumOf(did) = f[N] BY <1>5, SumOfFacts
<1>9. PICK C : Counts(p, C) /\ CounterDelta(p) = C[N + 1].total BY <1>3, CounterFacts
<1>10. /\ \A k \in 0..N : f[k] \in Int /\ V[k] \in Nat
       /\ \A k \in 0..N + 1 : C[k] \in Totals
       /\ f[0] = 0 /\ V[0] = start /\ C[0] = [total |-> 0, prev |-> NoSample]
  BY <1>3, <1>4, <1>5, <1>8, <1>9 DEF Sums, Counts, Grows, N
<1>11. \A k \in 0..N + 1 : C[k].total \in Int /\ C[k].prev \in Int BY <1>10 DEF Totals
<1>12. \A k \in 1..N : /\ f[k] = f[k - 1] + (h[k].before + h[k].after)
                       /\ V[k] = IF h[k].restarted THEN h[k].after ELSE V[k - 1] + h[k].before
  BY <1>4, <1>5, <1>6, <1>8 DEF Sums, Grows, N
<1>13. \A k \in 1..N + 1 :
         C[k] = IF p[k] = NoSample THEN C[k - 1]
                ELSE [total |-> C[k - 1].total + Increase(C[k - 1].prev, p[k]), prev |-> p[k]]
  BY <1>3, <1>9 DEF Counts
<1>14. C[1].total = 0 /\ C[1].prev = start
  <2>1. 1 \in 1..N + 1 /\ 1 - 1 = 0 BY <1>1
  <2>2. p[1] = start /\ start # NoSample BY <1>3 DEF NoSample
  <2>3. C[1] = [total |-> C[1 - 1].total + Increase(C[1 - 1].prev, p[1]), prev |-> p[1]]
    BY <1>13, <2>1, <2>2
  <2>4. C[0].total = 0 /\ C[0].prev = NoSample BY <1>10
  <2>5. C[1] = [total |-> 0 + Increase(NoSample, start), prev |-> start] BY <2>1, <2>2, <2>3, <2>4
  <2>6. Increase(NoSample, start) = 0 BY DEF Increase
  <2> QED BY <2>5, <2>6
<1>15. ASSUME NEW k \in 1..N
       PROVE  C[k + 1] = IF h[k].scraped
                         THEN [total |-> C[k].total + Increase(C[k].prev, V[k]), prev |-> V[k]] ELSE C[k]
  <2>1. k + 1 \in 1..N + 1 /\ (k + 1) - 1 = k /\ k \in 0..N BY <1>1
  <2>2. V[k] # NoSample BY <1>10, <2>1 DEF NoSample
  <2> QED BY <1>3, <1>13, <2>1, <2>2
<1> DEFINE Calm == \A k \in DOMAIN h : ~h[k].restarted
           Loop(k) == /\ Behind(f[k] - C[k + 1].total, V[k], C[k + 1].prev)
                      /\ Calm => V[k] >= C[k + 1].prev /\ f[k] - C[k + 1].total = V[k] - C[k + 1].prev
           T == {k \in Nat : k \in 0..N => Loop(k)}
<1>16. 0 \in T
  <2>1. 0 \in 0..N /\ 0 + 1 = 1 BY <1>1
  <2>2. Behind(0 - 0, start, start) BY DEF Behind
  <2>3. Loop(0) BY <1>10, <1>14, <2>1, <2>2
  <2> QED BY <2>3
<1>17. ASSUME NEW j \in T PROVE j + 1 \in T
  <2> SUFFICES ASSUME j + 1 \in 0..N PROVE Loop(j + 1) OBVIOUS
  <2>0. PICK k : k = j + 1 OBVIOUS
  <2>1. j \in 0..N /\ k \in 1..N /\ k \in 0..N /\ k - 1 = j /\ k \in 0..N + 1 /\ k + 1 \in 0..N + 1 BY <1>1, <2>0
  <2> SUFFICES Loop(k) BY <2>0
  <2>2. /\ Behind(f[j] - C[k].total, V[j], C[k].prev)
        /\ Calm => V[j] >= C[k].prev /\ f[j] - C[k].total = V[j] - C[k].prev
    BY <2>0, <2>1
  <2>3. f[k] = f[j] + (h[k].before + h[k].after)
        /\ V[k] = IF h[k].restarted THEN h[k].after ELSE V[j] + h[k].before
    BY <1>12, <2>1
  <2>4. f[j] \in Int /\ C[k].total \in Int /\ C[k].prev \in Int /\ V[j] \in Nat /\ V[k] \in Nat /\ f[k] \in Int
    BY <1>10, <1>11, <2>1
  <2>5. h[k] \in Intervals /\ h[k].before \in Nat /\ h[k].after \in Nat BY <1>1, <1>2, <2>1
  <2>6. Behind(f[j] - C[k].total, V[j], C[k].prev) BY <2>2
  <2> DEFINE gap == f[j] - C[k].total
  <2>7. /\ Behind(gap + (h[k].before + h[k].after), V[k], C[k].prev)
        /\ Behind(gap + (h[k].before + h[k].after) - Increase(C[k].prev, V[k]), V[k], V[k])
    <3> HIDE DEF gap
    <3>1. Behind(gap, V[j], C[k].prev) BY <2>6 DEF gap
    <3> QED BY <2>3, <2>5, <3>1, IntervalKeeps
  <2>8. ASSUME Calm
        PROVE  /\ V[k] >= C[k].prev /\ gap + (h[k].before + h[k].after) = V[k] - C[k].prev
               /\ gap + (h[k].before + h[k].after) - Increase(C[k].prev, V[k]) = 0
    <3>1. V[j] >= C[k].prev /\ gap = V[j] - C[k].prev BY <2>2, <2>8
    <3>2. gap \in Nat /\ C[k].prev \in Nat BY <2>6 DEF Behind
    <3>3. ~h[k].restarted BY <1>1, <2>1, <2>8
    <3>4. V[k] = V[j] + h[k].before BY <2>3, <3>3
    <3> DEFINE v == V[j]
               prev == C[k].prev
               next == V[k]
               x == h[k]
    <3>5. /\ gap \in Nat /\ v \in Nat /\ prev \in Nat /\ v >= prev /\ gap = v - prev
          /\ x \in Intervals /\ ~x.restarted /\ next = v + x.before
      BY <2>4, <2>5, <3>1, <3>2, <3>3, <3>4
    <3> HIDE DEF gap, v, prev, next, x
    <3>6. /\ next >= prev /\ gap + (x.before + x.after) = next - prev
          /\ gap + (x.before + x.after) - Increase(prev, next) = 0
      BY <3>5, IntervalIsExact
    <3> QED BY <3>6 DEF v, prev, next, x
  <2>9. CASE h[k].scraped
    <3>0. C[k + 1] = [total |-> C[k].total + Increase(C[k].prev, V[k]), prev |-> V[k]] BY <1>15, <2>1, <2>9
    <3>1. C[k + 1].total = C[k].total + Increase(C[k].prev, V[k]) /\ C[k + 1].prev = V[k] BY <3>0
    <3>2. Increase(C[k].prev, V[k]) \in Int BY <2>4 DEF Increase
    <3>3. f[k] - C[k + 1].total = gap + (h[k].before + h[k].after) - Increase(C[k].prev, V[k])
      <4> DEFINE inc == Increase(C[k].prev, V[k])
                 more == h[k].before + h[k].after
      <4>1. inc \in Int /\ more \in Int /\ f[k] = f[j] + more /\ C[k + 1].total = C[k].total + inc
        BY <2>3, <2>5, <3>1, <3>2
      <4> HIDE DEF inc, more
      <4>2. f[k] - C[k + 1].total = gap + more - inc BY <2>4, <4>1
      <4> QED BY <4>2 DEF inc, more
    <3>4. Behind(f[k] - C[k + 1].total, V[k], C[k + 1].prev) BY <2>7, <3>1, <3>3
    <3>5. Calm => V[k] >= C[k + 1].prev /\ f[k] - C[k + 1].total = V[k] - C[k + 1].prev
      BY <2>4, <2>8, <3>1, <3>3
    <3> QED BY <3>4, <3>5
  <2>10. CASE ~h[k].scraped
    <3>1. C[k + 1] = C[k] BY <1>15, <2>1, <2>10
    <3>2. f[k] - C[k + 1].total = gap + (h[k].before + h[k].after)
      <4> DEFINE more == h[k].before + h[k].after
      <4>1. more \in Int /\ f[k] = f[j] + more /\ C[k + 1].total = C[k].total BY <2>3, <2>5, <3>1
      <4> HIDE DEF more
      <4>2. f[k] - C[k + 1].total = gap + more BY <2>4, <4>1
      <4> QED BY <4>2 DEF more
    <3> QED BY <2>7, <2>8, <3>1, <3>2
  <2> QED BY <2>9, <2>10
<1>18. Loop(N)
  <2>1. T \subseteq Nat OBVIOUS
  <2>2. T = Nat
    <3> HIDE DEF T
    <3> QED BY <1>16, <1>17, <2>1, SetInduction
  <2>3. N \in T /\ N \in 0..N BY <1>1, <2>2
  <2> QED BY <2>3
<1>19. f[N] \in Int /\ C[N + 1].total \in Int /\ V[N] \in Nat BY <1>1, <1>10, <1>11
<1>20. C[N + 1].total <= f[N]
  <2>1. f[N] - C[N + 1].total \in Nat BY <1>18 DEF Behind
  <2> QED BY <1>19, <2>1
<1>21. ASSUME Calm, h[N].scraped PROVE C[N + 1].total = f[N]
  <2>0. C[N + 1] = [total |-> C[N].total + Increase(C[N].prev, V[N]), prev |-> V[N]] BY <1>1, <1>15, <1>21
  <2>1. C[N + 1].prev = V[N] BY <2>0
  <2>2. f[N] - C[N + 1].total = V[N] - C[N + 1].prev BY <1>18, <1>21
  <2> QED BY <1>19, <2>1, <2>2
<1> QED BY <1>7, <1>8, <1>9, <1>19, <1>20, <1>21 DEF p, N

\* Over all processes.
LEMMA CountsAreSound ==
  ASSUME NEW start \in Nat, NEW histories \in Seq(Seq(Intervals) \ {<<>>})
  PROVE  SoundCounts(start, histories, DeltasBy([i \in DOMAIN histories |-> Scraped(start, histories[i])]))
<1> DEFINE N == Len(histories)
           list == [i \in DOMAIN histories |-> Scraped(start, histories[i])]
           deltas == [i \in DOMAIN list |-> CounterDelta(list[i])]
           did == [i \in DOMAIN histories |-> Happened(histories[i])]
<1>1. N \in Nat /\ DOMAIN histories = 1..N /\ \A i \in 1..N : histories[i] \in Seq(Intervals) \ {<<>>} OBVIOUS
<1>2. DOMAIN list = 1..N /\ \A i \in 1..N : deltas[i] = CounterDelta(Scraped(start, histories[i])) BY <1>1
<1>3. \A i \in 1..N : did[i] = Happened(histories[i]) BY <1>1
<1>4. \A i \in 1..N :
        /\ deltas[i] \in Int /\ did[i] \in Int /\ deltas[i] <= did[i]
        /\ (\A k \in DOMAIN histories[i] : ~histories[i][k].restarted) /\ histories[i][Len(histories[i])].scraped
             => deltas[i] = did[i]
  <2> SUFFICES ASSUME NEW i \in 1..N
               PROVE  /\ deltas[i] \in Int /\ did[i] \in Int /\ deltas[i] <= did[i]
                      /\ (\A k \in DOMAIN histories[i] : ~histories[i][k].restarted)
                           /\ histories[i][Len(histories[i])].scraped => deltas[i] = did[i]
    OBVIOUS
  <2>1. histories[i] \in Seq(Intervals) /\ histories[i] # <<>> BY <1>1
  <2> HIDE DEF deltas, did
  <2> QED BY <1>2, <1>3, <2>1, OneCounter
<1>5. /\ deltas \in Seq(Int) /\ Len(deltas) = N /\ did \in Seq(Int) /\ Len(did) = N
  <2>1. deltas \in [1..N -> Int] BY <1>2, <1>4
  <2>2. did \in [1..N -> Int] BY <1>1, <1>4
  <2> HIDE DEF deltas, did, N
  <2> QED BY <1>1, <2>1, <2>2
<1>6. DeltasBy(list) = SumOf(deltas) BY DEF DeltasBy
<1> HIDE DEF deltas, did
<1>7. SumOf(deltas) <= SumOf(did) BY <1>4, <1>5, SumsCompare
<1>8. ASSUME \A i \in DOMAIN histories :
               /\ \A k \in DOMAIN histories[i] : ~histories[i][k].restarted
               /\ histories[i][Len(histories[i])].scraped
      PROVE  SumOf(deltas) = SumOf(did)
  <2>1. \A i \in 1..N : deltas[i] = did[i] BY <1>1, <1>4, <1>8
  <2>2. deltas = did
    <3>1. DOMAIN deltas = 1..N /\ DOMAIN did = 1..N BY <1>5
    <3>2. deltas = [i \in 1..N |-> deltas[i]] /\ did = [i \in 1..N |-> did[i]] BY <1>5, <3>1
    <3> QED BY <2>1, <3>2
  <2> QED BY <2>2
<1> QED BY <1>6, <1>7, <1>8 DEF SoundCounts, did, list

-----------------------------------------------------------------------------
(* Capacity and recovery. *)

Steps == [rps : Nat, bad : BOOLEAN]

\* The knee is the first of two steps in a row that break the SLO, or past the end.
LEMMA KneeFacts ==
  ASSUME NEW s \in Seq(Steps)
  PROVE  /\ Knee(s) \in 1..Len(s) + 1 /\ Knee(s) # Len(s)
         /\ Knee(s) <= Len(s) => s[Knee(s)].bad /\ s[Knee(s) + 1].bad
         /\ \A i \in 1..Len(s) - 1 : s[i].bad /\ s[i + 1].bad => Knee(s) <= i
<1> DEFINE N == Len(s)
           pairs == {i \in 1..N - 1 : s[i].bad /\ s[i + 1].bad}
           K == Knee(s)
<1>1. N \in Nat OBVIOUS
<1>2. K = Min(pairs \cup {N + 1}) BY DEF Knee
<1>3. pairs \subseteq 1..N - 1 OBVIOUS
<1> HIDE DEF N, K
<1>4. pairs \cup {N + 1} \subseteq Nat /\ pairs \cup {N + 1} # {} BY <1>1, <1>3
<1>5. K \in pairs \cup {N + 1} /\ \A i \in pairs \cup {N + 1} : K <= i
  <2> HIDE DEF pairs
  <2> QED BY <1>2, <1>4, MinOf
<1>6. \A i \in 1..N - 1 : s[i].bad /\ s[i + 1].bad => K <= i BY <1>5
<1>7. CASE K = N + 1
  <2>1. K \in 1..N + 1 /\ K # N /\ ~(K <= N) BY <1>1, <1>7
  <2> QED BY <1>6, <2>1 DEF N, K
<1>8. CASE K \in pairs
  <2>1. K \in 1..N + 1 /\ K # N BY <1>1, <1>8
  <2>2. s[K].bad /\ s[K + 1].bad BY <1>8
  <2> QED BY <1>6, <2>1, <2>2 DEF N, K
<1> QED BY <1>5, <1>7, <1>8

\* The rates within the SLO before step k.
Within(s, k) == {s[i].rps : i \in {j \in 1..k - 1 : ~s[j].bad}}
Top(s, k) == IF Within(s, k) = {} THEN NotANumber ELSE Max(Within(s, k))

\* The best of them is one of them, and grows with k.
LEMMA BoundedRates ==
  ASSUME NEW s \in Seq(Steps)
  PROVE  \E b \in Nat : \A i \in 1..Len(s) : s[i].rps <= b
<1> DEFINE N == Len(s)
           T == {k \in Nat : k <= N => \E b \in Nat : \A i \in 1..k : s[i].rps <= b}
<1>1. N \in Nat /\ \A i \in 1..N : s[i].rps \in Nat
  <2>1. \A i \in 1..N : s[i] \in Steps OBVIOUS
  <2> QED BY <2>1 DEF Steps
<1> HIDE DEF N
<1>2. 0 \in T
  <2>1. \A i \in 1..0 : s[i].rps <= 0 OBVIOUS
  <2> QED BY <2>1
<1>3. ASSUME NEW k \in T PROVE k + 1 \in T
  <2> SUFFICES ASSUME k + 1 <= N PROVE \E b \in Nat : \A i \in 1..k + 1 : s[i].rps <= b OBVIOUS
  <2>1. k \in Nat /\ k <= N /\ k + 1 \in 1..N BY <1>1
  <2>2. PICK b \in Nat : \A i \in 1..k : s[i].rps <= b BY <2>1
  <2> DEFINE c == IF s[k + 1].rps <= b THEN b ELSE s[k + 1].rps
  <2>3. c \in Nat /\ b <= c /\ s[k + 1].rps <= c BY <1>1, <2>1
  <2>4. ASSUME NEW i \in 1..k + 1 PROVE s[i].rps <= c
    <3>1. CASE i = k + 1 BY <2>3, <3>1
    <3>2. CASE i # k + 1
      <4>1. i \in 1..k /\ i \in 1..N BY <1>1, <2>1, <3>2
      <4>2. s[i].rps \in Nat /\ s[i].rps <= b BY <1>1, <2>2, <4>1
      <4> HIDE DEF c
      <4> QED BY <2>3, <4>2
    <3> QED BY <3>1, <3>2
  <2> QED BY <2>3, <2>4
<1>4. T = Nat
  <2>1. T \subseteq Nat OBVIOUS
  <2> HIDE DEF T
  <2> QED BY <1>2, <1>3, <2>1, SetInduction
<1>5. \E b \in Nat : \A i \in 1..N : s[i].rps <= b
  <2>1. N \in T
    <3> HIDE DEF T
    <3> QED BY <1>1, <1>4
  <2>2. \A k \in T : k <= N => \E b \in Nat : \A i \in 1..k : s[i].rps <= b OBVIOUS
  <2>3. N <= N BY <1>1
  <2> HIDE DEF T
  <2> QED BY <2>1, <2>2, <2>3
<1> QED BY <1>5 DEF N

LEMMA TopFacts ==
  ASSUME NEW s \in Seq(Steps), NEW k \in 1..Len(s) + 1
  PROVE  /\ Top(s, k) \in Int /\ Top(s, k) >= NotANumber
         /\ \A j \in 1..k - 1 : s[j].bad \/ s[j].rps <= Top(s, k)
         /\ Within(s, k) # {} => Top(s, k) \in Within(s, k)
<1>1. Len(s) \in Nat /\ \A i \in 1..Len(s) : s[i].rps \in Nat
  <2>1. \A i \in 1..Len(s) : s[i] \in Steps OBVIOUS
  <2> QED BY <2>1 DEF Steps
<1>2. PICK b \in Nat : \A i \in 1..Len(s) : s[i].rps <= b BY BoundedRates
<1>3. \A j \in 1..k - 1 : s[j].rps \in 0..b
  <2> SUFFICES ASSUME NEW j \in 1..k - 1 PROVE s[j].rps \in 0..b OBVIOUS
  <2>1. j \in 1..Len(s) BY <1>1
  <2>2. s[j].rps \in Nat /\ s[j].rps <= b BY <1>1, <1>2, <2>1
  <2> QED BY <2>2
<1>4. Within(s, k) \subseteq 0..b BY <1>3 DEF Within
<1>5. \A j \in 1..k - 1 : s[j].bad \/ s[j].rps \in Within(s, k) BY DEF Within
<1>6. CASE Within(s, k) = {}
  <2>1. Top(s, k) = NotANumber BY <1>6 DEF Top
  <2> QED BY <1>5, <1>6, <2>1 DEF NotANumber
<1>7. CASE Within(s, k) # {}
  <2>1. Top(s, k) = Max(Within(s, k)) BY <1>7 DEF Top
  <2>2. Top(s, k) \in Within(s, k) /\ \A n \in Within(s, k) : n <= Top(s, k) BY <1>4, <1>7, <2>1, MaxOf
  <2>3. Top(s, k) \in Int /\ Top(s, k) >= NotANumber BY <1>4, <2>2 DEF NotANumber
  <2> QED BY <1>5, <2>2, <2>3
<1> QED BY <1>6, <1>7

\* CapacityOf in these terms.
LEMMA CapacityIsTop ==
  ASSUME NEW s
  PROVE  /\ CapacityOf(s) = [rps |-> Top(s, Knee(s)), broke |-> Knee(s) <= Len(s)]
         /\ CapacityOf(s).rps = Top(s, Knee(s))
         /\ CapacityOf(s).broke <=> Knee(s) <= Len(s)
<1> DEFINE R(t, b) == [rps |-> t, broke |-> b]
<1>1. CapacityOf(s) = R(Top(s, Knee(s)), Knee(s) <= Len(s)) BY DEF CapacityOf, Top, Within
<1>2. \A t, b : R(t, b).rps = t /\ R(t, b).broke = b OBVIOUS
<1>3. CapacityOf(s).rps = Top(s, Knee(s)) BY <1>1, <1>2
<1>4. CapacityOf(s).broke = (Knee(s) <= Len(s)) BY <1>1
<1> QED BY <1>1, <1>3, <1>4

\* A longer ramp never lowers the capacity, nor changes one that was broken.
LEMMA LongerRamps ==
  ASSUME NEW s \in Seq(Steps), NEW n \in 1..Len(s)
  PROVE  LET shorter == CapacityOf(SubSeq(s, 1, n))
         IN IF shorter.broke THEN CapacityOf(s) = shorter ELSE shorter.rps <= CapacityOf(s).rps
<1> DEFINE r == SubSeq(s, 1, n)
           N == Len(s)
           K == Knee(s)
           J == Knee(r)
<1>1. /\ N \in Nat /\ n \in 1..N /\ r \in Seq(Steps) /\ Len(r) = n /\ \A i \in 1..n : r[i] = s[i]
  OBVIOUS
<1>2. /\ CapacityOf(s) = [rps |-> Top(s, K), broke |-> K <= N] /\ CapacityOf(s).rps = Top(s, K)
      /\ CapacityOf(r) = [rps |-> Top(r, J), broke |-> J <= n] /\ CapacityOf(r).rps = Top(r, J)
      /\ CapacityOf(r).broke <=> J <= n
  BY <1>1, CapacityIsTop
<1>3. /\ K \in 1..N + 1 /\ K # N
      /\ K <= N => s[K].bad /\ s[K + 1].bad
      /\ \A i \in 1..N - 1 : s[i].bad /\ s[i + 1].bad => K <= i
  BY KneeFacts
<1>4. /\ J \in 1..n + 1 /\ J # n
      /\ J <= n => r[J].bad /\ r[J + 1].bad
      /\ \A i \in 1..n - 1 : r[i].bad /\ r[i + 1].bad => J <= i
  <2> HIDE DEF r
  <2> QED BY <1>1, KneeFacts
<1>5. \A k \in 1..n + 1 : Within(r, k) = Within(s, k) /\ Top(r, k) = Top(s, k)
  <2> SUFFICES ASSUME NEW k \in 1..n + 1 PROVE Within(r, k) = Within(s, k) /\ Top(r, k) = Top(s, k) OBVIOUS
  <2>1. \A i \in 1..k - 1 : r[i] = s[i] BY <1>1
  <2>2. Within(r, k) = Within(s, k) BY <2>1 DEF Within
  <2> QED BY <2>2 DEF Top
<1> HIDE DEF r, K, J, N
<1>6. CASE J <= n
  <2>1. J \in 1..n - 1 /\ J + 1 \in 1..n /\ J \in 1..N - 1 BY <1>1, <1>4, <1>6
  <2>2. s[J].bad /\ s[J + 1].bad BY <1>1, <1>4, <1>6, <2>1
  <2>3. K <= J BY <1>3, <2>1, <2>2
  <2>4. K \in 1..n - 1 /\ K + 1 \in 1..n /\ K <= N BY <1>1, <1>3, <2>1, <2>3
  <2>5. r[K].bad /\ r[K + 1].bad BY <1>1, <1>3, <2>4
  <2>6. J <= K BY <1>4, <2>4, <2>5
  <2>7. K = J BY <1>3, <1>4, <2>3, <2>6
  <2>8. J \in 1..n + 1 BY <1>4
  <2>9. CapacityOf(s) = CapacityOf(r) BY <1>2, <1>5, <1>6, <2>4, <2>7, <2>8
  <2> QED BY <1>2, <1>6, <2>9 DEF r
<1>7. CASE ~(J <= n)
  <2>1. J = n + 1 BY <1>1, <1>4, <1>7
  <2>2. K >= n
    <3> SUFFICES ASSUME K < n PROVE FALSE BY <1>1, <1>3
    <3>1. K \in 1..n - 1 /\ K + 1 \in 1..n /\ K <= N BY <1>1, <1>3
    <3>2. r[K].bad /\ r[K + 1].bad BY <1>1, <1>3, <3>1
    <3>3. J <= K BY <1>4, <3>1, <3>2
    <3> QED BY <1>1, <1>3, <2>1, <3>3
  <2>3. ASSUME NEW j \in 1..n, ~s[j].bad PROVE j \in 1..K - 1
    <3>1. CASE K = n
      <4>1. K \in 1..N BY <1>1, <3>1
      <4>2. s[n].bad BY <1>3, <3>1, <4>1
      <4>3. j # n BY <2>3, <4>2
      <4> QED BY <1>1, <3>1, <4>3
    <3>2. CASE K # n BY <1>1, <1>3, <2>2, <3>2
    <3> QED BY <3>1, <3>2
  <2>4. n + 1 \in 1..N + 1 /\ (n + 1) - 1 = n BY <1>1
  <2>5. /\ Top(s, n + 1) \in Int /\ Top(s, K) \in Int /\ Top(s, K) >= NotANumber
        /\ Within(s, n + 1) # {} => Top(s, n + 1) \in Within(s, n + 1)
        /\ \A j \in 1..K - 1 : s[j].bad \/ s[j].rps <= Top(s, K)
    BY <1>3, <2>4, TopFacts DEF N
  <2>6. Top(s, n + 1) <= Top(s, K)
    <3>1. CASE Within(s, n + 1) = {}
      <4>1. Top(s, n + 1) = NotANumber BY <3>1 DEF Top
      <4> QED BY <2>5, <4>1 DEF NotANumber
    <3>2. CASE Within(s, n + 1) # {}
      <4>1. Top(s, n + 1) \in Within(s, n + 1) BY <2>5, <3>2
      <4>2. PICK j \in 1..n : ~s[j].bad /\ Top(s, n + 1) = s[j].rps BY <2>4, <4>1 DEF Within
      <4>3. j \in 1..K - 1 BY <2>3, <4>2
      <4> QED BY <2>5, <4>2, <4>3
    <3> QED BY <3>1, <3>2
  <2>7. n + 1 \in 1..n + 1 BY <1>1
  <2>8. Top(r, J) = Top(s, n + 1) BY <1>5, <2>1, <2>7
  <2>9. CapacityOf(r).rps <= CapacityOf(s).rps /\ ~CapacityOf(r).broke BY <1>2, <1>7, <2>6, <2>8
  <2> QED BY <2>9 DEF r
<1> QED BY <1>6, <1>7

LEMMA CapacityIsSound ==
  ASSUME NEW s \in Seq(Steps) PROVE SoundCapacity(s, CapacityOf(s))
<1> DEFINE K == Knee(s)
<1>1. \A n \in DOMAIN s :
        LET shorter == CapacityOf(SubSeq(s, 1, n))
        IN IF shorter.broke THEN CapacityOf(s) = shorter ELSE shorter.rps <= CapacityOf(s).rps
  BY LongerRamps
<1>2. ASSUME CapacityOf(s).broke
      PROVE  \E i \in 1..Len(s) - 1 :
               /\ s[i].bad /\ s[i + 1].bad
               /\ \A j \in 1..i - 1 : s[j].bad \/ s[j].rps <= CapacityOf(s).rps
  <2>2. K <= Len(s) /\ CapacityOf(s).rps = Top(s, K) BY <1>2, CapacityIsTop
  <2>3. K \in 1..Len(s) + 1 /\ K # Len(s) /\ s[K].bad /\ s[K + 1].bad BY <2>2, KneeFacts
  <2>4. \A j \in 1..K - 1 : s[j].bad \/ s[j].rps <= Top(s, K) BY <2>3, TopFacts
  <2>5. K \in 1..Len(s) - 1 BY <2>2, <2>3
  <2> HIDE DEF K
  <2> QED BY <2>2, <2>3, <2>4, <2>5
<1> QED BY <1>1, <1>2 DEF SoundCapacity

\* A recovery follows the last sample over the SLO before it.
LEMMA RecoveryIsReal ==
  ASSUME NEW p \in Seq(BOOLEAN), NEW first \in Nat \ {0}
  PROVE  SoundTimeline(p, first, Recovery(p, first))
<1> DEFINE r == Recovery(p, first)
           broken == Broken(p, first)
           m == Min(broken)
           after == {k \in DOMAIN p : /\ k >= m /\ k + GoodFor - 1 <= Len(p)
                                      /\ \A i \in k..k + GoodFor - 1 : ~p[i]}
<1> SUFFICES ASSUME r > 0
             PROVE  \E k \in first..r - 1 : p[k] /\ \A i \in k + 1..r + GoodFor - 1 : ~p[i]
  BY DEF SoundTimeline
<1>1. Len(p) \in Nat /\ DOMAIN p = 1..Len(p) /\ GoodFor \in Nat \ {0} BY GoodForAssumption DEF GoodForAssumption
<1>2. r = IF broken = {} THEN 0 ELSE IF after = {} THEN NotANumber ELSE Min(after) BY DEF Recovery
<1>3. broken = {k \in 1..Len(p) : k >= first /\ p[k]} BY <1>1 DEF Broken
<1> HIDE DEF r
<1>4. broken # {} /\ after # {} /\ r = Min(after) BY <1>2 DEF NotANumber
<1> HIDE DEF broken
<1>5. m \in broken
  <2>1. broken \subseteq Nat BY <1>3
  <2> QED BY <1>4, <2>1, MinOf
<1> HIDE DEF m
<1>6. m \in Nat /\ m >= first /\ p[m] BY <1>3, <1>5
<1>7. r \in after
  <2>1. after \subseteq Nat BY <1>1
  <2> HIDE DEF after
  <2> QED BY <1>4, <2>1, MinOf
<1>8. r \in Nat /\ r >= m /\ \A i \in r..r + GoodFor - 1 : ~p[i] BY <1>1, <1>7
<1>9. m < r
  <2> SUFFICES ASSUME m = r PROVE FALSE BY <1>6, <1>8
  <2>1. r \in r..r + GoodFor - 1 BY <1>1, <1>8
  <2> QED BY <1>6, <1>8, <2>1
<1> DEFINE over == {k \in first..r - 1 : p[k]}
           k == Max(over)
<1>10. over \subseteq 0..r /\ m \in over BY <1>6, <1>8, <1>9
<1>11. k \in over /\ \A i \in over : i <= k
  <2> HIDE DEF over
  <2> QED BY <1>8, <1>10, MaxOf
<1> HIDE DEF k
<1>12. k \in first..r - 1 /\ p[k] /\ k \in Nat BY <1>11
<1>13. ASSUME NEW i \in k + 1..r + GoodFor - 1 PROVE ~p[i]
  <2>1. i \in Int /\ i >= k + 1 /\ i <= r + GoodFor - 1 BY <1>1, <1>8, <1>12
  <2>2. CASE i >= r BY <1>8, <2>1, <2>2, <1>1
  <2>3. CASE i < r
    <3>1. i \in first..r - 1 /\ ~(i <= k) BY <1>8, <1>12, <2>1, <2>3
    <3> QED BY <1>11, <3>1
  <2> QED BY <1>8, <2>1, <2>2, <2>3
<1> QED BY <1>12, <1>13

-----------------------------------------------------------------------------
(* Rollout: who runs where. *)

\* A list of the members of a set, each once.
Lists(L, S) ==
  /\ L \in Seq(Nat)
  /\ \A k \in 1..Len(L) : L[k] \in S
  /\ \A h \in S : \E k \in 1..Len(L) : L[k] = h
  /\ \A j, k \in 1..Len(L) : L[j] = L[k] => j = k

LEMMA AppendLists ==
  ASSUME NEW L, NEW S, NEW x \in Nat, Lists(L, S), x \notin S PROVE Lists(Append(L, x), S \cup {x})
<1> DEFINE M == Append(L, x)
<1>1. /\ L \in Seq(Nat) /\ M \in Seq(Nat) /\ Len(L) \in Nat /\ Len(M) = Len(L) + 1
      /\ \A k \in 1..Len(L) : M[k] = L[k]
      /\ M[Len(L) + 1] = x
  BY DEF Lists
<1>2. \A k \in 1..Len(M) : k \in 1..Len(L) \/ k = Len(L) + 1 BY <1>1
<1>3. \A k \in 1..Len(L) : k \in 1..Len(M) /\ L[k] \in S BY <1>1 DEF Lists
<1>4. Len(L) + 1 \in 1..Len(M) BY <1>1
<1> HIDE DEF M
<1>5. \A k \in 1..Len(M) : M[k] \in S \cup {x} BY <1>1, <1>2, <1>3
<1>6. \A h \in S \cup {x} : \E k \in 1..Len(M) : M[k] = h
  <2> SUFFICES ASSUME NEW h \in S \cup {x} PROVE \E k \in 1..Len(M) : M[k] = h OBVIOUS
  <2>1. CASE h = x BY <1>1, <1>4, <2>1
  <2>2. CASE h # x
    <3>1. PICK k \in 1..Len(L) : L[k] = h BY <2>2 DEF Lists
    <3> QED BY <1>1, <1>3, <3>1
  <2> QED BY <2>1, <2>2
<1>7. ASSUME NEW j \in 1..Len(M), NEW k \in 1..Len(M), M[j] = M[k] PROVE j = k
  <2>1. CASE j \in 1..Len(L) /\ k \in 1..Len(L) BY <1>1, <1>7, <2>1 DEF Lists
  <2>2. CASE j \in 1..Len(L) /\ k = Len(L) + 1 BY <1>1, <1>3, <1>7, <2>2
  <2>3. CASE j = Len(L) + 1 /\ k \in 1..Len(L) BY <1>1, <1>3, <1>7, <2>3
  <2> QED BY <1>2, <2>1, <2>2, <2>3
<1> QED BY <1>1, <1>5, <1>6, <1>7 DEF Lists, M

Inventories == Seq(SUBSET Roles)
WithRole(inv, role) == {h \in 1..Len(inv) : role \in inv[h]}

\* The hosts with a role.
LEMMA OnlyFacts ==
  ASSUME NEW inv \in Inventories, NEW role PROVE Lists(Only(inv, role), WithRole(inv, role))
<1> DEFINE N == Len(inv)
           E == [n \in Nat |-> [x \in Seq(Nat) |-> IF n \in 1..N /\ role \in inv[n] THEN Append(x, n) ELSE x]]
           Step(f) == [h \in 0..N |->
                         IF h = 0 THEN <<>> ELSE IF role \in inv[h] THEN Append(f[h - 1], h) ELSE f[h - 1]]
           F == CHOOSE f : f = Step(f)
<1>1. N \in Nat BY DEF Inventories
<1>2. WithRole(inv, role) = {h \in 1..N : role \in inv[h]} BY DEF WithRole
<1> HIDE DEF N
<1>3. E \in [Nat -> [Seq(Nat) -> Seq(Nat)]] OBVIOUS
<1>4. PICK f \in [0..N -> Seq(Nat)] : Recursion(f, <<>>, E, N)
  <2>1. <<>> \in Seq(Nat) OBVIOUS
  <2> HIDE DEF E
  <2> QED BY <1>1, <1>3, <2>1, RecursionExists
<1>5. ASSUME NEW n \in 0..N
      PROVE  f[n] = IF n = 0 THEN <<>> ELSE IF role \in inv[n] THEN Append(f[n - 1], n) ELSE f[n - 1]
  <2> SUFFICES ASSUME n # 0
               PROVE  f[n] = IF role \in inv[n] THEN Append(f[n - 1], n) ELSE f[n - 1]
    BY <1>1, <1>4 DEF Recursion
  <2>1. f[n] = E[n][f[n - 1]]
    <3> HIDE DEF E
    <3> QED BY <1>4 DEF Recursion
  <2>2. n \in Nat /\ n \in 1..N /\ n - 1 \in 0..N BY <1>1
  <2>3. f[n - 1] \in Seq(Nat) BY <1>4, <2>2
  <2>4. E[n][f[n - 1]] = IF role \in inv[n] THEN Append(f[n - 1], n) ELSE f[n - 1] BY <2>2, <2>3
  <2> QED BY <2>1, <2>4
<1>6. f = Step(f)
  <2>1. f = [n \in 0..N |-> f[n]] BY <1>4
  <2> QED BY <1>5, <2>1
<1>7. F = Step(F)
  <2> HIDE DEF Step
  <2> QED BY <1>6
<1>8. Only(inv, role) = F[N] BY DEF Only, N
<1> HIDE DEF F
<1>9. \A h \in 0..N :
        F[h] = IF h = 0 THEN <<>> ELSE IF role \in inv[h] THEN Append(F[h - 1], h) ELSE F[h - 1]
  BY <1>7
<1> DEFINE Seen1(n) == {h \in 1..n : role \in inv[h]}
           T == {n \in Nat : n \in 0..N => Lists(F[n], Seen1(n))}
<1>10. T = Nat
  <2>1. 0 \in T
    <3>1. F[0] = <<>> /\ <<>> \in Seq(Nat) /\ Len(<<>>) = 0 BY <1>1, <1>9
    <3>2. Seen1(0) = {} OBVIOUS
    <3>3. Lists(F[0], Seen1(0)) BY <3>1, <3>2 DEF Lists
    <3> QED BY <3>3
  <2>2. ASSUME NEW n \in T PROVE n + 1 \in T
    <3> SUFFICES ASSUME n + 1 \in 0..N PROVE Lists(F[n + 1], Seen1(n + 1)) OBVIOUS
    <3>0. PICK m : m = n + 1 OBVIOUS
    <3>1. n \in 0..N /\ m \in 0..N /\ m # 0 /\ m - 1 = n /\ m \in Nat BY <1>1, <3>0
    <3>2. Lists(F[n], Seen1(n)) BY <3>1
    <3>3. F[m] = IF role \in inv[m] THEN Append(F[n], m) ELSE F[n] BY <1>9, <3>1
    <3>4. Seen1(m) = IF role \in inv[m] THEN Seen1(n) \cup {m} ELSE Seen1(n)
      <4>1. \A h : h \in 1..m <=> h \in 1..n \/ h = m BY <3>0, <3>1
      <4> QED BY <4>1
    <3>5. m \notin Seen1(n) BY <3>0, <3>1
    <3> HIDE DEF Seen1
    <3>6. Lists(F[m], Seen1(m)) BY <3>1, <3>2, <3>3, <3>4, <3>5, AppendLists
    <3> QED BY <3>0, <3>6
  <2>3. T \subseteq Nat OBVIOUS
  <2> HIDE DEF T
  <2> QED BY <2>1, <2>2, <2>3, SetInduction
<1>11. Lists(F[N], Seen1(N))
  <2>1. N \in T BY <1>1, <1>10
  <2> HIDE DEF Seen1
  <2>2. N \in 0..N BY <1>1
  <2> QED BY <2>1, <2>2
<1> QED BY <1>2, <1>8, <1>11

-----------------------------------------------------------------------------
\* The engines of a plan: hosts of H, each slot of a host once.
SlotRecords == [host : Nat, slot : 0..1]
Slots(ws, H) ==
  /\ ws \in Seq(SlotRecords)
  /\ \A k \in 1..Len(ws) : ws[k].host \in H
  /\ \A j, k \in 1..Len(ws) : ws[j] = ws[k] => j = k

\* Second slots are filled when every host has a first one.
FirstSlotsFirst(ws, H) ==
  \A k \in 1..Len(ws) : ws[k].slot = 1 => \A h \in H : \E j \in 1..Len(ws) : ws[j].host = h /\ ws[j].slot = 0

\* What the slots of a host list are: A[k] is slot s(k) of the i(k)-th host.
LEMMA DivFacts ==
  ASSUME NEW n \in Nat, n >= 1, NEW a \in 0..2 * n - 1
  PROVE  /\ a % n = IF a < n THEN a ELSE a - n
         /\ a \div n = IF a < n THEN 0 ELSE 1
<1>1. a \in Nat /\ n \in Nat OBVIOUS
<1>2. CASE a < n BY <1>2
<1>3. CASE ~(a < n) BY <1>3
<1> QED BY <1>2, <1>3

LEMMA WorkerSlotsFacts ==
  ASSUME NEW inv \in Inventories, NEW env, env.perHost \in 1..2, env.placement \in {"spread", "pack"},
         WorkerCount(inv, env) \in 1..Len(AllSlots(inv, env))
  PROVE  /\ Slots(WorkerSlots(inv, env), WithRole(inv, "worker"))
         /\ env.placement = "spread" => FirstSlotsFirst(WorkerSlots(inv, env), WithRole(inv, "worker"))
<1> DEFINE L == Only(inv, "worker")
           H == WithRole(inv, "worker")
           n == Len(L)
           p == env.perHost
           m == n * p
           A == AllSlots(inv, env)
           c == WorkerCount(inv, env)
           ws == WorkerSlots(inv, env)
           pack == env.placement = "pack"
           i == [k \in 1..m |-> IF pack THEN ((k - 1) \div p) + 1 ELSE ((k - 1) % n) + 1]
           s == [k \in 1..m |-> IF pack THEN (k - 1) % p ELSE (k - 1) \div n]
<1>1. Lists(L, H) BY OnlyFacts
<1>2. n \in Nat /\ \A k \in 1..n : L[k] \in Nat /\ L[k] \in H BY <1>1 DEF Lists
<1>3. \A j, k \in 1..n : L[j] = L[k] => j = k BY <1>1 DEF Lists
<1>4. \A h \in H : \E k \in 1..n : L[k] = h BY <1>1 DEF Lists
<1>5. p \in 1..2 /\ m \in Nat /\ m = n * p /\ m <= 2 * n BY <1>2
<1>6. A = [k \in 1..m |-> IF pack THEN [host |-> L[((k - 1) \div p) + 1], slot |-> (k - 1) % p]
                              ELSE [host |-> L[((k - 1) % n) + 1], slot |-> (k - 1) \div n]]
  BY DEF AllSlots
<1>7. \A k \in 1..m : A[k] = [host |-> L[i[k]], slot |-> s[k]] BY <1>6
<1>8. ASSUME NEW k \in 1..m
      PROVE  /\ i[k] \in 1..n /\ s[k] \in 0..1
             /\ pack => k = p * (i[k] - 1) + s[k] + 1
             /\ ~pack => k = i[k] + n * s[k] /\ (s[k] = 0 => k <= n)
  <2>1. n \in Nat /\ n >= 1 /\ k - 1 \in 0..2 * n - 1 /\ k - 1 \in Nat BY <1>2, <1>5
  <2>2. CASE pack /\ p = 1
    <3>1. (k - 1) \div 1 = k - 1 /\ (k - 1) % 1 = 0 BY <2>1
    <3>2. i[k] = k /\ s[k] = 0 BY <2>1, <2>2, <3>1
    <3> HIDE DEF i, s
    <3> QED BY <1>5, <2>2, <3>2
  <2>3. CASE pack /\ p = 2
    <3> DEFINE a == k - 1
               q == a \div 2
               r == a % 2
    <3>1. a \in Nat BY <2>1
    <3>2. q \in Nat /\ r \in 0..1 /\ a = 2 * q + r BY <3>1
    <3>3. i[k] = q + 1 /\ s[k] = r BY <2>3
    <3>4. k = a + 1 /\ a <= 2 * n - 1 BY <1>5, <2>1, <2>3
    <3> HIDE DEF i, s, a, q, r, n, m, p, pack
    <3>5. q + 1 \in 1..n BY <2>1, <3>2, <3>4
    <3>6. k = 2 * (i[k] - 1) + s[k] + 1 BY <3>2, <3>3, <3>4
    <3>7. i[k] \in 1..n /\ s[k] \in 0..1 BY <3>2, <3>3, <3>5
    <3> QED BY <2>3, <3>6, <3>7
  <2>4. CASE ~pack
    <3>1. i[k] = ((k - 1) % n) + 1 /\ s[k] = (k - 1) \div n BY <2>4
    <3>2. /\ (k - 1) % n = IF k - 1 < n THEN k - 1 ELSE (k - 1) - n
          /\ (k - 1) \div n = IF k - 1 < n THEN 0 ELSE 1
      BY <2>1, DivFacts
    <3> HIDE DEF i, s
    <3>3. CASE k - 1 < n
      <4>1. i[k] = k /\ s[k] = 0 BY <2>1, <3>1, <3>2, <3>3
      <4> QED BY <2>1, <2>4, <3>3, <4>1
    <3>4. CASE ~(k - 1 < n)
      <4>1. i[k] = k - n /\ s[k] = 1 BY <2>1, <3>1, <3>2, <3>4
      <4> QED BY <2>1, <2>4, <3>4, <4>1
    <3> QED BY <3>3, <3>4
  <2> QED BY <1>5, <2>2, <2>3, <2>4
<1>9. A \in Seq(SlotRecords) /\ Len(A) = m
  <2>1. \A k \in 1..m : A[k] \in SlotRecords
    <3> SUFFICES ASSUME NEW k \in 1..m PROVE A[k] \in SlotRecords OBVIOUS
    <3>1. i[k] \in 1..n /\ s[k] \in 0..1 BY <1>8
    <3>2. A[k] = [host |-> L[i[k]], slot |-> s[k]] BY <1>7
    <3> HIDE DEF i, s, A, L, n, m
    <3>3. L[i[k]] \in Nat BY <1>2, <3>1
    <3> QED BY <3>1, <3>2, <3>3 DEF SlotRecords
  <2>2. DOMAIN A = 1..m /\ A = [k \in 1..m |-> A[k]] BY <1>6
  <2> HIDE DEF A, n, p, m
  <2> QED BY <1>5, <2>1, <2>2
<1>10. c \in 1..m /\ c \in Nat /\ c <= Len(A)
  <2>1. c \in 1..Len(A) OBVIOUS
  <2> HIDE DEF c, A, n, p, m
  <2> QED BY <1>5, <1>9, <2>1
<1>11. ws = SubSeq(A, 1, c) BY DEF WorkerSlots
<1> HIDE DEF i, s, A, L, H, n, p, m, c, pack, ws
<1>12. ws \in Seq(SlotRecords) /\ Len(ws) = c /\ \A k \in 1..c : ws[k] = A[k]
  <2>1. \A k \in 1..c : k \in 1..Len(A) /\ A[k] \in SlotRecords BY <1>9, <1>10
  <2> QED BY <1>9, <1>10, <1>11, <2>1
<1>13. \A k \in 1..c : ws[k].host = L[i[k]] /\ ws[k].slot = s[k]
  <2> SUFFICES ASSUME NEW k \in 1..c PROVE ws[k].host = L[i[k]] /\ ws[k].slot = s[k] OBVIOUS
  <2>1. k \in 1..m BY <1>5, <1>10
  <2>2. ws[k] = [host |-> L[i[k]], slot |-> s[k]] BY <1>7, <1>12, <2>1
  <2> QED BY <2>2
<1>14. Slots(ws, H)
  <2>1. \A k \in 1..c : ws[k].host \in H
    <3> SUFFICES ASSUME NEW k \in 1..c PROVE ws[k].host \in H OBVIOUS
    <3>1. i[k] \in 1..n BY <1>5, <1>8, <1>10
    <3> QED BY <1>2, <1>13, <3>1
  <2>2. ASSUME NEW j \in 1..c, NEW k \in 1..c, ws[j] = ws[k] PROVE j = k
    <3>0. j \in 1..m /\ k \in 1..m BY <1>5, <1>10
    <3>1. L[i[j]] = L[i[k]] /\ s[j] = s[k] BY <1>13, <2>2
    <3>2. i[j] \in 1..n /\ i[k] \in 1..n BY <1>8, <3>0
    <3>3. i[j] = i[k] BY <1>3, <3>1, <3>2
    <3>4. CASE pack
      <4>1. j = p * (i[j] - 1) + s[j] + 1 /\ k = p * (i[k] - 1) + s[k] + 1 BY <1>8, <3>0, <3>4
      <4> QED BY <3>1, <3>3, <4>1
    <3>5. CASE ~pack
      <4>1. j = i[j] + n * s[j] /\ k = i[k] + n * s[k] BY <1>8, <3>0, <3>5
      <4> QED BY <3>1, <3>3, <4>1
    <3> QED BY <3>4, <3>5
  <2> QED BY <1>12, <2>1, <2>2 DEF Slots
<1>15. ASSUME ~pack PROVE FirstSlotsFirst(ws, H)
  <2> SUFFICES ASSUME NEW k \in 1..c, ws[k].slot = 1, NEW h \in H
               PROVE  \E j \in 1..c : ws[j].host = h /\ ws[j].slot = 0
    BY <1>12 DEF FirstSlotsFirst
  <2>1. PICK j \in 1..n : L[j] = h BY <1>4
  <2>2. k \in 1..m /\ s[k] = 1 BY <1>5, <1>10, <1>13
  <2>3. k = i[k] + n /\ i[k] \in 1..n BY <1>2, <1>8, <1>15, <2>2
  <2>4. j \in 1..c /\ j \in 1..m BY <1>2, <1>5, <1>10, <2>1, <2>2, <2>3
  <2>5. /\ i[j] \in 1..n /\ s[j] \in 0..1 /\ j = i[j] + n * s[j] BY <1>8, <1>15, <2>4
  <2>6. s[j] = 0 /\ i[j] = j
    <3>1. CASE s[j] = 1 BY <1>2, <2>1, <2>5, <3>1
    <3>2. CASE s[j] = 0 BY <1>2, <2>1, <2>5, <3>2
    <3> QED BY <2>5, <3>1, <3>2
  <2> QED BY <1>13, <2>1, <2>4, <2>6
<1>16. env.placement = "spread" => ~pack BY DEF pack
<1> QED BY <1>14, <1>15, <1>16 DEF ws, H

\* Hosts that become API hosts were worker hosts.
LEMMA ApplyApiHostsFacts ==
  ASSUME NEW inv \in Inventories, NEW env, env.apiHosts \in Int, ApiHostsFit(inv, env)
  PROVE  /\ ApplyApiHosts(inv, env) \in Inventories /\ Len(ApplyApiHosts(inv, env)) = Len(inv)
         /\ \A h \in 1..Len(inv) :
              \/ ApplyApiHosts(inv, env)[h] = inv[h]
              \/ /\ "worker" \in inv[h]
                 /\ ApplyApiHosts(inv, env)[h] = (inv[h] \ {"worker"}) \cup {"api"}
<1> DEFINE out == ApplyApiHosts(inv, env)
           N == Len(inv)
           workers == Only(inv, "worker")
           W == Len(workers)
           more == IF env.apiHosts = Empty THEN 0 ELSE env.apiHosts - Len(Only(inv, "api"))
           convert == {workers[k] : k \in W - more + 1..W}
<1>1. N \in Nat /\ DOMAIN inv = 1..N /\ \A h \in 1..N : inv[h] \in SUBSET Roles BY DEF Inventories
<1>2. "api" \in Roles BY DEF Roles
<1>3. Lists(workers, WithRole(inv, "worker")) /\ Lists(Only(inv, "api"), WithRole(inv, "api")) BY OnlyFacts
<1>4. W \in Nat /\ Len(Only(inv, "api")) \in Nat BY <1>3 DEF Lists
<1>5. more \in Nat /\ (more > 0 => more < W) BY <1>4 DEF ApiHostsFit
<1>6. out = [h \in DOMAIN inv |-> IF h \in convert THEN (inv[h] \ {"worker"}) \cup {"api"} ELSE inv[h]]
  BY DEF ApplyApiHosts
<1> HIDE DEF more, workers, W
<1>7. \A k \in W - more + 1..W : k \in 1..W BY <1>4, <1>5
<1>8. \A h \in convert : "worker" \in inv[h] BY <1>3, <1>7 DEF Lists, WithRole, W
<1> HIDE DEF convert, out, N
<1>9. out \in [1..N -> SUBSET Roles] BY <1>1, <1>2, <1>6
<1>10. out \in Inventories /\ Len(out) = N BY <1>1, <1>9 DEF Inventories
<1>11. \A h \in 1..N : out[h] = inv[h] \/ ("worker" \in inv[h] /\ out[h] = (inv[h] \ {"worker"}) \cup {"api"})
  BY <1>1, <1>6, <1>8
<1> QED BY <1>10, <1>11 DEF out, N

-----------------------------------------------------------------------------
(* The services of a plan. *)

Names == {"engine-a", "engine-b", "api", "nginx", "nginx-exporter", "redis", "prometheus", "grafana",
          "node-exporter", "cadvisor"}

\* The ports of a service, and whose a port is.
PortsOf(name) ==
  CASE name = "engine-a" -> {PortBase, PortBase + 1}
    [] name = "engine-b" -> {PortBase + 10, PortBase + 11}
    [] name = "api" -> {4000, 9464}
    [] name = "nginx" -> {80}
    [] name = "nginx-exporter" -> {9113}
    [] name = "redis" -> {6379}
    [] name = "prometheus" -> {9090}
    [] name = "grafana" -> {3000}
    [] name = "node-exporter" -> {9100}
    [] name = "cadvisor" -> {8080}

NameAt(port) ==
  CASE port \in {PortBase, PortBase + 1} -> "engine-a"
    [] port \in {PortBase + 10, PortBase + 11} -> "engine-b"
    [] port \in {4000, 9464} -> "api"
    [] port = 80 -> "nginx"
    [] port = 9113 -> "nginx-exporter"
    [] port = 6379 -> "redis"
    [] port = 9090 -> "prometheus"
    [] port = 3000 -> "grafana"
    [] port = 9100 -> "node-exporter"
    [] port = 8080 -> "cadvisor"

LEMMA PortsApart ==
  ASSUME NEW name \in Names, NEW port \in PortsOf(name) PROVE NameAt(port) = name
<1>1. PortBase \in Nat /\ {PortBase, PortBase + 1, PortBase + 10, PortBase + 11} \cap FixedPorts = {}
  BY PortsAssumption DEF PortsAssumption
<1>2. CASE name = "engine-a"
  <2>1. port \in {PortBase, PortBase + 1} BY <1>2 DEF PortsOf
  <2>2. port \notin FixedPorts BY <1>1, <2>1
  <2>3. port \notin {PortBase + 10, PortBase + 11} BY <1>1, <2>1
  <2> QED BY <1>2, <2>1, <2>2, <2>3 DEF NameAt, FixedPorts
<1>3. CASE name = "engine-b"
  <2>1. port \in {PortBase + 10, PortBase + 11} BY <1>3 DEF PortsOf
  <2>2. port \notin FixedPorts BY <1>1, <2>1
  <2>3. port \notin {PortBase, PortBase + 1} BY <1>1, <2>1
  <2> QED BY <1>3, <2>1, <2>2, <2>3 DEF NameAt, FixedPorts
<1>4. CASE name = "api" BY <1>1, <1>4 DEF PortsOf, NameAt, FixedPorts
<1>5. CASE name = "nginx" BY <1>1, <1>5 DEF PortsOf, NameAt, FixedPorts
<1>6. CASE name = "nginx-exporter" BY <1>1, <1>6 DEF PortsOf, NameAt, FixedPorts
<1>7. CASE name = "redis" BY <1>1, <1>7 DEF PortsOf, NameAt, FixedPorts
<1>8. CASE name = "prometheus" BY <1>1, <1>8 DEF PortsOf, NameAt, FixedPorts
<1>9. CASE name = "grafana" BY <1>1, <1>9 DEF PortsOf, NameAt, FixedPorts
<1>10. CASE name = "node-exporter" BY <1>1, <1>10 DEF PortsOf, NameAt, FixedPorts
<1>11. CASE name = "cadvisor" BY <1>1, <1>11 DEF PortsOf, NameAt, FixedPorts
<1> QED BY <1>2, <1>3, <1>4, <1>5, <1>6, <1>7, <1>8, <1>9, <1>10, <1>11 DEF Names

\* The hosts that run a service.
RunsOn(inv, ws, name) ==
  CASE name = "engine-a" -> {ws[k].host : k \in {j \in 1..Len(ws) : ws[j].slot = 0}}
    [] name = "engine-b" -> {ws[k].host : k \in {j \in 1..Len(ws) : ws[j].slot = 1}}
    [] name = "api" -> WithRole(inv, "api")
    [] name \in {"nginx", "nginx-exporter"} -> WithRole(inv, "nginx")
    [] name = "redis" -> WithRole(inv, "redis")
    [] name \in {"prometheus", "grafana"} -> WithRole(inv, "monitoring")
    [] name \in {"node-exporter", "cadvisor"} -> 1..Len(inv)

\* The services of one name.
ServicesNamed(inv, ws, name) == {Service(name, h, PortsOf(name)) : h \in RunsOn(inv, ws, name)}

LEMMA ServicesFacts ==
  ASSUME NEW inv \in Inventories, NEW env, NEW H, Slots(WorkerSlots(inv, env), H)
  PROVE  \A s : s \in ServicesOf(inv, env) <=> \E name \in Names : s \in ServicesNamed(inv, WorkerSlots(inv, env), name)
<1> DEFINE ws == WorkerSlots(inv, env)
           N == Len(inv)
           Engine(k) == Service(EngineName(ws[k].slot), ws[k].host, {Port(ws[k].slot), AdminPort(ws[k].slot)})
           Engines == {Engine(k) : k \in DOMAIN ws}
           In(role) == {x \in DOMAIN inv : role \in inv[x]}
           On(role, name, ports) == {Service(name, h, ports) : h \in In(role)}
           All(name, ports) == {Service(name, h, ports) : h \in DOMAIN inv}
           I(name) == ServicesNamed(inv, ws, name)
<1>1. N \in Nat /\ DOMAIN inv = 1..N BY DEF Inventories
<1>2. /\ ws \in Seq(SlotRecords) /\ DOMAIN ws = 1..Len(ws)
      /\ \A k \in 1..Len(ws) : ws[k].slot \in 0..1
  <2> HIDE DEF ws
  <2>1. ws \in Seq(SlotRecords) BY DEF Slots, ws
  <2>2. \A k \in 1..Len(ws) : ws[k] \in SlotRecords BY <2>1
  <2> QED BY <2>1, <2>2 DEF SlotRecords
<1>3. ServicesOf(inv, env) =
        Engines \cup On("api", "api", {4000, 9464})
          \cup On("nginx", "nginx", {80}) \cup On("nginx", "nginx-exporter", {9113})
          \cup On("redis", "redis", {6379})
          \cup On("monitoring", "prometheus", {9090}) \cup On("monitoring", "grafana", {3000})
          \cup All("node-exporter", {9100}) \cup All("cadvisor", {8080})
  BY DEF ServicesOf
<1>4. \A role : In(role) = WithRole(inv, role) BY <1>1 DEF WithRole
<1>5. On("api", "api", {4000, 9464}) = I("api") BY <1>4 DEF ServicesNamed, RunsOn, PortsOf
<1>6. On("nginx", "nginx", {80}) = I("nginx") BY <1>4 DEF ServicesNamed, RunsOn, PortsOf
<1>7. On("nginx", "nginx-exporter", {9113}) = I("nginx-exporter") BY <1>4 DEF ServicesNamed, RunsOn, PortsOf
<1>8. On("redis", "redis", {6379}) = I("redis") BY <1>4 DEF ServicesNamed, RunsOn, PortsOf
<1>9. On("monitoring", "prometheus", {9090}) = I("prometheus") BY <1>4 DEF ServicesNamed, RunsOn, PortsOf
<1>10. On("monitoring", "grafana", {3000}) = I("grafana") BY <1>4 DEF ServicesNamed, RunsOn, PortsOf
<1>11. All("node-exporter", {9100}) = I("node-exporter") BY <1>1 DEF ServicesNamed, RunsOn, PortsOf
<1>12. All("cadvisor", {8080}) = I("cadvisor") BY <1>1 DEF ServicesNamed, RunsOn, PortsOf
<1>13. Engines = I("engine-a") \cup I("engine-b")
  <2>1. PortBase \in Nat BY PortsAssumption DEF PortsAssumption
  <2>2. /\ Port(0) = PortBase /\ AdminPort(0) = PortBase + 1
        /\ Port(1) = PortBase + 10 /\ AdminPort(1) = PortBase + 11
    BY <2>1 DEF Port, AdminPort
  <2>3. EngineName(0) = "engine-a" /\ EngineName(1) = "engine-b" BY DEF EngineName
  <2>4. PortsOf("engine-a") = {PortBase, PortBase + 1} /\ PortsOf("engine-b") = {PortBase + 10, PortBase + 11}
    BY DEF PortsOf
  <2>5. ASSUME NEW k \in 1..Len(ws)
        PROVE  Engine(k) = IF ws[k].slot = 0 THEN Service("engine-a", ws[k].host, PortsOf("engine-a"))
                           ELSE Service("engine-b", ws[k].host, PortsOf("engine-b"))
    <3>1. ws[k].slot = 0 \/ ws[k].slot = 1 BY <1>2
    <3> QED BY <2>2, <2>3, <2>4, <3>1
  <2>6. /\ RunsOn(inv, ws, "engine-a") = {ws[k].host : k \in {j \in 1..Len(ws) : ws[j].slot = 0}}
        /\ RunsOn(inv, ws, "engine-b") = {ws[k].host : k \in {j \in 1..Len(ws) : ws[j].slot = 1}}
    BY DEF RunsOn
  <2> HIDE DEF Engine, ws
  <2>7. ASSUME NEW s \in Engines PROVE s \in I("engine-a") \cup I("engine-b")
    <3>1. PICK k \in 1..Len(ws) : s = Engine(k) BY <1>2, <2>7
    <3>2. CASE ws[k].slot = 0 BY <2>5, <2>6, <3>1, <3>2 DEF ServicesNamed
    <3>3. CASE ws[k].slot # 0
      <4>1. ws[k].slot = 1 BY <1>2, <3>3
      <4> QED BY <2>5, <2>6, <3>1, <3>3, <4>1 DEF ServicesNamed
    <3> QED BY <3>2, <3>3
  <2>8. ASSUME NEW s \in I("engine-a") PROVE s \in Engines
    <3>1. PICK h \in RunsOn(inv, ws, "engine-a") : s = Service("engine-a", h, PortsOf("engine-a"))
      BY <2>8 DEF ServicesNamed
    <3>2. PICK k \in 1..Len(ws) : ws[k].slot = 0 /\ ws[k].host = h BY <2>6, <3>1
    <3>3. s = Engine(k) BY <2>5, <3>1, <3>2
    <3> QED BY <1>2, <3>3
  <2>9. ASSUME NEW s \in I("engine-b") PROVE s \in Engines
    <3>1. PICK h \in RunsOn(inv, ws, "engine-b") : s = Service("engine-b", h, PortsOf("engine-b"))
      BY <2>9 DEF ServicesNamed
    <3>2. PICK k \in 1..Len(ws) : ws[k].slot = 1 /\ ws[k].host = h BY <2>6, <3>1
    <3>3. s = Engine(k) BY <2>5, <3>1, <3>2
    <3> QED BY <1>2, <3>3
  <2> HIDE DEF I, Engines
  <2> QED BY <2>7, <2>8, <2>9
<1> HIDE DEF Engines, On, All, I
<1>14. ServicesOf(inv, env) = I("engine-a") \cup I("engine-b") \cup I("api") \cup I("nginx")
         \cup I("nginx-exporter") \cup I("redis") \cup I("prometheus") \cup I("grafana")
         \cup I("node-exporter") \cup I("cadvisor")
  BY <1>3, <1>5, <1>6, <1>7, <1>8, <1>9, <1>10, <1>11, <1>12, <1>13
<1>15. \A s : s \in ServicesOf(inv, env) <=> \E name \in Names : s \in I(name) BY <1>14 DEF Names
<1> QED BY <1>15 DEF I, ws

\* Services by name and host.
LEMMA ServicesByName ==
  ASSUME NEW inv \in Inventories, NEW env, NEW H, Slots(WorkerSlots(inv, env), H)
  PROVE  /\ \A s \in ServicesOf(inv, env) :
              /\ s.name \in Names /\ s.host \in RunsOn(inv, WorkerSlots(inv, env), s.name)
              /\ s = Service(s.name, s.host, PortsOf(s.name)) /\ s.ports = PortsOf(s.name)
         /\ \A name \in Names : \A h \in RunsOn(inv, WorkerSlots(inv, env), name) :
              Service(name, h, PortsOf(name)) \in ServicesOf(inv, env)
<1> DEFINE ws == WorkerSlots(inv, env)
           S == ServicesOf(inv, env)
<1>1. \A s : s \in S <=> \E name \in Names : s \in ServicesNamed(inv, ws, name) BY ServicesFacts
<1> HIDE DEF ws, S
<1>2. ASSUME NEW s \in S
      PROVE  /\ s.name \in Names /\ s.host \in RunsOn(inv, ws, s.name)
             /\ s = Service(s.name, s.host, PortsOf(s.name)) /\ s.ports = PortsOf(s.name)
  <2>1. PICK name \in Names : s \in ServicesNamed(inv, ws, name) BY <1>1
  <2>2. PICK h \in RunsOn(inv, ws, name) : s = Service(name, h, PortsOf(name)) BY <2>1 DEF ServicesNamed
  <2>3. s.name = name /\ s.host = h /\ s.ports = PortsOf(name) BY <2>2 DEF Service
  <2> QED BY <2>2, <2>3
<1>3. \A name \in Names : \A h \in RunsOn(inv, ws, name) : Service(name, h, PortsOf(name)) \in S
  BY <1>1 DEF ServicesNamed
<1> QED BY <1>2, <1>3 DEF ws, S

\* No two services of a host want one port.
LEMMA NoPortClash ==
  ASSUME NEW inv \in Inventories, NEW env, NEW H, Slots(WorkerSlots(inv, env), H),
         NEW s \in ServicesOf(inv, env), NEW t \in ServicesOf(inv, env), s # t, s.host = t.host
  PROVE  s.ports \cap t.ports = {}
<1>1. /\ s.name \in Names /\ s = Service(s.name, s.host, PortsOf(s.name)) /\ s.ports = PortsOf(s.name)
      /\ t.name \in Names /\ t = Service(t.name, t.host, PortsOf(t.name)) /\ t.ports = PortsOf(t.name)
  BY ServicesByName
<1> SUFFICES ASSUME NEW port \in s.ports \cap t.ports PROVE FALSE OBVIOUS
<1>2. NameAt(port) = s.name /\ NameAt(port) = t.name BY <1>1, PortsApart
<1> QED BY <1>1, <1>2

\* A set that is numbered from 1 to n has n members.
LEMMA NumberedSet ==
  ASSUME NEW n \in Nat, NEW S, NEW f \in [1..n -> S], \A s \in S : \E k \in 1..n : f[k] = s,
         \A j, k \in 1..n : f[j] = f[k] => j = k
  PROVE  Cardinality(S) = n
<1>1. IsFiniteSet(1..n) /\ Cardinality(1..n) = n BY FS_Interval
<1>2. f \in Surjection(1..n, S) /\ f \in Injection(1..n, S) BY DEF Surjection, Injection, IsInjective
<1> QED BY <1>1, <1>2, FS_Surjection

\* Engine k of a plan.
EngineOf(ws, k) ==
  IF ws[k].slot = 0 THEN Service("engine-a", ws[k].host, PortsOf("engine-a"))
  ELSE Service("engine-b", ws[k].host, PortsOf("engine-b"))

Engines(inv, env) == {s \in ServicesOf(inv, env) : s.name \in {EngineName(0), EngineName(1)}}

LEMMA EnginesFacts ==
  ASSUME NEW inv \in Inventories, NEW env, NEW H, Slots(WorkerSlots(inv, env), H)
  PROVE  /\ \A k \in 1..Len(WorkerSlots(inv, env)) : EngineOf(WorkerSlots(inv, env), k) \in Engines(inv, env)
         /\ \A s \in Engines(inv, env) :
              \E k \in 1..Len(WorkerSlots(inv, env)) : s = EngineOf(WorkerSlots(inv, env), k)
         /\ Cardinality(Engines(inv, env)) = Len(WorkerSlots(inv, env))
<1> DEFINE ws == WorkerSlots(inv, env)
           S == ServicesOf(inv, env)
           engines == {s \in S : s.name \in {EngineName(0), EngineName(1)}}
           N == Len(ws)
<1>1. /\ \A s \in S : /\ s.host \in RunsOn(inv, ws, s.name)
                      /\ s = Service(s.name, s.host, PortsOf(s.name))
      /\ \A name \in Names : \A h \in RunsOn(inv, ws, name) : Service(name, h, PortsOf(name)) \in S
  BY ServicesByName
<1>2. {EngineName(0), EngineName(1)} = {"engine-a", "engine-b"} BY DEF EngineName
<1> HIDE DEF ws, S
<1>3. ws \in Seq(SlotRecords) /\ N \in Nat /\ \A k \in 1..N : ws[k] \in SlotRecords BY DEF Slots, ws
<1>4. \A k \in 1..N : ws[k].slot \in 0..1 /\ ws[k] = [host |-> ws[k].host, slot |-> ws[k].slot]
                      /\ (ws[k].slot = 0 \/ ws[k].slot = 1)
  BY <1>3 DEF SlotRecords
<1>5. \A j, k \in 1..N : ws[j] = ws[k] => j = k BY DEF Slots, ws
<1>6. /\ RunsOn(inv, ws, "engine-a") = {ws[k].host : k \in {j \in 1..N : ws[j].slot = 0}}
      /\ RunsOn(inv, ws, "engine-b") = {ws[k].host : k \in {j \in 1..N : ws[j].slot = 1}}
  BY DEF RunsOn
<1> HIDE DEF N
<1>7. ASSUME NEW k \in 1..N PROVE EngineOf(ws, k) \in engines
  <2>1. CASE ws[k].slot = 0
    <3>1. ws[k].host \in RunsOn(inv, ws, "engine-a") BY <1>6, <2>1
    <3>2. EngineOf(ws, k) \in S BY <1>1, <2>1, <3>1 DEF EngineOf, Names
    <3>3. EngineOf(ws, k).name = "engine-a" BY <2>1 DEF EngineOf, Service
    <3> QED BY <1>2, <3>2, <3>3
  <2>2. CASE ws[k].slot = 1
    <3>1. ws[k].host \in RunsOn(inv, ws, "engine-b") BY <1>6, <2>2
    <3>2. EngineOf(ws, k) \in S BY <1>1, <2>2, <3>1 DEF EngineOf, Names
    <3>3. EngineOf(ws, k).name = "engine-b" BY <2>2 DEF EngineOf, Service
    <3> QED BY <1>2, <3>2, <3>3
  <2> QED BY <1>4, <2>1, <2>2
<1>8. ASSUME NEW s \in engines PROVE \E k \in 1..N : s = EngineOf(ws, k)
  <2>1. s \in S /\ s.name \in {"engine-a", "engine-b"} BY <1>2
  <2>2. CASE s.name = "engine-a"
    <3>1. PICK k \in 1..N : ws[k].slot = 0 /\ ws[k].host = s.host BY <1>1, <1>6, <2>1, <2>2
    <3> QED BY <1>1, <2>1, <2>2, <3>1 DEF EngineOf
  <2>3. CASE s.name = "engine-b"
    <3>1. PICK k \in 1..N : ws[k].slot = 1 /\ ws[k].host = s.host BY <1>1, <1>6, <2>1, <2>3
    <3> QED BY <1>1, <2>1, <2>3, <3>1 DEF EngineOf
  <2> QED BY <2>1, <2>2, <2>3
<1>9. ASSUME NEW j \in 1..N, NEW k \in 1..N, EngineOf(ws, j) = EngineOf(ws, k) PROVE j = k
  <2>1. \A i \in 1..N : /\ EngineOf(ws, i).host = ws[i].host
                        /\ ws[i].slot = 0 => EngineOf(ws, i).name = "engine-a"
                        /\ ws[i].slot = 1 => EngineOf(ws, i).name = "engine-b"
    BY DEF EngineOf, Service
  <2>2. ws[j].host = ws[k].host /\ EngineOf(ws, j).name = EngineOf(ws, k).name BY <1>9, <2>1
  <2>3. ws[j].slot = ws[k].slot
    <3> HIDE DEF engines
    <3>1. CASE ws[j].slot = 0 /\ ws[k].slot = 1 BY <2>1, <2>2, <3>1
    <3>2. CASE ws[j].slot = 1 /\ ws[k].slot = 0 BY <2>1, <2>2, <3>2
    <3> QED BY <1>4, <3>1, <3>2
  <2>4. ws[j] = [host |-> ws[j].host, slot |-> ws[j].slot] /\ ws[k] = [host |-> ws[k].host, slot |-> ws[k].slot]
    BY <1>4
  <2>5. ws[j] = ws[k] BY <2>2, <2>3, <2>4
  <2> QED BY <1>5, <2>5
<1> DEFINE f == [k \in 1..N |-> EngineOf(ws, k)]
<1>10. Cardinality(engines) = N
  <2> HIDE DEF engines
  <2>1. f \in [1..N -> engines] BY <1>7
  <2>2. \A s \in engines : \E k \in 1..N : f[k] = s BY <1>8
  <2>3. \A j, k \in 1..N : f[j] = f[k] => j = k BY <1>9
  <2> HIDE DEF f
  <2> QED BY <1>3, <2>1, <2>2, <2>3, NumberedSet
<1>11. engines = Engines(inv, env) BY DEF Engines, S
<1> HIDE DEF engines
<1> QED BY <1>7, <1>8, <1>10, <1>11 DEF ws, N

LEMMA ApisCounted ==
  ASSUME NEW inv \in Inventories, NEW env, NEW H, Slots(WorkerSlots(inv, env), H)
  PROVE  Cardinality({s \in ServicesOf(inv, env) : s.name \in {"api"}}) = Len(Only(inv, "api"))
<1> DEFINE ws == WorkerSlots(inv, env)
           S == ServicesOf(inv, env)
           apis == {s \in S : s.name \in {"api"}}
           L == Only(inv, "api")
           N == Len(L)
           f == [k \in 1..N |-> Service("api", L[k], PortsOf("api"))]
<1>1. /\ \A s \in S : /\ s.host \in RunsOn(inv, ws, s.name)
                      /\ s = Service(s.name, s.host, PortsOf(s.name))
      /\ \A name \in Names : \A h \in RunsOn(inv, ws, name) : Service(name, h, PortsOf(name)) \in S
  BY ServicesByName
<1> HIDE DEF ws, S
<1>2. Lists(L, WithRole(inv, "api")) BY OnlyFacts
<1> HIDE DEF L
<1>3. N \in Nat BY <1>2 DEF Lists
<1>4. RunsOn(inv, ws, "api") = WithRole(inv, "api") /\ "api" \in Names BY DEF RunsOn, Names
<1>5. f \in [1..N -> apis]
  <2>1. \A k \in 1..N : Service("api", L[k], PortsOf("api")) \in S BY <1>1, <1>2, <1>4 DEF Lists
  <2>2. \A k \in 1..N : Service("api", L[k], PortsOf("api")).name = "api" BY DEF Service
  <2> QED BY <2>1, <2>2
<1>6. ASSUME NEW s \in apis PROVE \E k \in 1..N : f[k] = s
  <2>1. s \in S /\ s.name = "api" OBVIOUS
  <2>2. s.host \in WithRole(inv, "api") /\ s = Service("api", s.host, PortsOf("api")) BY <1>1, <1>4, <2>1
  <2>3. PICK k \in 1..N : L[k] = s.host BY <1>2, <2>2 DEF Lists
  <2> QED BY <2>2, <2>3
<1>7. ASSUME NEW j \in 1..N, NEW k \in 1..N, f[j] = f[k] PROVE j = k
  <2>1. f[j].host = L[j] /\ f[k].host = L[k] BY DEF Service
  <2>2. L[j] = L[k] BY <1>7, <2>1
  <2> QED BY <1>2, <2>2 DEF Lists
<1> HIDE DEF f, apis
<1>8. Cardinality(apis) = N BY <1>3, <1>5, <1>6, <1>7, NumberedSet
<1> QED BY <1>8 DEF apis, S, L, N

-----------------------------------------------------------------------------
(* The addresses of a plan. *)

\* Different addresses on ports of P, at each of which a service of S listens.
AddressRecords == [host : Nat, port : Nat]
Reached(S, a) == \E s \in S : s.host = a.host /\ a.port \in s.ports
AddressList(S, P, list) ==
  /\ list \in Seq(AddressRecords)
  /\ \A k \in 1..Len(list) : list[k].port \in P /\ Reached(S, list[k])
  /\ \A j, k \in 1..Len(list) : list[j] = list[k] => j = k

LEMMA JoinedAddresses ==
  ASSUME NEW S, NEW P, NEW Q, NEW a, NEW b, AddressList(S, P, a), AddressList(S, Q, b), P \cap Q = {}
  PROVE  AddressList(S, P \cup Q, a \o b)
<1> DEFINE c == a \o b
           M == Len(a)
           N == Len(b)
<1>1. a \in Seq(AddressRecords) /\ b \in Seq(AddressRecords) /\ M \in Nat /\ N \in Nat BY DEF AddressList
<1>2. /\ c \in Seq(AddressRecords) /\ Len(c) = M + N
      /\ \A k \in 1..M : c[k] = a[k]
      /\ \A k \in M + 1..M + N : c[k] = b[k - M]
  BY <1>1
<1> HIDE DEF c, M, N
<1>3. \A k \in 1..M + N : k \in 1..M \/ k \in M + 1..M + N BY <1>1
<1>4. \A k \in 1..M : a[k].port \in P /\ Reached(S, a[k]) BY DEF AddressList, M
<1>5. \A k \in 1..N : b[k].port \in Q /\ Reached(S, b[k]) BY DEF AddressList, N
<1>6. \A k \in M + 1..M + N : k - M \in 1..N BY <1>1
<1>7. \A k \in 1..M + N : c[k].port \in P \cup Q /\ Reached(S, c[k]) BY <1>2, <1>3, <1>4, <1>5, <1>6
<1>8. ASSUME NEW j \in 1..M + N, NEW k \in 1..M + N, c[j] = c[k] PROVE j = k
  <2>1. CASE j \in 1..M /\ k \in 1..M BY <1>2, <1>8, <2>1 DEF AddressList, M
  <2>2. CASE j \in 1..M /\ k \in M + 1..M + N BY <1>2, <1>4, <1>5, <1>6, <1>8, <2>2
  <2>3. CASE j \in M + 1..M + N /\ k \in 1..M BY <1>2, <1>4, <1>5, <1>6, <1>8, <2>3
  <2>4. CASE j \in M + 1..M + N /\ k \in M + 1..M + N
    <3>1. b[j - M] = b[k - M] /\ j - M \in 1..N /\ k - M \in 1..N BY <1>2, <1>6, <1>8, <2>4
    <3>2. j - M = k - M BY <3>1 DEF AddressList, N
    <3> QED BY <1>1, <2>4, <3>2
  <2> QED BY <1>3, <2>1, <2>2, <2>3, <2>4
<1> QED BY <1>2, <1>7, <1>8 DEF AddressList, c

\* One port on each host of a list.
LEMMA HostPortsFacts ==
  ASSUME NEW S, NEW L, NEW H, NEW port \in Nat, Lists(L, H),
         \A h \in H : \E s \in S : s.host = h /\ port \in s.ports
  PROVE  AddressList(S, {port}, HostPorts(L, port))
<1> DEFINE a == HostPorts(L, port)
<1>1. L \in Seq(Nat) /\ Len(L) \in Nat /\ DOMAIN L = 1..Len(L) /\ \A k \in 1..Len(L) : L[k] \in Nat
  BY DEF Lists
<1>2. a = [k \in 1..Len(L) |-> [host |-> L[k], port |-> port]] BY <1>1 DEF HostPorts
<1>3. a \in Seq(AddressRecords) /\ Len(a) = Len(L)
  <2>1. a \in [1..Len(L) -> AddressRecords] BY <1>1, <1>2 DEF AddressRecords
  <2> QED BY <1>1, <1>2, <2>1
<1>4. \A k \in 1..Len(L) : a[k].host = L[k] /\ a[k].port = port BY <1>2
<1> HIDE DEF a
<1>5. \A k \in 1..Len(L) : Reached(S, a[k]) BY <1>4 DEF Reached, Lists
<1>6. \A j, k \in 1..Len(L) : a[j] = a[k] => j = k BY <1>4 DEF Lists
<1> QED BY <1>3, <1>4, <1>5, <1>6 DEF AddressList, a

\* The engines are reached at their ports, and scraped at their admin ports.
LEMMA EngineAddresses ==
  ASSUME NEW inv \in Inventories, NEW env, NEW H, Slots(WorkerSlots(inv, env), H)
  PROVE  /\ AddressList(ServicesOf(inv, env), {PortBase, PortBase + 10}, Addresses(WorkerSlots(inv, env)))
         /\ AddressList(ServicesOf(inv, env), {PortBase + 1, PortBase + 11}, AdminAddresses(WorkerSlots(inv, env)))
         /\ Len(Addresses(WorkerSlots(inv, env))) = Len(WorkerSlots(inv, env))
<1> DEFINE ws == WorkerSlots(inv, env)
           S == ServicesOf(inv, env)
           N == Len(ws)
           a == Addresses(ws)
           b == AdminAddresses(ws)
<1>1. \A k \in 1..N : EngineOf(ws, k) \in S BY EnginesFacts DEF Engines
<1> HIDE DEF ws, S
<1>2. /\ ws \in Seq(SlotRecords) /\ N \in Nat /\ DOMAIN ws = 1..N
      /\ \A k \in 1..N : ws[k] \in SlotRecords
      /\ \A j, k \in 1..N : ws[j] = ws[k] => j = k
  BY DEF Slots, ws
<1>3. \A k \in 1..N : /\ ws[k].host \in Nat /\ (ws[k].slot = 0 \/ ws[k].slot = 1)
                      /\ ws[k] = [host |-> ws[k].host, slot |-> ws[k].slot]
  BY <1>2 DEF SlotRecords
<1> HIDE DEF N
<1>4. PortBase \in Nat BY PortsAssumption DEF PortsAssumption
<1>5. /\ Port(0) = PortBase /\ AdminPort(0) = PortBase + 1
      /\ Port(1) = PortBase + 10 /\ AdminPort(1) = PortBase + 11
  BY <1>4 DEF Port, AdminPort
<1>6. /\ PortsOf("engine-a") = {PortBase, PortBase + 1} /\ PortsOf("engine-b") = {PortBase + 10, PortBase + 11}
  BY DEF PortsOf
<1>7. ASSUME NEW k \in 1..N
      PROVE  /\ Port(ws[k].slot) \in {PortBase, PortBase + 10}
             /\ AdminPort(ws[k].slot) \in {PortBase + 1, PortBase + 11}
             /\ EngineOf(ws, k).host = ws[k].host
             /\ Port(ws[k].slot) \in EngineOf(ws, k).ports
             /\ AdminPort(ws[k].slot) \in EngineOf(ws, k).ports
  <2>1. CASE ws[k].slot = 0 BY <1>5, <1>6, <2>1 DEF EngineOf, Service
  <2>2. CASE ws[k].slot = 1 BY <1>5, <1>6, <2>2 DEF EngineOf, Service
  <2> QED BY <1>3, <2>1, <2>2
<1>8. ASSUME NEW j \in 1..N, NEW k \in 1..N, ws[j].host = ws[k].host,
             Port(ws[j].slot) = Port(ws[k].slot) \/ AdminPort(ws[j].slot) = AdminPort(ws[k].slot)
      PROVE  j = k
  <2>1. ws[j].slot = ws[k].slot
    <3>1. PortBase # PortBase + 10 /\ PortBase + 1 # PortBase + 11 BY <1>4
    <3>2. CASE ws[j].slot = 0 /\ ws[k].slot = 1 BY <1>5, <1>8, <3>1, <3>2
    <3>3. CASE ws[j].slot = 1 /\ ws[k].slot = 0 BY <1>5, <1>8, <3>1, <3>3
    <3> QED BY <1>3, <3>2, <3>3
  <2> QED BY <1>2, <1>3, <1>8, <2>1
<1>9. a = [k \in 1..N |-> [host |-> ws[k].host, port |-> Port(ws[k].slot)]] BY <1>2 DEF Addresses
<1>10. b = [k \in 1..N |-> [host |-> ws[k].host, port |-> AdminPort(ws[k].slot)]] BY <1>2 DEF AdminAddresses
<1>11. \A k \in 1..N : Port(ws[k].slot) \in Nat /\ AdminPort(ws[k].slot) \in Nat BY <1>4, <1>7
<1>12. a \in Seq(AddressRecords) /\ Len(a) = N
  <2>1. \A k \in 1..N : [host |-> ws[k].host, port |-> Port(ws[k].slot)] \in AddressRecords
    BY <1>3, <1>11 DEF AddressRecords
  <2> HIDE DEF a
  <2>2. a \in [1..N -> AddressRecords] BY <1>9, <2>1
  <2> QED BY <1>2, <1>9, <2>2
<1>13. b \in Seq(AddressRecords) /\ Len(b) = N
  <2>1. \A k \in 1..N : [host |-> ws[k].host, port |-> AdminPort(ws[k].slot)] \in AddressRecords
    BY <1>3, <1>11 DEF AddressRecords
  <2> HIDE DEF b
  <2>2. b \in [1..N -> AddressRecords] BY <1>10, <2>1
  <2> QED BY <1>2, <1>10, <2>2
<1>14. \A k \in 1..N : a[k].host = ws[k].host /\ a[k].port = Port(ws[k].slot) BY <1>9
<1>15. \A k \in 1..N : b[k].host = ws[k].host /\ b[k].port = AdminPort(ws[k].slot) BY <1>10
<1> HIDE DEF a, b
<1>16. \A k \in 1..N : Reached(S, a[k]) /\ Reached(S, b[k]) BY <1>1, <1>7, <1>14, <1>15 DEF Reached
<1>17. AddressList(S, {PortBase, PortBase + 10}, a)
  <2>1. \A j, k \in 1..N : a[j] = a[k] => j = k BY <1>8, <1>14
  <2>2. \A k \in 1..N : a[k].port \in {PortBase, PortBase + 10} BY <1>7, <1>14
  <2> QED BY <1>12, <1>16, <2>1, <2>2 DEF AddressList
<1>18. AddressList(S, {PortBase + 1, PortBase + 11}, b)
  <2>1. \A j, k \in 1..N : b[j] = b[k] => j = k BY <1>8, <1>15
  <2>2. \A k \in 1..N : b[k].port \in {PortBase + 1, PortBase + 11} BY <1>7, <1>15
  <2> QED BY <1>13, <1>16, <2>1, <2>2 DEF AddressList
<1> QED BY <1>12, <1>17, <1>18 DEF a, b, S, ws, N

\* Everything that is scraped, for a plan over inv.
Targets(inv, env) ==
  AdminAddresses(WorkerSlots(inv, env)) \o HostPorts(Only(inv, "api"), 9464)
    \o HostPorts(Only(inv, "nginx"), 9113)
    \o HostPorts([h \in DOMAIN inv |-> h], 9100) \o HostPorts([h \in DOMAIN inv |-> h], 8080)

LEMMA TargetsFacts ==
  ASSUME NEW inv \in Inventories, NEW env, NEW H, Slots(WorkerSlots(inv, env), H)
  PROVE  /\ \E P : AddressList(ServicesOf(inv, env), P, Targets(inv, env))
         /\ AddressList(ServicesOf(inv, env), {4000}, HostPorts(Only(inv, "api"), 4000))
<1> DEFINE ws == WorkerSlots(inv, env)
           S == ServicesOf(inv, env)
           every == [h \in DOMAIN inv |-> h]
           N == Len(inv)
           a == AdminAddresses(ws)
           b == HostPorts(Only(inv, "api"), 9464)
           c == HostPorts(Only(inv, "nginx"), 9113)
           d == HostPorts(every, 9100)
           e == HostPorts(every, 8080)
<1>1. N \in Nat /\ DOMAIN inv = 1..N BY DEF Inventories
<1>2. Lists(every, 1..N)
  <2>1. every \in [1..N -> Nat] BY <1>1
  <2>2. every \in Seq(Nat) /\ Len(every) = N BY <1>1, <2>1
  <2> QED BY <1>1, <2>2 DEF Lists
<1>3. Lists(Only(inv, "api"), WithRole(inv, "api")) /\ Lists(Only(inv, "nginx"), WithRole(inv, "nginx"))
  BY OnlyFacts
<1>4. \A name \in Names : \A h \in RunsOn(inv, ws, name) : Service(name, h, PortsOf(name)) \in S
  BY ServicesByName
<1>5. AddressList(S, {PortBase + 1, PortBase + 11}, a) BY EngineAddresses
<1> HIDE DEF S, ws, every, a
<1>6. ASSUME NEW name \in Names, NEW h \in RunsOn(inv, ws, name), NEW port \in PortsOf(name)
      PROVE  \E s \in S : s.host = h /\ port \in s.ports
  <2>1. Service(name, h, PortsOf(name)) \in S BY <1>4
  <2>2. Service(name, h, PortsOf(name)).host = h /\ Service(name, h, PortsOf(name)).ports = PortsOf(name)
    BY DEF Service
  <2> QED BY <2>1, <2>2
<1>7. ASSUME NEW h \in WithRole(inv, "api"), NEW port \in {4000, 9464}
      PROVE  \E s \in S : s.host = h /\ port \in s.ports
  <2>1. "api" \in Names /\ h \in RunsOn(inv, ws, "api") /\ port \in PortsOf("api") BY DEF Names, RunsOn, PortsOf
  <2> QED BY <1>6, <2>1
<1>8. ASSUME NEW h \in WithRole(inv, "nginx") PROVE \E s \in S : s.host = h /\ 9113 \in s.ports
  <2>1. "nginx-exporter" \in Names /\ h \in RunsOn(inv, ws, "nginx-exporter") /\ 9113 \in PortsOf("nginx-exporter")
    BY DEF Names, RunsOn, PortsOf
  <2> QED BY <1>6, <2>1
<1>9. ASSUME NEW h \in 1..N PROVE \E s \in S : s.host = h /\ 9100 \in s.ports
  <2>1. "node-exporter" \in Names /\ h \in RunsOn(inv, ws, "node-exporter") /\ 9100 \in PortsOf("node-exporter")
    BY DEF Names, RunsOn, PortsOf
  <2> QED BY <1>6, <2>1
<1>10. ASSUME NEW h \in 1..N PROVE \E s \in S : s.host = h /\ 8080 \in s.ports
  <2>1. "cadvisor" \in Names /\ h \in RunsOn(inv, ws, "cadvisor") /\ 8080 \in PortsOf("cadvisor")
    BY DEF Names, RunsOn, PortsOf
  <2> QED BY <1>6, <2>1
<1>11. AddressList(S, {4000}, HostPorts(Only(inv, "api"), 4000)) BY <1>3, <1>7, HostPortsFacts
<1>12. AddressList(S, {9464}, b) BY <1>3, <1>7, HostPortsFacts
<1>13. AddressList(S, {9113}, c) BY <1>3, <1>8, HostPortsFacts
<1>14. AddressList(S, {9100}, d) BY <1>2, <1>9, HostPortsFacts
<1>15. AddressList(S, {8080}, e) BY <1>2, <1>10, HostPortsFacts
<1> HIDE DEF b, c, d, e
<1> DEFINE engine == {PortBase + 1, PortBase + 11}
<1>16. PortBase + 1 \notin FixedPorts /\ PortBase + 11 \notin FixedPorts
  BY PortsAssumption DEF PortsAssumption
<1>17. engine \cap {9464} = {} /\ (engine \cup {9464}) \cap {9113} = {}
       /\ (engine \cup {9464} \cup {9113}) \cap {9100} = {}
       /\ (engine \cup {9464} \cup {9113} \cup {9100}) \cap {8080} = {}
  BY <1>16 DEF FixedPorts
<1>18. AddressList(S, engine, a) BY <1>5
<1> HIDE DEF engine
<1>19. AddressList(S, engine \cup {9464}, a \o b) BY <1>12, <1>17, <1>18, JoinedAddresses
<1>20. AddressList(S, engine \cup {9464} \cup {9113}, a \o b \o c) BY <1>13, <1>17, <1>19, JoinedAddresses
<1>21. AddressList(S, engine \cup {9464} \cup {9113} \cup {9100}, a \o b \o c \o d)
  BY <1>14, <1>17, <1>20, JoinedAddresses
<1>22. AddressList(S, engine \cup {9464} \cup {9113} \cup {9100} \cup {8080}, a \o b \o c \o d \o e)
  BY <1>15, <1>17, <1>21, JoinedAddresses
<1>23. Targets(inv, env) = a \o b \o c \o d \o e BY DEF Targets, a, b, c, d, e, ws, every
<1>24. \E P : AddressList(S, P, Targets(inv, env)) BY <1>22, <1>23
<1> QED BY <1>11, <1>24 DEF S

\* Spread engines: a second one on a host only if every host has one.
LEMMA LoadsBalanced ==
  ASSUME NEW inv \in Inventories, NEW env, NEW H, Slots(WorkerSlots(inv, env), H),
         FirstSlotsFirst(WorkerSlots(inv, env), H), NEW g \in H, NEW h \in H
  PROVE  Cardinality({s \in Engines(inv, env) : s.host = g})
           <= Cardinality({s \in Engines(inv, env) : s.host = h}) + 1
<1> DEFINE ws == WorkerSlots(inv, env)
           N == Len(ws)
           G == {s \in Engines(inv, env) : s.host = g}
           K == {s \in Engines(inv, env) : s.host = h}
           x == Service("engine-a", g, PortsOf("engine-a"))
           y == Service("engine-b", g, PortsOf("engine-b"))
           z == Service("engine-a", h, PortsOf("engine-a"))
<1>1. /\ \A k \in 1..N : EngineOf(ws, k) \in Engines(inv, env)
      /\ \A s \in Engines(inv, env) : \E k \in 1..N : s = EngineOf(ws, k)
  BY EnginesFacts
<1> HIDE DEF ws
<1>2. \A k \in 1..N : ws[k].slot = 0 \/ ws[k].slot = 1
  <2>1. ws \in Seq(SlotRecords) BY DEF Slots, ws
  <2>2. \A k \in 1..N : ws[k] \in SlotRecords BY <2>1
  <2> QED BY <2>2 DEF SlotRecords
<1> HIDE DEF N
<1>3. \A k \in 1..N : EngineOf(ws, k).host = ws[k].host BY DEF EngineOf, Service
<1>4. G \subseteq {x, y}
  <2> SUFFICES ASSUME NEW s \in G PROVE s \in {x, y} OBVIOUS
  <2>1. PICK k \in 1..N : s = EngineOf(ws, k) BY <1>1
  <2>2. ws[k].host = g BY <1>3, <2>1
  <2> QED BY <1>2, <2>1, <2>2 DEF EngineOf
<1>5. K \subseteq {z, Service("engine-b", h, PortsOf("engine-b"))}
  <2> SUFFICES ASSUME NEW s \in K PROVE s \in {z, Service("engine-b", h, PortsOf("engine-b"))} OBVIOUS
  <2>1. PICK k \in 1..N : s = EngineOf(ws, k) BY <1>1
  <2>2. ws[k].host = h BY <1>3, <2>1
  <2> QED BY <1>2, <2>1, <2>2 DEF EngineOf
<1>6. /\ IsFiniteSet({x}) /\ Cardinality({x}) = 1
      /\ IsFiniteSet({x, y}) /\ Cardinality({x, y}) <= 2
  <2>1. IsFiniteSet({x}) /\ Cardinality({x}) = 1 BY FS_Singleton
  <2> HIDE DEF x, y
  <2>2. {x} \cup {y} = {x, y} OBVIOUS
  <2>3. /\ IsFiniteSet({x} \cup {y})
        /\ Cardinality({x} \cup {y}) = IF y \in {x} THEN Cardinality({x}) ELSE Cardinality({x}) + 1
    BY <2>1, FS_AddElement
  <2> QED BY <2>1, <2>2, <2>3
<1>7. IsFiniteSet(K)
  <2> DEFINE w == Service("engine-b", h, PortsOf("engine-b"))
  <2>1. IsFiniteSet({z}) BY FS_Singleton
  <2> HIDE DEF z, w, K
  <2>2. IsFiniteSet({z} \cup {w}) BY <2>1, FS_AddElement
  <2>3. {z} \cup {w} = {z, w} OBVIOUS
  <2>4. K \in SUBSET {z, w} BY <1>5 DEF w
  <2> QED BY <2>2, <2>3, <2>4, FS_Subset
<1>8. Cardinality(K) \in Nat BY <1>7, FS_CardinalityType
<1> HIDE DEF G, K, x, y, z
<1>9. IsFiniteSet(G) /\ Cardinality(G) \in Nat /\ Cardinality(G) <= 2
  <2>1. IsFiniteSet(G) /\ Cardinality(G) <= Cardinality({x, y}) BY <1>4, <1>6, FS_Subset
  <2>2. Cardinality(G) \in Nat /\ Cardinality({x, y}) \in Nat BY <1>6, <2>1, FS_CardinalityType
  <2> QED BY <1>6, <2>1, <2>2
<1>10. CASE y \in G
  <2>1. PICK k \in 1..N : y = EngineOf(ws, k) BY <1>1, <1>10 DEF G
  <2>2. ws[k].slot = 1
    <3> SUFFICES ASSUME ws[k].slot = 0 PROVE FALSE BY <1>2
    <3>1. y = Service("engine-a", ws[k].host, PortsOf("engine-a")) BY <2>1 DEF EngineOf
    <3>2. y.name = "engine-a" BY <3>1 DEF Service
    <3>3. y.name = "engine-b" BY DEF y, Service
    <3> QED BY <3>2, <3>3
  <2>3. PICK j \in 1..N : ws[j].host = h /\ ws[j].slot = 0 BY <2>2 DEF FirstSlotsFirst, ws, N
  <2>4. z = EngineOf(ws, j) BY <2>3 DEF z, EngineOf
  <2>5. z \in K BY <1>1, <1>3, <2>3, <2>4 DEF K
  <2>6. Cardinality(K) # 0 BY <1>7, <2>5, FS_EmptySet
  <2> QED BY <1>8, <1>9, <2>6 DEF G, K
<1>11. CASE y \notin G
  <2>1. G \in SUBSET {x} BY <1>4, <1>11
  <2>2. Cardinality(G) <= 1 BY <1>6, <2>1, FS_Subset
  <2> QED BY <1>8, <1>9, <2>2 DEF G, K
<1> QED BY <1>10, <1>11

-----------------------------------------------------------------------------
(* The plan. *)

\* With the default roles the engines and Redis are deployed before any API.
LEMMA PhasesInOrder ==
  ASSUME NEW inventory \in Inventories, NEW env, env.apiHosts \in Int, ApiHostsFit(inventory, env),
         inventory = [h \in DOMAIN inventory |-> DefaultRoles(h, Len(inventory))],
         NEW g \in 1..Len(inventory), NEW h \in 1..Len(inventory),
         "api" \in ApplyApiHosts(inventory, env)[g],
         \/ "worker" \in ApplyApiHosts(inventory, env)[h]
         \/ "redis" \in ApplyApiHosts(inventory, env)[h]
  PROVE  Phase(ApplyApiHosts(inventory, env)[h]) < Phase(ApplyApiHosts(inventory, env)[g])
<1> DEFINE inv == ApplyApiHosts(inventory, env)
           N == Len(inventory)
<1>1. N \in Nat /\ DOMAIN inventory = 1..N BY DEF Inventories
<1>2. \A k \in 1..N : inv[k] = inventory[k] \/ ("worker" \in inventory[k] /\ inv[k] = (inventory[k] \ {"worker"}) \cup {"api"})
  BY ApplyApiHostsFacts
<1>3. \A k \in 1..N : inventory[k] = DefaultRoles(k, N) BY <1>1
<1> HIDE DEF inv, N
<1>4. ASSUME NEW k \in 1..N
      PROVE  \/ inventory[k] = {"api", "nginx"} \/ inventory[k] = {"redis", "monitoring"}
             \/ inventory[k] = {"worker"}
  BY <1>3 DEF DefaultRoles
<1>5. Phase(inv[h]) = 1
  <2>1. inv[h] = {"worker"} \/ inv[h] = {"redis", "monitoring"}
    <3>1. "worker" \in inv[h] \/ "redis" \in inv[h] BY DEF inv
    <3>2. h \in 1..N BY DEF N
    <3>3. CASE inv[h] = inventory[h] BY <1>4, <3>1, <3>2, <3>3
    <3>4. CASE "worker" \in inventory[h] /\ inv[h] = (inventory[h] \ {"worker"}) \cup {"api"}
      BY <1>4, <3>1, <3>2, <3>4
    <3> QED BY <1>2, <3>2, <3>3, <3>4
  <2> QED BY <2>1 DEF Phase
<1>6. Phase(inv[g]) \in {2, 3} BY DEF Phase, inv
<1> QED BY <1>5, <1>6 DEF inv

LEMMA RolloutOf ==
  ASSUME NEW inventory \in Inventories, NEW env, env.apiHosts \in Int, Renders(inventory, env)
  PROVE  SoundRollout(inventory, env, Render(inventory, env))
<1> DEFINE inv == ApplyApiHosts(inventory, env)
           ws == WorkerSlots(inv, env)
           H == WithRole(inv, "worker")
           S == ServicesOf(inv, env)
           plan == Render(inventory, env)
           N == Len(inventory)
<1>1. /\ ApiHostsFit(inventory, env) /\ env.perHost \in 1..2 /\ env.placement \in {"spread", "pack"}
      /\ WorkerCount(inv, env) \in 1..Len(AllSlots(inv, env))
  BY DEF Renders
<1>2. inv \in Inventories /\ Len(inv) = N BY <1>1, ApplyApiHostsFacts
<1>3. N \in Nat /\ DOMAIN inventory = 1..N BY DEF Inventories
<1>4. plan = [services |-> S, engineUrls |-> Addresses(ws), apiServers |-> HostPorts(Only(inv, "api"), 4000),
              targets |-> Targets(inv, env), phases |-> [h \in DOMAIN inv |-> Phase(inv[h])],
              warmerHost |-> Only(inv, "api")[1]]
  BY DEF Render, Targets
<1> HIDE DEF inv
<1>5. DOMAIN inv = 1..N BY <1>2 DEF Inventories
<1>6. Slots(ws, H) /\ (env.placement = "spread" => FirstSlotsFirst(ws, H)) BY <1>1, <1>2, WorkerSlotsFacts
<1> HIDE DEF S, plan, N, H
<1>7. /\ plan.services = S /\ plan.engineUrls = Addresses(ws)
      /\ plan.apiServers = HostPorts(Only(inv, "api"), 4000) /\ plan.targets = Targets(inv, env)
      /\ plan.phases = [h \in DOMAIN inv |-> Phase(inv[h])]
  BY <1>4
<1> HIDE DEF ws
<1>8. ASSUME NEW s \in S, NEW t \in S, s # t, s.host = t.host PROVE s.ports \cap t.ports = {}
  BY <1>2, <1>6, <1>8, NoPortClash DEF S, ws
<1>9. /\ AddressList(S, {PortBase, PortBase + 10}, plan.engineUrls) /\ Len(plan.engineUrls) = Len(ws)
      /\ AddressList(S, {4000}, plan.apiServers)
  <2>1. Slots(WorkerSlots(inv, env), H) BY <1>6 DEF ws
  <2>2. /\ AddressList(ServicesOf(inv, env), {PortBase, PortBase + 10}, Addresses(WorkerSlots(inv, env)))
        /\ Len(Addresses(WorkerSlots(inv, env))) = Len(WorkerSlots(inv, env))
    BY <1>2, <2>1, EngineAddresses
  <2>3. AddressList(ServicesOf(inv, env), {4000}, HostPorts(Only(inv, "api"), 4000))
    BY <1>2, <2>1, TargetsFacts
  <2>4. /\ AddressList(S, {PortBase, PortBase + 10}, Addresses(ws)) /\ Len(Addresses(ws)) = Len(ws)
        /\ AddressList(S, {4000}, HostPorts(Only(inv, "api"), 4000))
    BY <2>2, <2>3 DEF S, ws
  <2> QED BY <1>7, <2>4
<1>10. PICK P : AddressList(S, P, plan.targets) BY <1>2, <1>6, <1>7, TargetsFacts DEF S, ws
<1>11. ASSUME NEW Q, NEW list, AddressList(S, Q, list)
       PROVE  IsInjective(list) /\ \A a \in ToSet(list) : Reached(S, a)
  <2>1. list \in Seq(AddressRecords) /\ DOMAIN list = 1..Len(list) BY <1>11 DEF AddressList
  <2> QED BY <1>11, <2>1 DEF AddressList, IsInjective, ToSet
<1> DEFINE Named(names) == {s \in plan.services : s.name \in names}
           engines == Named({EngineName(0), EngineName(1)})
           Load(h) == Cardinality({s \in engines : s.host = h})
<1>12. engines = Engines(inv, env) BY <1>7 DEF Engines, S
<1> HIDE DEF engines
<1>13. Len(plan.engineUrls) = Cardinality(engines)
  BY <1>2, <1>6, <1>9, <1>12, EnginesFacts DEF ws
<1>14. Len(plan.apiServers) = Cardinality(Named({"api"}))
  <2>1. Cardinality({s \in S : s.name \in {"api"}}) = Len(Only(inv, "api"))
    BY <1>2, <1>6, ApisCounted DEF S, ws
  <2>2. Lists(Only(inv, "api"), WithRole(inv, "api")) BY <1>2, OnlyFacts
  <2>3. Len(plan.apiServers) = Len(Only(inv, "api")) BY <1>7, <2>2 DEF HostPorts, Lists
  <2> QED BY <1>7, <2>1, <2>3
<1>15. ASSUME env.placement = "spread", NEW g \in ToSet(Only(inv, "worker")), NEW h \in ToSet(Only(inv, "worker"))
       PROVE  Load(g) <= Load(h) + 1
  <2>1. Lists(Only(inv, "worker"), H) BY <1>2, OnlyFacts DEF H
  <2>2. g \in H /\ h \in H BY <2>1 DEF Lists, ToSet
  <2> QED BY <1>2, <1>6, <1>12, <1>15, <2>2, LoadsBalanced DEF ws
<1>16. ASSUME inventory = [h \in DOMAIN inventory |-> DefaultRoles(h, Len(inventory))],
              NEW s \in S, NEW a \in S, a.name = "api", s \in engines \/ s.name = "redis"
       PROVE  plan.phases[s.host] < plan.phases[a.host]
  <2>1. /\ a.host \in RunsOn(inv, ws, "api") /\ s.host \in RunsOn(inv, ws, s.name)
    BY <1>2, <1>6, <1>16, ServicesByName DEF S, ws
  <2>2. a.host \in 1..N /\ "api" \in inv[a.host] BY <1>2, <2>1 DEF RunsOn, WithRole
  <2>3. s.host \in 1..N /\ ("worker" \in inv[s.host] \/ "redis" \in inv[s.host])
    <3>1. CASE s.name = "redis" BY <1>2, <2>1, <3>1 DEF RunsOn, WithRole
    <3>2. CASE s \in engines
      <4>1. PICK k \in 1..Len(ws) : s = EngineOf(ws, k) BY <1>2, <1>6, <1>12, <3>2, EnginesFacts DEF ws
      <4>2. s.host = ws[k].host BY <4>1 DEF EngineOf, Service
      <4>3. s.host \in H BY <1>6, <4>2 DEF Slots
      <4> QED BY <1>2, <4>3 DEF H, WithRole
    <3> QED BY <1>16, <3>1, <3>2
  <2>4. Phase(inv[s.host]) < Phase(inv[a.host])
    BY <1>1, <1>16, <2>2, <2>3, PhasesInOrder DEF inv, N
  <2> QED BY <1>5, <1>7, <2>2, <2>3, <2>4
<1>17. ASSUME NEW a \in ToSet(plan.engineUrls) \cup ToSet(plan.apiServers) \cup ToSet(plan.targets)
       PROVE  \E s \in plan.services : s.host = a.host /\ a.port \in s.ports
  <2>1. Reached(S, a) BY <1>9, <1>10, <1>11
  <2> QED BY <1>7, <2>1 DEF Reached
<1>18. IsInjective(plan.engineUrls) /\ IsInjective(plan.targets) BY <1>9, <1>10, <1>11
<1> QED
  <2>1. \A s, t \in plan.services : s # t /\ s.host = t.host => s.ports \cap t.ports = {} BY <1>7, <1>8
  <2>2. env.placement = "spread" =>
          \A g, h \in ToSet(Only(ApplyApiHosts(inventory, env), "worker")) : Load(g) <= Load(h) + 1
    BY <1>15 DEF inv
  <2>3. inventory = [h \in DOMAIN inventory |-> DefaultRoles(h, Len(inventory))] =>
          \A s, a \in plan.services :
            a.name = "api" /\ (s \in engines \/ s.name = "redis") => plan.phases[s.host] < plan.phases[a.host]
    BY <1>7, <1>16
  <2> QED BY <1>13, <1>14, <1>17, <1>18, <2>1, <2>2, <2>3 DEF SoundRollout, engines, plan

-----------------------------------------------------------------------------
(* Reply: the pages of an answer and the routes on them. *)

\* What the loop of a total has after each number.
PartialSums(s, f) ==
  /\ f \in [0..Len(s) -> Int]
  /\ f[0] = 0
  /\ \A n \in 1..Len(s) : f[n] = f[n - 1] + s[n]

LEMMA PlusFacts == ASSUME NEW s \in Seq(Int) PROVE \E f : PartialSums(s, f) /\ Plus(s) = f[Len(s)]
<1> DEFINE N == Len(s)
           E == [n \in Nat |-> [x \in Int |-> IF n \in 1..N THEN x + s[n] ELSE x]]
           Step(f) == [n \in 0..N |-> IF n = 0 THEN 0 ELSE f[n - 1] + s[n]]
           F == CHOOSE f : f = Step(f)
<1>1. N \in Nat /\ \A n \in 1..N : s[n] \in Int OBVIOUS
<1>2. Plus(s) = F[N] BY DEF Plus
<1> HIDE DEF N
<1>3. E \in [Nat -> [Int -> Int]] BY <1>1
<1>4. PICK f \in [0..N -> Int] : Recursion(f, 0, E, N)
  <2>1. 0 \in Int OBVIOUS
  <2> HIDE DEF E
  <2> QED BY <1>1, <1>3, <2>1, RecursionExists
<1>5. ASSUME NEW n \in 0..N PROVE f[n] = IF n = 0 THEN 0 ELSE f[n - 1] + s[n]
  <2> SUFFICES ASSUME n # 0 PROVE f[n] = f[n - 1] + s[n] BY <1>1, <1>4 DEF Recursion
  <2>1. f[n] = E[n][f[n - 1]]
    <3> HIDE DEF E
    <3> QED BY <1>4 DEF Recursion
  <2>2. n \in Nat /\ n \in 1..N /\ n - 1 \in 0..N BY <1>1
  <2>3. f[n - 1] \in Int BY <1>4, <2>2
  <2>4. E[n][f[n - 1]] = f[n - 1] + s[n] BY <2>2, <2>3
  <2> QED BY <2>1, <2>4
<1>6. f = Step(f)
  <2>1. f = [n \in 0..N |-> f[n]] BY <1>4
  <2> QED BY <1>5, <2>1
<1>7. F = Step(F)
  <2> HIDE DEF Step
  <2> QED BY <1>6
<1> HIDE DEF F
<1>8. \A n \in 0..N : F[n] = IF n = 0 THEN 0 ELSE F[n - 1] + s[n] BY <1>7
<1> DEFINE T == {n \in Nat : n \in 0..N => F[n] \in Int}
<1>9. T = Nat
  <2>1. 0 \in T BY <1>8
  <2>2. ASSUME NEW n \in T PROVE n + 1 \in T
    <3> SUFFICES ASSUME n + 1 \in 0..N PROVE F[n + 1] \in Int OBVIOUS
    <3>1. n \in Nat /\ n \in 0..N /\ n + 1 \in 1..N /\ n + 1 # 0 /\ (n + 1) - 1 = n BY <1>1
    <3>2. F[n] \in Int BY <3>1
    <3>3. F[n + 1] = F[n] + s[n + 1] BY <1>8, <3>1
    <3> QED BY <1>1, <3>1, <3>2, <3>3
  <2>3. T \subseteq Nat OBVIOUS
  <2> HIDE DEF T
  <2> QED BY <2>1, <2>2, <2>3, SetInduction
<1>10. F \in [0..N -> Int]
  <2>1. \A n \in 0..N : F[n] \in Int BY <1>1, <1>9
  <2>2. F = [n \in 0..N |-> F[n]]
    <3>1. DOMAIN F = 0..N BY <1>7
    <3>2. F = [n \in DOMAIN F |-> F[n]] BY <1>7
    <3> QED BY <3>1, <3>2
  <2> QED BY <2>1, <2>2
<1>11. PartialSums(s, F)
  <2>1. F[0] = 0 BY <1>1, <1>8
  <2>2. \A n \in 1..N : F[n] = F[n - 1] + s[n] BY <1>1, <1>8
  <2> QED BY <1>10, <2>1, <2>2 DEF PartialSums, N
<1> QED BY <1>2, <1>11 DEF N

\* Rides and waits fill the time from the first departure to the last arrival.
LEMMA RidesAndWaits ==
  ASSUME NEW n \in Nat \ {0}, NEW A \in [1..n -> Int], NEW D \in [1..n -> Int]
  PROVE  /\ Plus([i \in 1..n |-> A[i] - D[i]]) \in Int
         /\ Plus([i \in 1..n - 1 |-> D[i + 1] - A[i]]) = A[n] - D[1] - Plus([i \in 1..n |-> A[i] - D[i]])
<1> DEFINE r == [i \in 1..n |-> A[i] - D[i]]
           w == [i \in 1..n - 1 |-> D[i + 1] - A[i]]
<1>1. r \in Seq(Int) /\ Len(r) = n /\ \A i \in 1..n : r[i] = A[i] - D[i]
  <2>1. \A i \in 1..n : A[i] - D[i] \in Int OBVIOUS
  <2>2. r \in [1..n -> Int] BY <2>1
  <2> QED BY <2>2
<1>2. w \in Seq(Int) /\ Len(w) = n - 1 /\ \A i \in 1..n - 1 : w[i] = D[i + 1] - A[i]
  <2>1. \A i \in 1..n - 1 : D[i + 1] - A[i] \in Int OBVIOUS
  <2>2. w \in [1..n - 1 -> Int] /\ n - 1 \in Nat BY <2>1
  <2> QED BY <2>2
<1> HIDE DEF r, w
<1>3. PICK f : PartialSums(r, f) /\ Plus(r) = f[n] BY <1>1, PlusFacts
<1>4. PICK g : PartialSums(w, g) /\ Plus(w) = g[n - 1] BY <1>2, PlusFacts
<1>5. f \in [0..n -> Int] /\ f[0] = 0 /\ \A k \in 1..n : f[k] = f[k - 1] + (A[k] - D[k])
  BY <1>1, <1>3 DEF PartialSums
<1>6. g \in [0..n - 1 -> Int] /\ g[0] = 0 /\ \A k \in 1..n - 1 : g[k] = g[k - 1] + (D[k + 1] - A[k])
  BY <1>2, <1>4 DEF PartialSums
<1> DEFINE T == {k \in Nat : k \in 0..n - 1 => f[k + 1] + g[k] = A[k + 1] - D[1]}
<1>7. T = Nat
  <2>1. 0 \in T
    <3>1. f[1] = 0 + (A[1] - D[1]) BY <1>5
    <3>2. f[0 + 1] + g[0] = A[0 + 1] - D[1] BY <1>6, <3>1
    <3> QED BY <3>2
  <2>2. ASSUME NEW k \in T PROVE k + 1 \in T
    <3> SUFFICES ASSUME k + 1 \in 0..n - 1 PROVE f[k + 1 + 1] + g[k + 1] = A[k + 1 + 1] - D[1] OBVIOUS
    <3> DEFINE j == k + 1
    <3>1. j \in 1..n - 1 /\ j \in 1..n /\ j + 1 \in 1..n /\ j - 1 = k /\ (j + 1) - 1 = j /\ k \in 0..n - 1 OBVIOUS
    <3>2. f[j] + g[j - 1] = A[j] - D[1] BY <3>1
    <3> HIDE DEF j
    <3>3. f[j + 1] = f[j] + (A[j + 1] - D[j + 1]) BY <1>5, <3>1
    <3>4. g[j] = g[j - 1] + (D[j + 1] - A[j]) BY <1>6, <3>1
    <3>5. f[j] \in Int /\ g[j - 1] \in Int /\ A[j] \in Int /\ D[j + 1] \in Int /\ A[j + 1] \in Int /\ D[1] \in Int
      BY <1>5, <1>6, <3>1
    <3>6. f[j + 1] + g[j] = A[j + 1] - D[1]
      <4> DEFINE f2 == f[j + 1]
                 f1 == f[j]
                 g2 == g[j]
                 g1 == g[j - 1]
                 a2 == A[j + 1]
                 d2 == D[j + 1]
                 a1 == A[j]
                 d1 == D[1]
      <4>1. f1 + g1 = a1 - d1 /\ f2 = f1 + (a2 - d2) /\ g2 = g1 + (d2 - a1) BY <3>2, <3>3, <3>4
      <4>2. f1 \in Int /\ g1 \in Int /\ a2 \in Int /\ d2 \in Int /\ a1 \in Int /\ d1 \in Int BY <3>5
      <4> HIDE DEF f1, f2, g1, g2, a1, a2, d1, d2
      <4>3. f2 + g2 = (f1 + g1) + (a2 - a1) BY <4>1, <4>2
      <4>4. f2 + g2 = a2 - d1 BY <4>1, <4>2, <4>3
      <4> QED BY <4>4 DEF f2, g2, a2, d1
    <3> QED BY <3>6 DEF j
  <2>3. T \subseteq Nat OBVIOUS
  <2> HIDE DEF T
  <2> QED BY <2>1, <2>2, <2>3, SetInduction
<1>8. PICK k \in Nat : k = n - 1 OBVIOUS
<1>9. f[k + 1] + g[k] = A[k + 1] - D[1]
  <2>1. k \in 0..n - 1 BY <1>8
  <2>2. k \in T
    <3> HIDE DEF T
    <3> QED BY <1>7
  <2> QED BY <2>1, <2>2
<1>10. k + 1 = n BY <1>8
<1>11. f[n] \in Int /\ g[n - 1] \in Int /\ A[n] \in Int /\ D[1] \in Int BY <1>5, <1>6
<1>12. f[n] + g[n - 1] = A[n] - D[1] BY <1>8, <1>9, <1>10
<1>13. Plus(r) \in Int /\ Plus(w) = A[n] - D[1] - Plus(r) BY <1>3, <1>4, <1>11, <1>12
<1> QED BY <1>13 DEF r, w

\* The numbers of a set in their order.
Ascending(L, S) ==
  /\ L \in Seq(Nat)
  /\ \A k \in 1..Len(L) : L[k] \in S
  /\ \A h \in S : \E k \in 1..Len(L) : L[k] = h
  /\ \A j, k \in 1..Len(L) : j < k => L[j] < L[k]

LEMMA AppendAscending ==
  ASSUME NEW L, NEW S, NEW x \in Nat, Ascending(L, S), \A h \in S : h < x
  PROVE  Ascending(Append(L, x), S \cup {x})
<1> DEFINE M == Append(L, x)
<1>1. /\ L \in Seq(Nat) /\ M \in Seq(Nat) /\ Len(L) \in Nat /\ Len(M) = Len(L) + 1
      /\ \A k \in 1..Len(L) : M[k] = L[k]
      /\ M[Len(L) + 1] = x
  BY DEF Ascending
<1>2. \A k \in 1..Len(M) : k \in 1..Len(L) \/ k = Len(L) + 1 BY <1>1
<1>3. \A k \in 1..Len(L) : k \in 1..Len(M) /\ L[k] \in S BY <1>1 DEF Ascending
<1>4. Len(L) + 1 \in 1..Len(M) BY <1>1
<1> HIDE DEF M
<1>5. \A k \in 1..Len(M) : M[k] \in S \cup {x} BY <1>1, <1>2, <1>3
<1>6. \A h \in S \cup {x} : \E k \in 1..Len(M) : M[k] = h
  <2> SUFFICES ASSUME NEW h \in S \cup {x} PROVE \E k \in 1..Len(M) : M[k] = h OBVIOUS
  <2>1. CASE h = x BY <1>1, <1>4, <2>1
  <2>2. CASE h # x
    <3>1. PICK k \in 1..Len(L) : L[k] = h BY <2>2 DEF Ascending
    <3> QED BY <1>1, <1>3, <3>1
  <2> QED BY <2>1, <2>2
<1>7. ASSUME NEW j \in 1..Len(M), NEW k \in 1..Len(M), j < k PROVE M[j] < M[k]
  <2>1. j \in 1..Len(L) BY <1>1, <1>2, <1>7
  <2>2. CASE k \in 1..Len(L) BY <1>1, <1>7, <2>1, <2>2 DEF Ascending
  <2>3. CASE k = Len(L) + 1
    <3>1. M[j] \in S BY <1>1, <1>3, <2>1
    <3> QED BY <1>1, <2>3, <3>1
  <2> QED BY <1>2, <2>2, <2>3
<1> QED BY <1>1, <1>5, <1>6, <1>7 DEF Ascending, M

LEMMA PassingFacts ==
  ASSUME NEW journeys, NEW f, Len(journeys) \in Nat
  PROVE  Ascending(Passing(journeys, f), {i \in 1..Len(journeys) : PassesFilters(journeys[i], f)})
<1> DEFINE N == Len(journeys)
           Pass(n) == PassesFilters(journeys[n], f)
           E == [n \in Nat |-> [x \in Seq(Nat) |-> IF Pass(n) THEN Append(x, n) ELSE x]]
           Step(g) == [n \in 0..N |-> IF n = 0 THEN <<>> ELSE IF Pass(n) THEN Append(g[n - 1], n) ELSE g[n - 1]]
           F == CHOOSE g : g = Step(g)
<1>1. Passing(journeys, f) = F[N] BY DEF Passing
<1>2. N \in Nat OBVIOUS
<1> HIDE DEF N, Pass
<1>3. E \in [Nat -> [Seq(Nat) -> Seq(Nat)]] OBVIOUS
<1>4. PICK g \in [0..N -> Seq(Nat)] : Recursion(g, <<>>, E, N)
  <2>1. <<>> \in Seq(Nat) OBVIOUS
  <2> HIDE DEF E
  <2> QED BY <1>2, <1>3, <2>1, RecursionExists
<1>5. ASSUME NEW n \in 0..N
      PROVE  g[n] = IF n = 0 THEN <<>> ELSE IF Pass(n) THEN Append(g[n - 1], n) ELSE g[n - 1]
  <2> SUFFICES ASSUME n # 0 PROVE g[n] = IF Pass(n) THEN Append(g[n - 1], n) ELSE g[n - 1]
    BY <1>2, <1>4 DEF Recursion
  <2>1. g[n] = E[n][g[n - 1]]
    <3> HIDE DEF E
    <3> QED BY <1>4 DEF Recursion
  <2>2. n \in Nat /\ n - 1 \in 0..N BY <1>2
  <2>3. g[n - 1] \in Seq(Nat) BY <1>4, <2>2
  <2>4. E[n][g[n - 1]] = IF Pass(n) THEN Append(g[n - 1], n) ELSE g[n - 1] BY <2>2, <2>3
  <2> QED BY <2>1, <2>4
<1>6. g = Step(g)
  <2>1. g = [n \in 0..N |-> g[n]] BY <1>4
  <2> QED BY <1>5, <2>1
<1>7. F = Step(F)
  <2> HIDE DEF Step
  <2> QED BY <1>6
<1> HIDE DEF F
<1>8. \A n \in 0..N : F[n] = IF n = 0 THEN <<>> ELSE IF Pass(n) THEN Append(F[n - 1], n) ELSE F[n - 1]
  BY <1>7
<1> DEFINE Passed(n) == {i \in 1..n : Pass(i)}
           T == {n \in Nat : n \in 0..N => Ascending(F[n], Passed(n))}
<1>9. T = Nat
  <2>1. 0 \in T
    <3>1. F[0] = <<>> /\ <<>> \in Seq(Nat) /\ Len(<<>>) = 0 BY <1>2, <1>8
    <3>2. Passed(0) = {} OBVIOUS
    <3>3. Ascending(F[0], Passed(0)) BY <3>1, <3>2 DEF Ascending
    <3> QED BY <3>3
  <2>2. ASSUME NEW n \in T PROVE n + 1 \in T
    <3> SUFFICES ASSUME n + 1 \in 0..N PROVE Ascending(F[n + 1], Passed(n + 1)) OBVIOUS
    <3> DEFINE j == n + 1
    <3>1. n \in Nat /\ n \in 0..N /\ j \in 0..N /\ j # 0 /\ j \in Nat /\ j - 1 = n BY <1>2
    <3>2. Ascending(F[n], Passed(n)) BY <3>1
    <3>3. \A i \in 1..j : i \in 1..n \/ i = j BY <3>1
    <3>4. \A i \in 1..n : i \in 1..j /\ i < j BY <3>1
    <3>5. j \in 1..j BY <3>1
    <3>6. F[j] = IF Pass(j) THEN Append(F[n], j) ELSE F[n] BY <1>8, <3>1
    <3> HIDE DEF j, T
    <3>7. CASE Pass(j)
      <4>1. \A i \in Passed(n) : i < j BY <3>4
      <4>2. Passed(j) = Passed(n) \cup {j} BY <3>3, <3>4, <3>5, <3>7
      <4> HIDE DEF Passed
      <4>3. Ascending(Append(F[n], j), Passed(n) \cup {j}) BY <3>1, <3>2, <4>1, AppendAscending
      <4> QED BY <3>6, <3>7, <4>2, <4>3 DEF j
    <3>8. CASE ~Pass(j)
      <4>1. Passed(j) = Passed(n) BY <3>3, <3>4, <3>8
      <4> HIDE DEF Passed
      <4> QED BY <3>2, <3>6, <3>8, <4>1 DEF j
    <3> QED BY <3>7, <3>8
  <2>3. T \subseteq Nat OBVIOUS
  <2> HIDE DEF T
  <2> QED BY <2>1, <2>2, <2>3, SetInduction
<1>10. Ascending(F[N], Passed(N))
  <2>1. N \in 0..N BY <1>2
  <2>2. N \in T BY <1>2, <1>9
  <2> QED BY <2>1, <2>2
<1> QED BY <1>1, <1>10 DEF N, Pass

\* Products with one factor, in order.
LEMMA Products ==
  ASSUME NEW a \in Nat, NEW b \in Nat, NEW c \in Nat \ {0}
  PROVE  /\ a * c \in Nat /\ b * c \in Nat
         /\ a <= b <=> a * c <= b * c
         /\ (a + 1) * c = a * c + c
OBVIOUS

LEMMA Quotients ==
  ASSUME NEW a \in Nat, NEW c \in Nat \ {0}
  PROVE  /\ a \div c \in Nat
         /\ (a \div c) * c <= a
         /\ a < (a \div c) * c + c
OBVIOUS

\* The pages are as many as it takes, and none of them is empty unless all is.
LEMMA PagesFacts ==
  ASSUME NEW filtered, Len(filtered) \in Nat, NEW limit \in Nat \ {0}
  PROVE  /\ TotalPages(filtered, limit) \in Nat \ {0}
         /\ Len(filtered) <= TotalPages(filtered, limit) * limit
         /\ \A p \in 1..TotalPages(filtered, limit) - 1 : p * limit <= Len(filtered)
<1> DEFINE N == Len(filtered)
           a == N + limit - 1
           q == a \div limit
           P == TotalPages(filtered, limit)
<1>1. N \in Nat /\ a \in Nat /\ a = N + limit - 1 OBVIOUS
<1>2. P = Max({1, q}) BY DEF TotalPages
<1>3. q \in Nat /\ q * limit <= a /\ a < q * limit + limit
  <2> HIDE DEF a
  <2> QED BY <1>1, Quotients
<1> HIDE DEF N, a, q, P
<1>4. P \in {1, q} /\ 1 <= P /\ q <= P
  <2>1. {1, q} \subseteq 0..q + 1 /\ q + 1 \in Nat BY <1>3
  <2>2. Max({1, q}) \in {1, q} /\ \A n \in {1, q} : n <= Max({1, q}) BY <2>1, MaxOf
  <2> QED BY <1>2, <2>2
<1>5. P \in Nat \ {0} BY <1>3, <1>4
<1>6. q * limit \in Nat /\ P * limit \in Nat /\ q * limit <= P * limit BY <1>3, <1>4, <1>5, Products
<1>7. N <= P * limit
  <2> DEFINE x == q * limit
             y == P * limit
  <2>1. x \in Nat /\ y \in Nat /\ x <= y /\ x <= a /\ a < x + limit BY <1>3, <1>6
  <2> HIDE DEF x, y
  <2>2. N <= y BY <1>1, <2>1
  <2> QED BY <2>2 DEF y
<1>8. ASSUME NEW p \in 1..P - 1 PROVE p * limit <= N
  <2>1. P = q /\ p \in Nat /\ p + 1 \in Nat /\ p + 1 <= q BY <1>3, <1>4
  <2> DEFINE x == q * limit
             y == p * limit
             z == (p + 1) * limit
  <2>2. x \in Nat /\ y \in Nat /\ z \in Nat /\ z = y + limit /\ z <= x BY <1>3, <2>1, Products
  <2>3. x <= a BY <1>3
  <2> HIDE DEF x, y, z
  <2>4. y <= N BY <1>1, <2>2, <2>3
  <2> QED BY <2>4 DEF y
<1> QED BY <1>5, <1>7, <1>8 DEF N, P

\* The part of a list that a page shows.
OnPage(list, s, start, end) ==
  /\ Len(s) = (IF end <= Len(list) THEN end ELSE Len(list)) - (IF start <= Len(list) THEN start ELSE Len(list))
  /\ DOMAIN s = 1..Len(s)
  /\ \A k \in 1..Len(s) : start + k \in 1..Len(list) /\ s[k] = list[start + k]

LEMMA SliceFacts ==
  ASSUME NEW S, NEW list \in Seq(S), NEW limit \in Nat \ {0}, NEW p \in Nat \ {0}
  PROVE  OnPage(list, Slice(list, p, limit), (p - 1) * limit, p * limit)
<1> DEFINE N == Len(list)
           start == (p - 1) * limit
           end == p * limit
           m == Min({N, end})
           s == SubSeq(list, start + 1, m)
<1>1. N \in Nat /\ start \in Nat /\ end \in Nat /\ end = start + limit
  <2>1. p - 1 \in Nat /\ (p - 1) + 1 = p OBVIOUS
  <2>2. start \in Nat /\ ((p - 1) + 1) * limit = start + limit BY <2>1, Products
  <2> QED BY <2>1, <2>2
<1>2. m \in {N, end} /\ m <= N /\ m <= end
  <2>1. {N, end} \subseteq Nat /\ {N, end} # {} BY <1>1
  <2>2. Min({N, end}) \in {N, end} /\ \A n \in {N, end} : Min({N, end}) <= n
    <3> HIDE DEF N, end
    <3> QED BY <2>1, MinOf
  <2> QED BY <2>2
<1>3. Slice(list, p, limit) = s BY DEF Slice
<1> HIDE DEF start, end, m
<1>4. start + 1 \in Int /\ m \in Int /\ \A i \in start + 1..m : list[i] \in S BY <1>1, <1>2
<1>5. /\ Len(s) = IF start + 1 <= m THEN m - (start + 1) + 1 ELSE 0
      /\ \A k \in 1..m - (start + 1) + 1 : s[k] = list[start + 1 + k - 1]
      /\ s \in Seq(S)
  BY <1>4, SubSeqProperties
<1> HIDE DEF s, N
<1>6. /\ Len(s) = (IF end <= N THEN end ELSE N) - (IF start <= N THEN start ELSE N)
      /\ Len(s) \in Nat /\ DOMAIN s = 1..Len(s)
  BY <1>1, <1>2, <1>5
<1>7. ASSUME NEW k \in 1..Len(s) PROVE start + k \in 1..N /\ s[k] = list[start + k]
  <2>1. k \in 1..m - (start + 1) + 1 /\ k \in Nat BY <1>1, <1>2, <1>5, <1>6
  <2>2. start + 1 + k - 1 = start + k BY <1>1, <2>1
  <2>3. start + k \in 1..N BY <1>1, <1>2, <2>1
  <2> QED BY <1>5, <2>1, <2>2, <2>3
<1> QED BY <1>3, <1>6, <1>7 DEF OnPage, N, start, end

\* Where the pages of a list of N begin and end.
PageBounds(B, P, limit, N) ==
  /\ B[0] = 0 /\ N <= B[P]
  /\ \A p \in 1..P - 1 : B[p] <= N
  /\ \A p \in 0..P : B[p + 1] = B[p] + limit
  /\ \A p, q \in 0..P + 1 : B[p] \in Nat /\ (p <= q => B[p] <= B[q])
  /\ \A n \in 1..N : \E p \in 0..P - 1 : B[p] < n /\ n <= B[p + 1]

LEMMA PageBoundsExist ==
  ASSUME NEW N \in Nat, NEW limit \in Nat \ {0}, NEW P \in Nat \ {0},
         N <= P * limit, \A p \in 1..P - 1 : p * limit <= N
  PROVE  PageBounds([p \in 0..P + 1 |-> p * limit], P, limit, N)
<1> DEFINE B == [p \in 0..P + 1 |-> p * limit]
<1>1. \A p, q \in 0..P + 1 : B[p] \in Nat /\ (p <= q => B[p] <= B[q])
  <2> SUFFICES ASSUME NEW p \in 0..P + 1, NEW q \in 0..P + 1
               PROVE  p * limit \in Nat /\ (p <= q => p * limit <= q * limit)
    OBVIOUS
  <2>1. p \in Nat /\ q \in Nat OBVIOUS
  <2> QED BY <2>1, Products
<1>2. \A p \in 0..P : B[p + 1] = B[p] + limit
  <2> SUFFICES ASSUME NEW p \in 0..P PROVE (p + 1) * limit = p * limit + limit OBVIOUS
  <2> QED BY Products
<1>3. B[0] = 0
  <2>1. 0 * limit = 0 /\ 0 \in 0..P + 1 OBVIOUS
  <2> QED BY <2>1
<1>4. N <= B[P]
  <2>1. P \in 0..P + 1 OBVIOUS
  <2> QED BY <2>1
<1>5. \A p \in 1..P - 1 : B[p] <= N
  <2> SUFFICES ASSUME NEW p \in 1..P - 1 PROVE B[p] <= N OBVIOUS
  <2>1. p \in 0..P + 1 OBVIOUS
  <2> QED BY <2>1
<1>6. ASSUME NEW n \in 1..N PROVE \E p \in 0..P - 1 : B[p] < n /\ n <= B[p + 1]
  <2> DEFINE a == n - 1
             d == a \div limit
             x == P * limit
             y == d * limit
  <2>1. a \in Nat /\ a < N /\ n = a + 1 OBVIOUS
  <2>2. d \in Nat /\ y <= a /\ a < y + limit /\ y \in Nat
    <3> HIDE DEF a
    <3> QED BY <2>1, Quotients, Products
  <2> HIDE DEF a, d
  <2>3. d < P
    <3> SUFFICES ASSUME P <= d PROVE FALSE BY <2>2
    <3>1. x \in Nat /\ x <= y /\ N <= x BY <2>2, Products
    <3> HIDE DEF x, y
    <3> QED BY <2>1, <2>2, <3>1
  <2>4. d \in 0..P - 1 /\ d \in 0..P /\ d \in 0..P + 1 BY <2>2, <2>3
  <2>5. B[d] = y BY <2>4
  <2> HIDE DEF B, y
  <2>6. B[d + 1] = y + limit BY <1>2, <2>4, <2>5
  <2>7. B[d] < n /\ n <= B[d + 1] BY <2>1, <2>2, <2>5, <2>6
  <2> QED BY <2>4, <2>7
<1> QED BY <1>1, <1>2, <1>3, <1>4, <1>5, <1>6 DEF PageBounds

\* Pages of a list of ranks: one after the other they are the list.
PagesOf(R, keep, pages, P, limit) ==
  /\ UNION {Range(pages[p]) : p \in 1..P} = keep
  /\ \A p, q \in 1..P : \A k \in DOMAIN pages[p], l \in DOMAIN pages[q] :
       p < q \/ (p = q /\ k < l) => pages[p][k] < pages[q][l]
  /\ \A p \in 1..P - 1 : Len(pages[p]) = limit
  /\ DOMAIN pages[P + 1] = {}

LEMMA PagesAreTheList ==
  ASSUME NEW R, NEW keep, Ascending(R, keep), NEW limit \in Nat \ {0}, NEW P \in Nat \ {0}, NEW pages,
         NEW B, PageBounds(B, P, limit, Len(R)),
         \A p \in 1..P + 1 : OnPage(R, pages[p], B[p - 1], B[p])
  PROVE  PagesOf(R, keep, pages, P, limit)
<1> DEFINE N == Len(R)
<1>1. /\ N \in Nat /\ \A k \in 1..N : R[k] \in Nat /\ R[k] \in keep
      /\ \A h \in keep : \E k \in 1..N : R[k] = h
      /\ \A j, k \in 1..N : j < k => R[j] < R[k]
  BY DEF Ascending
<1>2. \A p, q \in 0..P + 1 : B[p] \in Nat /\ (p <= q => B[p] <= B[q]) BY DEF PageBounds
<1>3. \A p \in 0..P : B[p + 1] = B[p] + limit BY DEF PageBounds
<1>4. B[0] = 0 /\ N <= B[P] /\ \A p \in 1..P - 1 : B[p] <= N BY DEF PageBounds
<1>5. \A n \in 1..N : \E p \in 0..P - 1 : B[p] < n /\ n <= B[p + 1] BY DEF PageBounds
<1> HIDE DEF N
<1>6. \A p \in 1..P + 1 :
        /\ Len(pages[p]) = (IF B[p] <= N THEN B[p] ELSE N) - (IF B[p - 1] <= N THEN B[p - 1] ELSE N)
        /\ DOMAIN pages[p] = 1..Len(pages[p])
        /\ \A k \in 1..Len(pages[p]) : B[p - 1] + k \in 1..N /\ pages[p][k] = R[B[p - 1] + k]
  BY DEF OnPage, N
<1>7. ASSUME NEW p \in 1..P - 1 PROVE Len(pages[p]) = limit
  <2>1. p \in 1..P + 1 /\ p - 1 \in 0..P /\ (p - 1) + 1 = p /\ p \in 0..P + 1 /\ p - 1 \in 0..P + 1 OBVIOUS
  <2>2. B[p] <= N /\ B[p] = B[p - 1] + limit BY <1>3, <1>4, <2>1
  <2>3. B[p - 1] \in Nat /\ B[p] \in Nat BY <1>2, <2>1
  <2>4. Len(pages[p]) = (IF B[p] <= N THEN B[p] ELSE N) - (IF B[p - 1] <= N THEN B[p - 1] ELSE N) BY <1>6, <2>1
  <2> DEFINE x == B[p - 1]
             y == B[p]
  <2>5. x \in Nat /\ y = x + limit /\ y <= N /\ Len(pages[p]) = (IF y <= N THEN y ELSE N) - (IF x <= N THEN x ELSE N)
    BY <2>2, <2>3, <2>4
  <2> HIDE DEF x, y
  <2> QED BY <1>1, <2>5
<1>8. DOMAIN pages[P + 1] = {}
  <2>1. P \in 0..P + 1 /\ P + 1 \in 0..P + 1 /\ P + 1 \in 1..P + 1 /\ (P + 1) - 1 = P OBVIOUS
  <2> DEFINE x == B[P]
             y == B[P + 1]
  <2>2. x \in Nat /\ y \in Nat /\ x <= y /\ N <= x BY <1>2, <1>4, <2>1
  <2>3. Len(pages[P + 1]) = (IF y <= N THEN y ELSE N) - (IF x <= N THEN x ELSE N)
        /\ DOMAIN pages[P + 1] = 1..Len(pages[P + 1])
    BY <1>6, <2>1
  <2> HIDE DEF x, y
  <2>4. Len(pages[P + 1]) = 0 BY <1>1, <2>2, <2>3
  <2> QED BY <2>3, <2>4
<1>9. ASSUME NEW p \in 1..P, NEW q \in 1..P, NEW k \in DOMAIN pages[p], NEW l \in DOMAIN pages[q],
             p < q \/ (p = q /\ k < l)
      PROVE  pages[p][k] < pages[q][l]
  <2>1. /\ p \in 1..P + 1 /\ q \in 1..P + 1 /\ p - 1 \in 0..P + 1 /\ q - 1 \in 0..P + 1
        /\ p \in 0..P + 1
    OBVIOUS
  <2> DEFINE x == B[p - 1]
             y == B[p]
             z == B[q - 1]
  <2>2. k \in 1..Len(pages[p]) /\ l \in 1..Len(pages[q]) BY <1>6, <2>1
  <2>3. /\ x + k \in 1..N /\ pages[p][k] = R[x + k]
        /\ z + l \in 1..N /\ pages[q][l] = R[z + l]
    BY <1>6, <2>1, <2>2
  <2>4. x \in Nat /\ y \in Nat /\ z \in Nat BY <1>2, <2>1
  <2>5. Len(pages[p]) = (IF y <= N THEN y ELSE N) - (IF x <= N THEN x ELSE N) BY <1>6, <2>1
  <2>6. p < q => y <= z
    <3> SUFFICES ASSUME p < q PROVE y <= z OBVIOUS
    <3>1. p <= q - 1 OBVIOUS
    <3> QED BY <1>2, <2>1, <3>1
  <2> HIDE DEF x, y, z
  <2>7. k \in Nat /\ l \in Nat /\ l >= 1 /\ k >= 1 /\ k <= Len(pages[p]) BY <1>1, <2>2, <2>4, <2>5
  <2>8. x + k <= y
    <3>1. x + 1 <= N BY <1>1, <2>3, <2>4, <2>7
    <3>2. k <= y - x BY <1>1, <2>4, <2>5, <2>7, <3>1
    <3> QED BY <2>4, <2>7, <3>2
  <2>9. x + k < z + l
    <3>1. CASE p = q /\ k < l
      <4>1. x = z BY <3>1 DEF x, z
      <4> QED BY <2>4, <2>7, <3>1, <4>1
    <3>2. CASE p < q BY <2>4, <2>6, <2>7, <2>8, <3>2
    <3> QED BY <1>9, <3>1, <3>2
  <2>10. R[x + k] < R[z + l] BY <1>1, <2>3, <2>9
  <2> QED BY <2>3, <2>10
<1>10. ASSUME NEW n \in 1..N PROVE \E p \in 1..P : \E k \in DOMAIN pages[p] : pages[p][k] = R[n]
  <2>1. PICK d \in 0..P - 1 : B[d] < n /\ n <= B[d + 1] BY <1>5
  <2> DEFINE p == d + 1
             x == B[d]
             y == B[p]
             k == n - x
  <2>2. d \in 0..P + 1 /\ d \in 0..P /\ p \in 1..P /\ p \in 1..P + 1 /\ p \in 0..P + 1 /\ p - 1 = d OBVIOUS
  <2>3. x \in Nat /\ y \in Nat /\ x < n /\ n <= y BY <1>2, <2>1, <2>2
  <2>4. Len(pages[p]) = (IF y <= N THEN y ELSE N) - (IF x <= N THEN x ELSE N)
        /\ DOMAIN pages[p] = 1..Len(pages[p])
        /\ \A i \in 1..Len(pages[p]) : pages[p][i] = R[x + i]
    BY <1>6, <2>2
  <2> HIDE DEF p, x, y
  <2>5. n \in Nat /\ n <= N BY <1>1
  <2>6. k \in 1..Len(pages[p]) /\ x + k = n BY <1>1, <2>3, <2>4, <2>5
  <2> HIDE DEF k
  <2>7. pages[p][k] = R[n] /\ k \in DOMAIN pages[p] BY <2>4, <2>6
  <2> QED BY <2>2, <2>7
<1>11. \A p \in 1..P : \A x \in Range(pages[p]) : x \in keep
  <2> SUFFICES ASSUME NEW p \in 1..P, NEW k \in DOMAIN pages[p] PROVE pages[p][k] \in keep BY DEF Range
  <2>1. p \in 1..P + 1 OBVIOUS
  <2> QED BY <1>1, <1>6, <2>1
<1>12. ASSUME NEW h \in keep PROVE \E p \in 1..P : h \in Range(pages[p])
  <2>1. PICK n \in 1..N : R[n] = h BY <1>1
  <2>2. PICK p \in 1..P : \E k \in DOMAIN pages[p] : pages[p][k] = R[n] BY <1>10
  <2> QED BY <2>1, <2>2 DEF Range
<1>13. UNION {Range(pages[p]) : p \in 1..P} = keep BY <1>11, <1>12
<1> QED BY <1>7, <1>8, <1>9, <1>13 DEF PagesOf

\* The answers to all pages of one search, and to the one after the last.
Replies(tt, journeys, f, limit, m) ==
  [p \in 1..TotalPages(FilteredRoutes(journeys, f), limit) + 1 |-> Answer(tt, journeys, f, p, limit, m)]

\* An answer has the ranks of its page, and the journeys of these ranks.
AnswersPage(a, tt, journeys, f, p, limit, m) ==
  /\ a.pages = TotalPages(FilteredRoutes(journeys, f), limit)
  /\ Len(FilteredRoutes(journeys, f)) = Len(Passing(journeys, f)) /\ Len(Passing(journeys, f)) \in Nat
  /\ OnPage(Passing(journeys, f), [k \in DOMAIN a.routes |-> a.routes[k].rank], (p - 1) * limit, p * limit)
  /\ a.routes = [k \in DOMAIN a.routes |-> a.routes[k]]
  /\ \E n \in Nat : DOMAIN a.routes = 1..n
  /\ \A k \in DOMAIN a.routes : \E i \in 1..Len(journeys) : a.routes[k] = RenderJourney(tt, journeys[i], i, m)

LEMMA AnswerFacts ==
  ASSUME NEW tt, NEW journeys, NEW f, NEW limit \in Nat \ {0}, NEW m, NEW p \in Nat \ {0}, Len(journeys) \in Nat
  PROVE  AnswersPage(Answer(tt, journeys, f, p, limit, m), tt, journeys, f, p, limit, m)
<1> DEFINE L == FilteredRoutes(journeys, f)
           R == Passing(journeys, f)
           a == Answer(tt, journeys, f, p, limit, m)
           ranks == [k \in DOMAIN a.routes |-> a.routes[k].rank]
           keep == {i \in 1..Len(journeys) : PassesFilters(journeys[i], f)}
           s == Slice(L, p, limit)
           N == Len(R)
<1>1. Ascending(R, keep) BY PassingFacts
<1>2. N \in Nat /\ DOMAIN R = 1..N /\ \A k \in 1..N : R[k] \in keep
  <2> HIDE DEF R, keep
  <2> QED BY <1>1 DEF Ascending
<1>3. L = [k \in 1..N |-> [j |-> journeys[R[k]], rank |-> R[k]]] BY <1>2 DEF FilteredRoutes
<1>4. a.pages = TotalPages(L, limit) BY DEF Answer
<1>5. a.routes = [k \in DOMAIN s |-> RenderJourney(tt, s[k].j, s[k].rank, m)] BY DEF Answer
<1> HIDE DEF L, R, a, s, N
<1> DEFINE S == {L[k] : k \in 1..N}
<1>6. L \in Seq(S) /\ Len(L) = N /\ \A k \in 1..N : L[k] = [j |-> journeys[R[k]], rank |-> R[k]]
  <2>1. \A k \in 1..N : L[k] = [j |-> journeys[R[k]], rank |-> R[k]] BY <1>3
  <2>2. DOMAIN L = 1..N /\ L = [k \in 1..N |-> L[k]] BY <1>3
  <2>3. L \in [1..N -> S] BY <2>2
  <2>4. L \in Seq(S) /\ Len(L) = N
    <3> HIDE DEF S
    <3> QED BY <1>2, <2>2, <2>3
  <2> QED BY <2>1, <2>4
<1>7. OnPage(L, s, (p - 1) * limit, p * limit)
  <2> HIDE DEF S
  <2> QED BY <1>6, SliceFacts DEF s
<1> DEFINE start == (p - 1) * limit
           end == p * limit
<1> HIDE DEF start, end
<1>8. /\ Len(s) = (IF end <= N THEN end ELSE N) - (IF start <= N THEN start ELSE N)
      /\ DOMAIN s = 1..Len(s)
      /\ \A k \in 1..Len(s) : start + k \in 1..N /\ s[k] = L[start + k]
  BY <1>6, <1>7 DEF OnPage, start, end
<1>9. \E n \in Nat : DOMAIN s = 1..n
  <2>1. start \in Nat /\ end \in Nat /\ start <= end
    <3>1. p - 1 \in Nat /\ p \in Nat /\ p - 1 <= p OBVIOUS
    <3> QED BY <3>1, Products DEF start, end
  <2>2. Len(s) \in Nat BY <1>2, <1>8, <2>1
  <2> QED BY <1>8, <2>2
<1>10. PICK n \in Nat : DOMAIN s = 1..n BY <1>9
<1>11. DOMAIN a.routes = 1..n /\ DOMAIN ranks = 1..n BY <1>5, <1>10
<1>12. ASSUME NEW k \in 1..n
       PROVE  /\ start + k \in 1..N /\ ranks[k] = R[start + k]
              /\ \E i \in 1..Len(journeys) : a.routes[k] = RenderJourney(tt, journeys[i], i, m)
  <2>1. start + k \in 1..N /\ s[k] = L[start + k] BY <1>8, <1>10
  <2> DEFINE i == R[start + k]
  <2>2. L[start + k] = [j |-> journeys[i], rank |-> i] /\ i \in keep BY <1>2, <1>6, <2>1
  <2> HIDE DEF i
  <2>3. s[k].j = journeys[i] /\ s[k].rank = i BY <2>1, <2>2
  <2>4. a.routes[k] = RenderJourney(tt, journeys[i], i, m) BY <1>5, <1>10, <2>3
  <2>5. a.routes[k].rank = i BY <2>4 DEF RenderJourney
  <2>6. ranks[k] = i BY <1>11, <2>5
  <2> QED BY <2>1, <2>2, <2>4, <2>6 DEF i
<1> HIDE DEF ranks
<1>13. Len(ranks) = Len(s)
  <2>1. \A r : DOMAIN r = 1..n => Len(r) = n OBVIOUS
  <2> QED BY <1>10, <1>11, <2>1
<1>14. OnPage(R, ranks, start, end)
  <2>1. Len(s) = n BY <1>10
  <2> QED BY <1>8, <1>11, <1>12, <1>13, <2>1 DEF OnPage, N
<1>15. a.routes = [k \in DOMAIN a.routes |-> a.routes[k]] BY <1>5
<1> QED BY <1>2, <1>4, <1>6, <1>11, <1>12, <1>14, <1>15 DEF AnswersPage, L, R, a, ranks, N, start, end

LEMMA PagesAreSound ==
  ASSUME NEW tt, NEW journeys, NEW f, NEW limit \in Nat \ {0}, NEW m,
         Len(journeys) \in Nat, DOMAIN journeys = 1..Len(journeys)
  PROVE  SoundPages(journeys, f, limit, Replies(tt, journeys, f, limit, m))
<1> DEFINE L == FilteredRoutes(journeys, f)
           R == Passing(journeys, f)
           P == TotalPages(L, limit)
           A(p) == Answer(tt, journeys, f, p, limit, m)
           Ranks(p) == [k \in DOMAIN A(p).routes |-> A(p).routes[k].rank]
           pages == [p \in 1..P + 1 |-> Ranks(p)]
           keep == {i \in 1..Len(journeys) : PassesFilters(journeys[i], f)}
           answers == Replies(tt, journeys, f, limit, m)
           B == [p \in 0..P + 1 |-> p * limit]
<1>1. answers = [p \in 1..P + 1 |-> A(p)] BY DEF Replies
<1>2. \A p \in Nat \ {0} : /\ A(p).pages = P /\ Len(L) = Len(R) /\ Len(L) \in Nat
                           /\ OnPage(R, Ranks(p), (p - 1) * limit, p * limit)
                           /\ A(p).routes = [k \in DOMAIN A(p).routes |-> A(p).routes[k]]
                           /\ \E n \in Nat : DOMAIN A(p).routes = 1..n
  <2>1. \A p \in Nat \ {0} : AnswersPage(A(p), tt, journeys, f, p, limit, m) BY AnswerFacts
  <2> HIDE DEF A
  <2> QED BY <2>1 DEF AnswersPage
<1>3. Ascending(R, keep) BY PassingFacts
<1>4. Len(L) = Len(R) /\ Len(R) \in Nat
  <2>1. 1 \in Nat \ {0} OBVIOUS
  <2> QED BY <1>2, <2>1
<1>5. P \in Nat \ {0} /\ Len(R) <= P * limit /\ \A p \in 1..P - 1 : p * limit <= Len(R)
  <2> HIDE DEF L, R
  <2> QED BY <1>4, PagesFacts
<1> HIDE DEF L, R, P, A, answers
<1>6. PageBounds(B, P, limit, Len(R)) BY <1>4, <1>5, PageBoundsExist
<1>7. \A p \in 1..P + 1 : OnPage(R, pages[p], B[p - 1], B[p])
  <2> SUFFICES ASSUME NEW p \in 1..P + 1 PROVE OnPage(R, pages[p], B[p - 1], B[p]) OBVIOUS
  <2>1. p \in Nat \ {0} /\ p - 1 \in 0..P + 1 /\ p \in 0..P + 1 BY <1>5
  <2>2. OnPage(R, Ranks(p), (p - 1) * limit, p * limit) BY <1>2, <2>1
  <2>3. pages[p] = Ranks(p) /\ B[p - 1] = (p - 1) * limit /\ B[p] = p * limit BY <2>1
  <2> HIDE DEF Ranks, pages, B
  <2> QED BY <2>2, <2>3
<1>8. \A p \in 1..P + 1 : pages[p] = Ranks(p) OBVIOUS
<1>9. \A p \in 1..P + 1 : answers[p] = A(p) BY <1>1
<1> HIDE DEF B, pages, keep
<1>10. PagesOf(R, keep, pages, P, limit) BY <1>3, <1>5, <1>6, <1>7, PagesAreTheList
<1>11. answers[1].pages = P
  <2>1. 1 \in 1..P + 1 /\ 1 \in Nat \ {0} BY <1>5
  <2> QED BY <1>2, <1>9, <2>1
<1> DEFINE RanksOf(p) == [k \in DOMAIN answers[p].routes |-> answers[p].routes[k].rank]
<1>12. \A p \in 1..P + 1 : RanksOf(p) = pages[p] BY <1>8, <1>9
<1>13. answers[P + 1].routes = <<>>
  <2>1. P + 1 \in 1..P + 1 /\ P + 1 \in Nat \ {0} BY <1>5
  <2>2. DOMAIN Ranks(P + 1) = {} BY <1>8, <1>10, <2>1 DEF PagesOf
  <2>3. DOMAIN A(P + 1).routes = {} BY <2>2
  <2> DEFINE r == A(P + 1).routes
  <2>4. r = [k \in DOMAIN r |-> r[k]] /\ \E n \in Nat : DOMAIN r = 1..n BY <1>2, <2>1
  <2> HIDE DEF r
  <2>5. DOMAIN r = {} BY <2>3 DEF r
  <2>6. DOMAIN r = 1..0 /\ 0 \in Nat BY <2>5
  <2>7. r \in [1..0 -> {0}] BY <2>4, <2>5, <2>6
  <2>8. r \in Seq({0}) /\ Len(r) = 0 BY <2>6, <2>7
  <2>9. r = <<>> BY <2>8, EmptySeq
  <2> QED BY <1>9, <2>1, <2>9 DEF r
<1>14. Len(answers) = P + 1
  <2>1. P + 1 \in Nat BY <1>5
  <2> QED BY <1>1, <2>1
<1>15. keep = {i \in DOMAIN journeys : PassesFilters(journeys[i], f)} BY DEF keep
<1>16. \A p \in 1..P : p \in 1..P + 1 BY <1>5
<1>17. \A p \in 1..P - 1 : p \in 1..P + 1 BY <1>5
<1> HIDE DEF RanksOf, Ranks
<1>18. UNION {Range(RanksOf(p)) : p \in 1..P} = keep
  <2>1. {Range(RanksOf(p)) : p \in 1..P} = {Range(pages[p]) : p \in 1..P} BY <1>12, <1>16
  <2> QED BY <1>10, <2>1 DEF PagesOf
<1>19. \A p, q \in 1..P : \A k \in DOMAIN RanksOf(p), l \in DOMAIN RanksOf(q) :
         p < q \/ (p = q /\ k < l) => RanksOf(p)[k] < RanksOf(q)[l]
  BY <1>10, <1>12, <1>16 DEF PagesOf
<1>20. \A p \in 1..P - 1 : Len(RanksOf(p)) = limit BY <1>10, <1>12, <1>17 DEF PagesOf
<1> QED BY <1>11, <1>13, <1>14, <1>15, <1>18, <1>19, <1>20 DEF SoundPages, RanksOf, answers

\* Times of an accepted train never go back, from an arrival to a departure or along the train.
LEMMA TimesGoForward ==
  ASSUME NEW train, train.stops \in Seq(CallRecords), Accepted(train),
         NEW k \in 1..Len(train.stops), NEW l \in 1..Len(train.stops)
  PROVE  /\ k < l => \A v \in {train.stops[k].arr, train.stops[k].dep} \ {NoTime},
                        w \in {train.stops[l].arr, train.stops[l].dep} \ {NoTime} : v <= w
         /\ train.stops[k].arr # NoTime /\ train.stops[k].dep # NoTime => train.stops[k].arr <= train.stops[k].dep
<1> DEFINE n == Len(train.stops)
           times == Times(train)
<1>1. n \in Nat OBVIOUS
<1>2. \A i \in 1..n : /\ 2 * i - 1 \in 1..2 * n /\ 2 * i \in 1..2 * n
                      /\ (2 * i - 1) % 2 = 1 /\ ((2 * i - 1) + 1) \div 2 = i
                      /\ (2 * i) % 2 = 0 /\ (2 * i) \div 2 = i
  BY <1>1
<1>3. times = [i \in 1..2 * n |->
                 IF i % 2 = 1 THEN train.stops[(i + 1) \div 2].arr ELSE train.stops[i \div 2].dep]
  BY DEF Times
<1>4. \A i \in 1..2 * n : times[i] # NoTime => \A j \in 1..i : times[j] # NoTime => times[j] <= times[i]
  BY DEF Accepted
<1> HIDE DEF n, times
<1>5. \A i \in 1..n : times[2 * i - 1] = train.stops[i].arr /\ times[2 * i] = train.stops[i].dep
  <2> SUFFICES ASSUME NEW i \in 1..n PROVE times[2 * i - 1] = train.stops[i].arr /\ times[2 * i] = train.stops[i].dep
    OBVIOUS
  <2> DEFINE a == 2 * i - 1
             d == 2 * i
  <2>1. a \in 1..2 * n /\ a % 2 = 1 /\ (a + 1) \div 2 = i /\ d \in 1..2 * n /\ d % 2 # 1 /\ d \div 2 = i BY <1>2
  <2> HIDE DEF a, d
  <2>2. times[a] = train.stops[i].arr /\ times[d] = train.stops[i].dep BY <1>3, <2>1
  <2> QED BY <2>2 DEF a, d
<1>6. k \in 1..n /\ l \in 1..n BY DEF n
<1>7. train.stops[k].arr # NoTime /\ train.stops[k].dep # NoTime => train.stops[k].arr <= train.stops[k].dep
  <2>1. 2 * k \in 1..2 * n /\ 2 * k - 1 \in 1..2 * k BY <1>1, <1>6
  <2> QED BY <1>4, <1>5, <1>6, <2>1
<1>8. ASSUME k < l,
             NEW v \in {train.stops[k].arr, train.stops[k].dep} \ {NoTime},
             NEW w \in {train.stops[l].arr, train.stops[l].dep} \ {NoTime}
      PROVE  v <= w
  <2>1. PICK i \in {2 * k - 1, 2 * k} : times[i] = v BY <1>5, <1>6
  <2>2. PICK j \in {2 * l - 1, 2 * l} : times[j] = w BY <1>5, <1>6
  <2>3. j \in 1..2 * n /\ i \in 1..j BY <1>1, <1>6, <1>8
  <2>4. times[i] # NoTime /\ times[j] # NoTime BY <2>1, <2>2
  <2> QED BY <1>4, <2>1, <2>2, <2>3, <2>4
<1> QED BY <1>7, <1>8

\* A segment begins with its departure, ends with its arrival, and goes forward.
LEMMA SegmentsGoForward ==
  ASSUME NEW tt, Loaded(tt), NEW leg \in [train : Nat \ {0}, board : Nat \ {0}, alight : Nat, startDay : Int],
         LegFits(tt, leg)
  PROVE  /\ Forward(Segment(tt, leg))
         /\ tt[leg.train].stops[leg.board].dep \in Int /\ tt[leg.train].stops[leg.alight].arr \in Int
<1> DEFINE train == tt[leg.train]
           b == leg.board
           a == leg.alight
           N == Len(train.stops)
           base == leg.startDay * Day
           s == Segment(tt, leg)
           m == a - b + 1
<1>1. train.stops \in Seq(CallRecords) /\ Accepted(train) /\ Timed(train) BY DEF Loaded, LegFits
<1>2. N \in Nat /\ b \in Nat \ {0} /\ a \in Nat /\ b < a /\ a <= N BY <1>1 DEF LegFits
<1>3. base \in Int BY TimetableAssumption
<1>4. /\ s.departure = base + train.stops[b].dep /\ s.arrival = base + train.stops[a].arr
      /\ s.km = train.stops[a].dist - train.stops[b].dist
      /\ s.stops = [n \in 1..a - b + 1 |-> RenderedStop(tt, leg, b + n - 1)]
  BY DEF Segment
<1> HIDE DEF s
<1> DEFINE At(n) == b + n - 1
<1>5. ASSUME NEW n \in 1..m
      PROVE  /\ s.stops[n].arrival = IF At(n) = b \/ train.stops[At(n)].arr = NoTime THEN Unset
                                     ELSE base + train.stops[At(n)].arr
             /\ s.stops[n].departure = IF At(n) = a \/ train.stops[At(n)].dep = NoTime THEN Unset
                                       ELSE base + train.stops[At(n)].dep
             /\ s.stops[n].km = train.stops[At(n)].dist - train.stops[b].dist
  <2>1. s.stops[n] = RenderedStop(tt, leg, At(n)) BY <1>4
  <2> QED BY <2>1 DEF RenderedStop
<1>6. m \in Nat /\ Len(s.stops) = m BY <1>2, <1>4
<1>7. \A n \in 1..m : At(n) \in 1..N BY <1>2
<1>8. \A k \in 1..N : train.stops[k] \in CallRecords BY <1>1
<1>9. \A k \in 1..N : train.stops[k].arr \in Int /\ train.stops[k].dep \in Int BY <1>8 DEF CallRecords, NoTime
<1>10. \A k \in 1..N - 1 : train.stops[k].dep # NoTime BY <1>1 DEF Accepted
<1>11. \A k \in 2..N : train.stops[k].arr # NoTime BY <1>1 DEF Timed
<1>12. 1 \in 1..m /\ m \in 1..m /\ At(1) = b /\ At(m) = a /\ a # b /\ b \in 1..N - 1 /\ a \in 2..N BY <1>2
<1>13. /\ s.stops[1].arrival = Unset /\ s.stops[1].departure = s.departure
       /\ s.stops[m].arrival = s.arrival /\ s.stops[m].departure = Unset
       /\ s.km = s.stops[m].km
  <2> HIDE DEF At, m, a, b, train, N, base
  <2> QED BY <1>4, <1>5, <1>10, <1>11, <1>12
<1> DEFINE Moments(stop) == {stop.arrival, stop.departure} \ {Unset}
<1>14. ASSUME NEW k \in 1..m, NEW l \in 1..m, NEW x \in Moments(s.stops[k]), NEW y \in Moments(s.stops[l]),
              k < l \/ (k = l /\ x = s.stops[k].arrival /\ y = s.stops[k].departure)
       PROVE  x <= y
  <2> DEFINE g == At(k)
             h == At(l)
  <2>1. g \in 1..N /\ h \in 1..N /\ (k < l => g < h) /\ (k = l => g = h) BY <1>2, <1>7
  <2>2. /\ x = s.stops[k].arrival => train.stops[g].arr # NoTime /\ x = base + train.stops[g].arr
        /\ x = s.stops[k].departure => train.stops[g].dep # NoTime /\ x = base + train.stops[g].dep
    BY <1>5
  <2>3. /\ y = s.stops[l].arrival => train.stops[h].arr # NoTime /\ y = base + train.stops[h].arr
        /\ y = s.stops[l].departure => train.stops[h].dep # NoTime /\ y = base + train.stops[h].dep
    BY <1>5
  <2> HIDE DEF At, m, train, N, base, g, h
  <2>4. CASE k < l
    <3>1. PICK v \in {train.stops[g].arr, train.stops[g].dep} \ {NoTime} : x = base + v BY <2>2
    <3>2. PICK w \in {train.stops[h].arr, train.stops[h].dep} \ {NoTime} : y = base + w BY <2>3
    <3>3. v <= w BY <1>1, <2>1, <2>4, <3>1, <3>2, TimesGoForward DEF N
    <3>4. v \in Int /\ w \in Int BY <1>9, <2>1
    <3> QED BY <1>3, <3>1, <3>2, <3>3, <3>4
  <2>5. CASE k = l /\ x = s.stops[k].arrival /\ y = s.stops[k].departure
    <3> DEFINE v == train.stops[g].arr
               w == train.stops[g].dep
    <3>1. v # NoTime /\ x = base + v /\ w # NoTime /\ y = base + w BY <2>1, <2>2, <2>3, <2>5
    <3>2. v <= w BY <1>1, <2>1, <3>1, TimesGoForward DEF N
    <3>3. v \in Int /\ w \in Int BY <1>9, <2>1
    <3> HIDE DEF v, w
    <3> QED BY <1>3, <3>1, <3>2, <3>3
  <2> QED BY <1>14, <2>4, <2>5
<1>15. train.stops[b].dep \in Int /\ train.stops[a].arr \in Int BY <1>2, <1>9
<1> HIDE DEF m, train, a, b
<1> QED BY <1>6, <1>13, <1>14, <1>15 DEF Forward, s, train, a, b

LEMMA RouteIsSound ==
  ASSUME NEW tt, Loaded(tt), NEW legs, Rides(tt, legs), NEW rank, NEW minute \in Int
  PROVE  SoundRoute(RenderJourney(tt, EngineJourney(tt, legs), rank, minute))
<1> DEFINE n == Len(legs)
           Dp(l) == l.startDay * Day + tt[l.train].stops[l.board].dep
           Ar(l) == l.startDay * Day + tt[l.train].stops[l.alight].arr
           D == [i \in 1..n |-> Dp(legs[i])]
           A == [i \in 1..n |-> Ar(legs[i])]
           travel == Plus([i \in 1..n |-> A[i] - D[i]])
           j == EngineJourney(tt, legs)
           r == RenderJourney(tt, j, rank, minute)
           s == r.segments
           t == r.transfers
<1>1. n \in Nat \ {0} /\ DOMAIN legs = 1..n
  <2>1. legs # <<>> /\ legs \in Seq([train : Nat \ {0}, board : Nat \ {0}, alight : Nat, startDay : Int])
    BY DEF Rides
  <2> QED BY <2>1
<1>2. \A i \in 1..n : legs[i] \in [train : Nat \ {0}, board : Nat \ {0}, alight : Nat, startDay : Int]
  <2> DEFINE S == [train : Nat \ {0}, board : Nat \ {0}, alight : Nat, startDay : Int]
  <2>1. legs \in Seq(S) BY DEF Rides
  <2> HIDE DEF S
  <2>2. \A i \in 1..n : legs[i] \in S BY <2>1
  <2> QED BY <2>2 DEF S
<1>3. \A i \in 1..n : LegFits(tt, legs[i]) BY DEF Rides
<1>4. \A i \in 1..n : /\ Forward(Segment(tt, legs[i]))
                      /\ tt[legs[i].train].stops[legs[i].board].dep \in Int
                      /\ tt[legs[i].train].stops[legs[i].alight].arr \in Int
  BY <1>2, <1>3, SegmentsGoForward
<1>5. \A i \in 1..n : D[i] \in Int /\ A[i] \in Int
  <2> SUFFICES ASSUME NEW i \in 1..n PROVE Dp(legs[i]) \in Int /\ Ar(legs[i]) \in Int OBVIOUS
  <2>1. legs[i].startDay \in Int BY <1>2
  <2>2. legs[i].startDay * Day \in Int BY <2>1, TimetableAssumption
  <2> QED BY <1>4, <2>2
<1>6. D \in [1..n -> Int] /\ A \in [1..n -> Int] BY <1>5
<1>7. /\ j.legs = legs /\ j.dep = D[1] /\ j.arr = A[n] /\ j.travel = travel /\ j.waiting = A[n] - D[1] - travel
  <2>1. 1 \in 1..n /\ n \in 1..n BY <1>1
  <2>2. [i \in DOMAIN legs |-> Ar(legs[i]) - Dp(legs[i])] = [i \in 1..n |-> A[i] - D[i]] BY <1>1
  <2>3. j.legs = legs /\ j.dep = Dp(legs[1]) /\ j.arr = Ar(legs[n])
        /\ j.travel = Plus([i \in DOMAIN legs |-> Ar(legs[i]) - Dp(legs[i])])
        /\ j.waiting = Ar(legs[n]) - Dp(legs[1]) - Plus([i \in DOMAIN legs |-> Ar(legs[i]) - Dp(legs[i])])
    BY DEF EngineJourney
  <2>4. Dp(legs[1]) = D[1] /\ Ar(legs[n]) = A[n] BY <2>1
  <2> HIDE DEF j, Dp, Ar, D, A
  <2> QED BY <2>2, <2>3, <2>4
<1>8. /\ travel \in Int
      /\ Plus([i \in 1..n - 1 |-> D[i + 1] - A[i]]) = A[n] - D[1] - travel
  <2> HIDE DEF D, A
  <2> QED BY <1>1, <1>6, RidesAndWaits
<1> HIDE DEF j, travel
<1>9. /\ r.departure = j.dep /\ r.arrival = j.arr /\ r.duration = j.arr - j.dep
      /\ r.elapsed = j.arr - minute /\ r.initialWait = j.dep - minute
      /\ r.travel = j.travel /\ r.waiting = j.waiting
      /\ s = [i \in DOMAIN j.legs |-> Segment(tt, j.legs[i])]
      /\ t = [i \in 1..Len(j.legs) - 1 |-> Transfer(tt, j.legs[i], j.legs[i + 1])]
      /\ r.km = Plus([i \in DOMAIN s |-> s[i].km])
  BY DEF RenderJourney
<1> HIDE DEF r, s, t
<1>10. s = [i \in 1..n |-> Segment(tt, legs[i])] /\ Len(s) = n /\ DOMAIN s = 1..n
  <2>1. s = [i \in 1..n |-> Segment(tt, legs[i])] BY <1>1, <1>7, <1>9
  <2> QED BY <1>1, <2>1
<1>11. t = [i \in 1..n - 1 |-> Transfer(tt, legs[i], legs[i + 1])] BY <1>7, <1>9
<1>12. ASSUME NEW i \in 1..n
       PROVE  /\ s[i].departure = D[i] /\ s[i].arrival = A[i] /\ s[i].duration = A[i] - D[i]
              /\ s[i].from = StationAt(tt[legs[i].train], legs[i].board)
              /\ s[i].to = StationAt(tt[legs[i].train], legs[i].alight)
              /\ Forward(s[i])
  <2> DEFINE l == legs[i]
             d == tt[l.train].stops[l.board].dep
             a == tt[l.train].stops[l.alight].arr
             base == l.startDay * Day
  <2>1. s[i] = Segment(tt, l) BY <1>10
  <2>2. /\ s[i].departure = base + d /\ s[i].arrival = base + a /\ s[i].duration = a - d
        /\ s[i].from = StationAt(tt[l.train], l.board) /\ s[i].to = StationAt(tt[l.train], l.alight)
    <3> DEFINE g == Segment(tt, l)
    <3>1. g.departure = base + d /\ g.arrival = base + a BY DEF Segment
    <3>2. g.duration = a - d BY DEF Segment
    <3>3. g.from = StationAt(tt[l.train], l.board) /\ g.to = StationAt(tt[l.train], l.alight)
      BY DEF Segment, StationAt
    <3> HIDE DEF g, base, a, d, l
    <3> QED BY <2>1, <3>1, <3>2, <3>3 DEF g
  <2>3. D[i] = base + d /\ A[i] = base + a OBVIOUS
  <2>4. base \in Int /\ d \in Int /\ a \in Int
    <3>1. l.startDay \in Int BY <1>2
    <3> QED BY <1>4, <3>1, TimetableAssumption
  <2>5. Forward(s[i]) BY <1>4, <2>1
  <2> HIDE DEF D, A, base, d, a
  <2>6. a - d = A[i] - D[i] BY <2>3, <2>4
  <2> QED BY <2>2, <2>3, <2>5, <2>6
<1>13. ASSUME NEW i \in 1..n - 1
       PROVE  /\ t[i].arrival = A[i] /\ t[i].departure = D[i + 1] /\ t[i].wait = D[i + 1] - A[i]
              /\ t[i].station = StationAt(tt[legs[i].train], legs[i].alight)
  <2>1. i \in 1..n /\ i + 1 \in 1..n BY <1>1
  <2>2. t[i] = Transfer(tt, legs[i], legs[i + 1]) BY <1>11
  <2>3. t[i].arrival = Ar(legs[i]) /\ t[i].departure = Dp(legs[i + 1]) /\ t[i].wait = Dp(legs[i + 1]) - Ar(legs[i])
        /\ t[i].station = StationAt(tt[legs[i].train], legs[i].alight)
    <3> DEFINE l == legs[i]
               next == legs[i + 1]
               g == Transfer(tt, l, next)
    <3>1. g.arrival = Ar(l) /\ g.departure = Dp(next) BY DEF Transfer
    <3>2. g.wait = Dp(next) - Ar(l) BY DEF Transfer
    <3>3. g.station = StationAt(tt[l.train], l.alight) BY DEF Transfer, StationAt
    <3> HIDE DEF g, Ar, Dp
    <3> QED BY <2>2, <3>1, <3>2, <3>3 DEF g
  <2>4. A[i] = Ar(legs[i]) /\ D[i + 1] = Dp(legs[i + 1]) BY <2>1
  <2> HIDE DEF D, A, Ar, Dp
  <2> QED BY <2>3, <2>4
<1> HIDE DEF D, A
<1>14. \A i \in 1..n - 1 :
         StationAt(tt[legs[i].train], legs[i].alight) = StationAt(tt[legs[i + 1].train], legs[i + 1].board)
  BY DEF Rides
<1>15. s[1].departure = r.departure /\ s[n].arrival = r.arrival
  <2>1. 1 \in 1..n /\ n \in 1..n BY <1>1
  <2> QED BY <1>7, <1>9, <1>12, <2>1
<1>16. D[1] \in Int /\ A[n] \in Int BY <1>1, <1>5
<1>17. r.duration = r.travel + r.waiting
  <2>1. r.duration = A[n] - D[1] /\ r.travel = travel /\ r.waiting = A[n] - D[1] - travel BY <1>7, <1>9
  <2> DEFINE a == A[n]
             d == D[1]
  <2>2. a \in Int /\ d \in Int /\ travel \in Int BY <1>8, <1>16
  <2> HIDE DEF a, d
  <2>3. a - d = travel + (a - d - travel) BY <2>2
  <2> QED BY <2>1, <2>3 DEF a, d
<1>18. r.travel = Plus([i \in 1..n |-> s[i].duration])
  <2>1. [i \in 1..n |-> s[i].duration] = [i \in 1..n |-> A[i] - D[i]] BY <1>12
  <2> QED BY <1>7, <1>9, <2>1 DEF travel
<1>19. r.waiting = Plus([i \in 1..n - 1 |-> t[i].wait])
  <2>1. [i \in 1..n - 1 |-> t[i].wait] = [i \in 1..n - 1 |-> D[i + 1] - A[i]] BY <1>13
  <2> QED BY <1>7, <1>8, <1>9, <2>1
<1>20. r.elapsed = r.initialWait + r.duration
  <2> DEFINE a == A[n]
             d == D[1]
  <2>1. r.elapsed = a - minute /\ r.initialWait = d - minute /\ r.duration = a - d BY <1>7, <1>9
  <2>2. a \in Int /\ d \in Int BY <1>16
  <2> HIDE DEF a, d
  <2>3. a - minute = (d - minute) + (a - d) BY <2>2
  <2> QED BY <2>1, <2>3
<1>21. ASSUME NEW i \in 1..n - 1
       PROVE  /\ t[i].arrival = s[i].arrival /\ t[i].departure = s[i + 1].departure
              /\ t[i].station = s[i].to /\ s[i].to = s[i + 1].from
  <2>1. i \in 1..n /\ i + 1 \in 1..n BY <1>1
  <2> QED BY <1>12, <1>13, <1>14, <2>1
<1>22. r.km = Plus([i \in 1..n |-> s[i].km]) BY <1>9, <1>10
<1> QED BY <1>10, <1>12, <1>15, <1>17, <1>18, <1>19, <1>20, <1>21, <1>22 DEF SoundRoute, r, s, t, j

\* A page is made of journeys that the engine found.
LEMMA RepliesAreSound ==
  ASSUME NEW tt, Loaded(tt), NEW journeys, Len(journeys) \in Nat, DOMAIN journeys = 1..Len(journeys),
         \A i \in DOMAIN journeys : Rides(tt, journeys[i].legs) /\ journeys[i] = EngineJourney(tt, journeys[i].legs),
         NEW f, NEW limit \in Nat \ {0}, NEW minute \in Int,
         NEW answers, answers = Replies(tt, journeys, f, limit, minute)
  PROVE  /\ SoundPages(journeys, f, limit, answers)
         /\ \A p \in DOMAIN answers : \A k \in DOMAIN answers[p].routes : SoundRoute(answers[p].routes[k])
<1>1. SoundPages(journeys, f, limit, answers) BY PagesAreSound
<1>2. ASSUME NEW p \in DOMAIN answers, NEW k \in DOMAIN answers[p].routes PROVE SoundRoute(answers[p].routes[k])
  <2> DEFINE P == TotalPages(FilteredRoutes(journeys, f), limit)
             a == Answer(tt, journeys, f, p, limit, minute)
  <2>1. DOMAIN answers = 1..P + 1 BY DEF Replies
  <2>2. p \in Nat \ {0} BY <2>1
  <2>3. answers[p] = a BY <2>1 DEF Replies
  <2>4. AnswersPage(a, tt, journeys, f, p, limit, minute) BY <2>2, AnswerFacts
  <2> HIDE DEF a
  <2>5. PICK i \in 1..Len(journeys) : a.routes[k] = RenderJourney(tt, journeys[i], i, minute)
    BY <2>3, <2>4 DEF AnswersPage
  <2> DEFINE legs == journeys[i].legs
  <2>6. Rides(tt, legs) /\ journeys[i] = EngineJourney(tt, legs) OBVIOUS
  <2> HIDE DEF legs
  <2>7. SoundRoute(RenderJourney(tt, EngineJourney(tt, legs), i, minute)) BY <2>6, RouteIsSound
  <2> QED BY <2>3, <2>5, <2>6, <2>7
<1> QED BY <1>1, <1>2

-----------------------------------------------------------------------------
(* The programs. *)

\* A job is one of those given, and its program puts out what it computes.
JobDone ==
  /\ job.kind = "counts" =>
       output.counted = DeltasBy([i \in DOMAIN job.histories |-> Scraped(job.start, job.histories[i])])
  /\ job.kind = "capacity" => output = CapacityOf(job.steps)
  /\ job.kind = "timeline" => output.recovery = Recovery(job.p99bad, job.first)
  /\ job.kind = "rollout" =>
       output = IF Renders(job.inventory, job.env) THEN Render(job.inventory, job.env) ELSE [kind |-> "refused"]
  /\ job.kind = "reply" =>
       output.answers = Replies(job.trains, job.journeys, job.filters, job.limit, job.searchMinute)
Done ==
  /\ \E n \in DOMAIN Jobs : job \in Jobs[n]
  /\ IsDone => JobDone

LEMMA DoneInvariant == Spec => []Done
<1>1. Init => Done BY DEF Init, Done, IsDone
<1>2. Done /\ [Next]_vars => Done'
  <2> SUFFICES ASSUME Done, [Next]_vars PROVE Done' OBVIOUS
  <2>1. CASE UNCHANGED vars BY <2>1 DEF vars, Done, IsDone, JobDone
  <2>2. CASE Counting BY <2>2 DEF Counting, Doing, Done, JobDone
  <2>3. CASE Measuring BY <2>3 DEF Measuring, Doing, Done, JobDone
  <2>4. CASE TimelineOf BY <2>4 DEF TimelineOf, Doing, Done, JobDone
  <2>5. CASE UNCHANGED job /\ job.kind \notin {"counts", "capacity", "timeline", "rollout", "reply"}
    BY <2>5 DEF Done, JobDone
  <2>6. CASE Preprocessing BY <2>5, <2>6 DEF Preprocessing, Doing
  <2>7. CASE Geocoding BY <2>5, <2>7 DEF Geocoding, Doing
  <2>8. CASE Rendering BY <2>8 DEF Rendering, Doing, Done, JobDone
  <2>9. CASE Answering
    <3> DEFINE Page(p) == Answer(job.trains, job.journeys, job.filters, p, job.limit, job.searchMinute)
    <3>1. job.kind = "reply" /\ UNCHANGED job /\ output' = [answers |-> [p \in 1..Page(1).pages + 1 |-> Page(p)]]
      BY <2>9 DEF Answering, Doing
    <3>2. Page(1).pages = TotalPages(FilteredRoutes(job.journeys, job.filters), job.limit) BY DEF Answer
    <3>3. output'.answers = Replies(job.trains, job.journeys, job.filters, job.limit, job.searchMinute)
      BY <3>1, <3>2 DEF Replies
    <3> QED BY <3>1, <3>3 DEF Done, JobDone
  <2>10. CASE LookingUp BY <2>5, <2>10 DEF LookingUp, Doing
  <2>11. CASE PairingUp BY <2>5, <2>11 DEF PairingUp, Doing
  <2>12. CASE Planning BY <2>5, <2>12 DEF Planning, Doing
  <2> QED BY <2>1, <2>2, <2>3, <2>4, <2>6, <2>7, <2>8, <2>9, <2>10, <2>11, <2>12 DEF Next
<1> QED BY <1>1, <1>2, PTL DEF Spec

\* For counters of any processes, whenever they restart and whichever scrapes
\* fail, the increases that are counted are at most what happened, and exact if
\* nothing restarted (analyze.ts:64-74); for any ramp the capacity is a lower
\* bound that only grows until the SLO breaks; and a recovery is real.
THEOREM AnalysisIsSound == Spec => []AnalysisSound
<1>1. Done => AnalysisSound
  <2> SUFFICES ASSUME Done PROVE AnalysisSound OBVIOUS
  <2>1. PICK n \in DOMAIN Jobs : job \in Jobs[n] BY DEF Done
  <2>2. AnalysisInput(job) BY <2>1, JobsAssumption DEF JobsAssumption
  <2>3. ASSUME Finished("counts") PROVE SoundCounts(job.start, job.histories, output.counted)
    <3>1. /\ job.start \in Nat /\ job.histories \in Seq(Seq(Intervals) \ {<<>>})
          /\ output.counted = DeltasBy([i \in DOMAIN job.histories |-> Scraped(job.start, job.histories[i])])
      BY <2>2, <2>3 DEF AnalysisInput, Finished, Done, JobDone
    <3> QED BY <3>1, CountsAreSound
  <2>4. ASSUME Finished("capacity") PROVE SoundCapacity(job.steps, output)
    <3>1. job.steps \in Seq(Steps) /\ output = CapacityOf(job.steps)
      BY <2>2, <2>4 DEF AnalysisInput, Finished, Done, JobDone, Steps
    <3> QED BY <3>1, CapacityIsSound
  <2>5. ASSUME Finished("timeline") PROVE SoundTimeline(job.p99bad, job.first, output.recovery)
    <3>1. job.p99bad \in Seq(BOOLEAN) /\ job.first \in Nat \ {0}
          /\ output.recovery = Recovery(job.p99bad, job.first)
      BY <2>2, <2>5 DEF AnalysisInput, Finished, Done, JobDone
    <3> QED BY <3>1, RecoveryIsReal
  <2> QED BY <2>3, <2>4, <2>5 DEF AnalysisSound
<1> QED BY <1>1, DoneInvariant, PTL

\* For any inventory and any variant that is not refused, the plan can be
\* deployed: no two services of a host want a port, every address is served,
\* once, the workers are spread, and the default roles start in an order in
\* which the API finds its engines and Redis (render.ts:140-313).
THEOREM RolloutIsDeployable == Spec => []RolloutSound
<1>1. Done => RolloutSound
  <2> SUFFICES ASSUME Done, Finished("rollout"), output # [kind |-> "refused"]
               PROVE SoundRollout(job.inventory, job.env, output)
    BY DEF RolloutSound
  <2>1. PICK n \in DOMAIN Jobs : job \in Jobs[n] BY DEF Done
  <2>2. RolloutInput(job) BY <2>1, JobsAssumption DEF JobsAssumption
  <2>3. job.inventory \in Inventories /\ job.env.apiHosts \in Int
    BY <2>2 DEF RolloutInput, Finished, Inventories
  <2>4. Renders(job.inventory, job.env) /\ output = Render(job.inventory, job.env)
    BY DEF Done, JobDone, Finished
  <2> DEFINE inventory == job.inventory
             env == job.env
  <2>5. inventory \in Inventories /\ env.apiHosts \in Int /\ Renders(inventory, env) BY <2>3, <2>4
  <2> HIDE DEF inventory, env
  <2>6. SoundRollout(inventory, env, Render(inventory, env)) BY <2>5, RolloutOf
  <2> QED BY <2>4, <2>6 DEF inventory, env
<1> QED BY <1>1, DoneInvariant, PTL

\* Whatever the engine found, the filters and the page size: the pages of the
\* answer are the journeys that pass, each once and with its rank, and the figures of
\* each route agree (routeService.ts:59-62, journeyRenderer.ts:86-155).
THEOREM RepliesAreRight == Spec => []ReplySound
<1>1. Done => ReplySound
  <2> SUFFICES ASSUME Done, Finished("reply")
               PROVE  /\ SoundPages(job.journeys, job.filters, job.limit, output.answers)
                      /\ \A p \in DOMAIN output.answers : \A k \in DOMAIN output.answers[p].routes :
                           SoundRoute(output.answers[p].routes[k])
    BY DEF ReplySound
  <2>1. PICK n \in DOMAIN Jobs : job \in Jobs[n] BY DEF Done
  <2>2. ReplyInput(job) BY <2>1, JobsAssumption DEF JobsAssumption
  <2> DEFINE tt == job.trains
             journeys == job.journeys
             minute == job.searchMinute
             limit == job.limit
             f == job.filters
             answers == output.answers
  <2>3. /\ limit \in Nat \ {0} /\ minute \in Int /\ Loaded(tt)
        /\ DOMAIN journeys = 1..Len(journeys) /\ Len(journeys) \in Nat
        /\ \A i \in DOMAIN journeys :
             Rides(tt, journeys[i].legs) /\ journeys[i] = EngineJourney(tt, journeys[i].legs)
    BY <2>2 DEF ReplyInput, Finished
  <2>4. answers = Replies(tt, journeys, f, limit, minute) BY DEF Done, JobDone, Finished
  <2> HIDE DEF tt, journeys, minute, limit, f, answers
  <2>5. /\ SoundPages(journeys, f, limit, answers)
        /\ \A p \in DOMAIN answers : \A k \in DOMAIN answers[p].routes : SoundRoute(answers[p].routes[k])
    BY <2>3, <2>4, RepliesAreSound
  <2> QED BY <2>5 DEF journeys, f, limit, answers
<1> QED BY <1>1, DoneInvariant, PTL
=============================================================================
