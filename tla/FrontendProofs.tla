--------------------------- MODULE FrontendProofs ---------------------------
(***************************************************************************)
(* The search page and its picker for any stations, texts, dates, answers, *)
(* links and page size.  Four parts: the list of journeys (lib/filters.ts, *)
(* the pages of app/page.tsx) as lemmas on its operators, the invariant of *)
(* the page, that of the picker of stations, and the theorems about both.  *)
(*                                                                         *)
(* page.tsx:54 takes every answer it gets; that this is right rests on     *)
(* there being one search under way at most, and that one the last.        *)
(***************************************************************************)
EXTENDS Frontend, TLAPS, FiniteSetTheorems, WellFoundedInduction

-----------------------------------------------------------------------------
(* The list. *)

\* Induction over the numbers, on the set of those a statement holds of.
LEMMA SetInduction ==
  ASSUME NEW T, T \subseteq Nat, 0 \in T, \A n \in T : n + 1 \in T
  PROVE  T = Nat
<1> DEFINE R == OpToRel(<, Nat)
<1>1. IsWellFoundedOn(R, Nat) BY NatLessThanWellFounded
<1>2. \A x, y \in Nat : <<x, y>> \in R <=> x < y BY DEF OpToRel
<1> HIDE DEF R
<1> SUFFICES ASSUME Nat \ T # {} PROVE FALSE OBVIOUS
<1>3. PICK x \in Nat \ T : \A y \in Nat \ T : ~(<<y, x>> \in R)
  BY <1>1, WFMin
<1>4. x # 0 /\ x - 1 \in Nat /\ x - 1 < x BY <1>3
<1>5. x - 1 \in T BY <1>2, <1>3, <1>4
<1>6. (x - 1) + 1 = x BY <1>3
<1> QED BY <1>3, <1>5, <1>6

\* A finite set with a total order R has a first element.
LEMMA FirstExists ==
  ASSUME NEW R, NEW U,
         \A a, b \in U : a # b => <<a, b>> \in R \/ <<b, a>> \in R,
         \A a, b, c \in U : <<a, b>> \in R /\ <<b, c>> \in R => <<a, c>> \in R,
         IsFiniteSet(U), U # {}
  PROVE  \E m \in U : \A k \in U \ {m} : <<m, k>> \in R
<1> DEFINE First(S) == \E m \in S : \A k \in S \ {m} : <<m, k>> \in R
           T == {n \in Nat : \A S \in SUBSET U : Cardinality(S) = n + 1 => First(S)}
<1>1. \A S \in SUBSET U : IsFiniteSet(S) /\ Cardinality(S) \in Nat
  BY FS_Subset, FS_CardinalityType
<1>2. 0 \in T
  <2> SUFFICES ASSUME NEW S \in SUBSET U, Cardinality(S) = 1 PROVE First(S)
    OBVIOUS
  <2>1. PICK x : S = {x} BY <1>1, FS_Singleton
  <2> QED BY <2>1
<1>3. ASSUME NEW n \in T PROVE n + 1 \in T
  <2> SUFFICES ASSUME NEW S \in SUBSET U, Cardinality(S) = (n + 1) + 1 PROVE First(S)
    OBVIOUS
  <2>1. PICK x \in S : TRUE BY <1>1, FS_EmptySet
  <2>2. Cardinality(S \ {x}) = n + 1 BY <1>1, <2>1, FS_RemoveElement
  <2>3. First(S \ {x})
    <3>1. S \ {x} \in SUBSET U OBVIOUS
    <3> QED BY <2>2, <3>1
  <2>4. PICK m \in S \ {x} : \A k \in (S \ {x}) \ {m} : <<m, k>> \in R BY <2>3
  <2>5. CASE <<m, x>> \in R BY <2>1, <2>4, <2>5
  <2>6. CASE <<x, m>> \in R
    <3>1. ASSUME NEW k \in S \ {x} PROVE <<x, k>> \in R
      <4>1. CASE k = m BY <2>6, <4>1
      <4>2. CASE k # m BY <2>1, <2>4, <2>6, <4>2
      <4> QED BY <4>1, <4>2
    <3> QED BY <2>1, <3>1
  <2> QED BY <2>1, <2>4, <2>5, <2>6
<1>4. T = Nat
  <2> HIDE DEF First
  <2>1. T \subseteq Nat OBVIOUS
  <2> HIDE DEF T
  <2> QED BY <1>2, <1>3, <2>1, SetInduction
<1>5. U \in SUBSET U /\ Cardinality(U) \in Nat /\ Cardinality(U) # 0 BY <1>1, FS_EmptySet
<1>6. Cardinality(U) - 1 \in T /\ (Cardinality(U) - 1) + 1 = Cardinality(U)
  <2> HIDE DEF T
  <2> QED BY <1>4, <1>5
<1>7. First(U) BY <1>5, <1>6
<1> QED BY <1>7

-----------------------------------------------------------------------------
\* What the answers of the API are: finite, with different ranks.
Ranked(S) == S \subseteq JourneyRecords /\ IsFiniteSet(S) /\ \A j, k \in S : j.rank = k.rank => j = k

\* What a journey is sorted by is a number.
LEMMA KeyType ==
  ASSUME NEW j \in JourneyRecords, NEW by \in SortKeys
  PROVE  Key(j, by) \in Nat /\ j.rank \in Nat
<1>1. Transfers(j) \in Nat BY DEF Transfers, JourneyRecords
<1> QED BY <1>1 DEF JourneyRecords, SortKeys, Key

\* The order of a list is a total one: different journeys have different ranks.
LEMMA PrecedesOrder ==
  ASSUME NEW S, Ranked(S), NEW by \in SortKeys
  PROVE  /\ \A a, b \in S : a # b => Precedes(a, b, by) \/ Precedes(b, a, by)
         /\ \A a, b, c \in S : Precedes(a, b, by) /\ Precedes(b, c, by) => Precedes(a, c, by)
         /\ \A a \in S : ~Precedes(a, a, by)
<1>1. \A j \in S : Key(j, by) \in Nat /\ j.rank \in Nat BY KeyType DEF Ranked
<1> QED BY <1>1 DEF Ranked, Precedes

\* The best journey is one of them.
LEMMA BestIsOne ==
  ASSUME NEW S, Ranked(S), S # {}, NEW by \in SortKeys
  PROVE  Best(S, by) \in S
<1> DEFINE R == {p \in S \X S : Precedes(p[1], p[2], by)}
<1>1. \A a, b \in S : <<a, b>> \in R <=> Precedes(a, b, by) OBVIOUS
<1> HIDE DEF R
<1>2. \E m \in S : \A k \in S \ {m} : <<m, k>> \in R
  <2>1. \A a, b \in S : a # b => <<a, b>> \in R \/ <<b, a>> \in R BY <1>1, PrecedesOrder
  <2>2. \A a, b, c \in S : <<a, b>> \in R /\ <<b, c>> \in R => <<a, c>> \in R BY <1>1, PrecedesOrder
  <2>3. IsFiniteSet(S) BY DEF Ranked
  <2> QED BY <2>1, <2>2, <2>3, FirstExists
<1>3. \E m \in S : \A k \in S \ {m} : Precedes(m, k, by) BY <1>1, <1>2
<1> QED BY <1>3 DEF Best

\* A last one exists as well: the first of the order read backwards.
LEMMA LastExists ==
  ASSUME NEW S, Ranked(S), S # {}, NEW by \in SortKeys
  PROVE  \E m \in S : \A k \in S \ {m} : Precedes(k, m, by)
<1> DEFINE R == {p \in S \X S : Precedes(p[2], p[1], by)}
<1>1. \A a, b \in S : <<a, b>> \in R <=> Precedes(b, a, by) OBVIOUS
<1> HIDE DEF R
<1>2. \E m \in S : \A k \in S \ {m} : <<m, k>> \in R
  <2>1. \A a, b \in S : a # b => <<a, b>> \in R \/ <<b, a>> \in R BY <1>1, PrecedesOrder
  <2>2. \A a, b, c \in S : <<a, b>> \in R /\ <<b, c>> \in R => <<a, c>> \in R BY <1>1, PrecedesOrder
  <2>3. IsFiniteSet(S) BY DEF Ranked
  <2> QED BY <2>1, <2>2, <2>3, FirstExists
<1> QED BY <1>1, <1>2

\* Any set of journeys can be put in order: by induction over its size, the last one
\* goes behind the others in order.
LEMMA OrderExists ==
  ASSUME NEW S, Ranked(S), NEW by \in SortKeys
  PROVE  \E s \in [1..Cardinality(S) -> S] : InOrder(s, by)
<1> DEFINE Ordered(X) == \E s \in [1..Cardinality(X) -> X] : InOrder(s, by)
           T == {n \in Nat : \A X \in SUBSET S : Cardinality(X) = n => Ordered(X)}
<1>1. \A X \in SUBSET S : IsFiniteSet(X) /\ Cardinality(X) \in Nat /\ Ranked(X)
  BY FS_Subset, FS_CardinalityType DEF Ranked
<1>2. 0 \in T
  <2> SUFFICES ASSUME NEW X \in SUBSET S, Cardinality(X) = 0 PROVE Ordered(X)
    OBVIOUS
  <2> DEFINE s == [i \in 1..0 |-> {}]
  <2>1. s \in [1..0 -> X] /\ InOrder(s, by) BY DEF InOrder
  <2> QED BY <2>1
<1>3. ASSUME NEW n \in T PROVE n + 1 \in T
  <2> SUFFICES ASSUME NEW X \in SUBSET S, Cardinality(X) = n + 1 PROVE Ordered(X)
    OBVIOUS
  <2>0. n \in Nat OBVIOUS
  <2>1. X # {} BY <1>1, <2>0, FS_EmptySet
  <2>2. PICK m \in X : \A k \in X \ {m} : Precedes(k, m, by) BY <1>1, <2>1, LastExists
  <2>3. Cardinality(X \ {m}) = n BY <1>1, <2>0, FS_RemoveElement
  <2>4. Ordered(X \ {m}) /\ X \ {m} \in SUBSET S
    <3>1. X \ {m} \in SUBSET S OBVIOUS
    <3> QED BY <2>3, <3>1
  <2>5. PICK s \in [1..n -> X \ {m}] : InOrder(s, by) BY <2>3, <2>4
  <2> DEFINE t == [i \in 1..(n + 1) |-> IF i <= n THEN s[i] ELSE m]
  <2>6. t \in [1..(n + 1) -> X] BY <2>0
  <2>7. InOrder(t, by)
    <3> SUFFICES ASSUME NEW i \in 1..(n + 1), NEW k \in 1..(n + 1), i < k PROVE Precedes(t[i], t[k], by)
      BY DEF InOrder
    <3>1. i \in 1..n /\ t[i] = s[i] BY <2>0
    <3>2. CASE k <= n
      <4>1. k \in 1..n /\ t[k] = s[k] BY <2>0, <3>2
      <4> QED BY <2>5, <3>1, <4>1 DEF InOrder
    <3>3. CASE ~(k <= n)
      <4>1. t[k] = m BY <3>3
      <4> QED BY <2>2, <2>5, <3>1, <4>1
    <3> QED BY <3>2, <3>3
  <2> QED BY <2>6, <2>7
<1>4. T = Nat
  <2> HIDE DEF Ordered
  <2>1. T \subseteq Nat OBVIOUS
  <2> HIDE DEF T
  <2> QED BY <1>2, <1>3, <2>1, SetInduction
<1>5. S \in SUBSET S /\ Cardinality(S) \in T BY <1>1, <1>4
<1>6. Ordered(S) BY <1>5
<1> QED BY <1>6

\* What SortJourneys returns: the journeys of the set, each at one place, in order.
LEMMA SortCorrect ==
  ASSUME NEW S, Ranked(S), NEW by \in SortKeys
  PROVE  LET s == SortJourneys(S, by)
         IN  /\ s \in Seq(S) /\ Len(s) = Cardinality(S)
             /\ InOrder(s, by)
             /\ ToSet(s) = S
<1> DEFINE s == SortJourneys(S, by)
<1>1. Cardinality(S) \in Nat BY FS_CardinalityType DEF Ranked
<1>2. s \in [1..Cardinality(S) -> S] /\ InOrder(s, by) BY OrderExists DEF SortJourneys
<1> HIDE DEF s
<1>3. s \in Seq(S) /\ Len(s) = Cardinality(S) /\ DOMAIN s = 1..Cardinality(S) BY <1>1, <1>2
<1>4. \A i, k \in 1..Cardinality(S) : s[i] = s[k] => i = k
  <2> SUFFICES ASSUME NEW i \in 1..Cardinality(S), NEW k \in 1..Cardinality(S), i < k
               PROVE  s[i] # s[k]
    BY <1>1
  <2>1. Precedes(s[i], s[k], by) BY <1>2 DEF InOrder
  <2> QED BY <1>2, <2>1, PrecedesOrder
<1>5. s \in Injection(1..Cardinality(S), S) BY <1>2, <1>4 DEF Injection, IsInjective
<1>6. IsFiniteSet(1..Cardinality(S)) /\ Cardinality(1..Cardinality(S)) = Cardinality(S)
  <2> DEFINE c == Cardinality(S)
  <2>1. 1 \in Int /\ c \in Int BY <1>1
  <2> HIDE DEF c
  <2>2. IsFiniteSet(1..c) /\ Cardinality(1..c) = IF 1 > c THEN 0 ELSE c - 1 + 1 BY <2>1, FS_Interval
  <2>3. c \in Nat BY <1>1 DEF c
  <2>4. IsFiniteSet(1..c) /\ Cardinality(1..c) = c BY <2>2, <2>3
  <2> QED BY <2>4 DEF c
<1>7. s \in Surjection(1..Cardinality(S), S) BY <1>5, <1>6, FS_Injection DEF Ranked
<1>8. ToSet(s) = S BY <1>2, <1>7 DEF Surjection, ToSet
<1> QED BY <1>2, <1>3, <1>8 DEF s

-----------------------------------------------------------------------------
\* The pages of a list.
LEMMA Multiples ==
  ASSUME NEW s \in Nat \ {0}, NEW a \in Nat
  PROVE  a \div s \in Nat /\ (a \div s) * s <= a /\ a < (a \div s) * s + s
OBVIOUS

\* A larger factor makes a larger product.
LEMMA Monotone ==
  ASSUME NEW s \in Nat \ {0}, NEW a \in Nat, NEW b \in Nat
  PROVE  (a <= b => a * s <= b * s) /\ (a * s < b * s => a < b) /\ (a + 1) * s = a * s + s
OBVIOUS

\* The assumption on the size of a page.
LEMMA PageSizeType == PageSize \in Nat \ {0}
BY FrontendAssumption

\* A list has at least one page.
LEMMA PagesType ==
  ASSUME NEW S, NEW l \in Seq(S)
  PROVE  Pages(l, PageSize) \in Nat \ {0}
<1>1. PageSize \in Nat \ {0} /\ Len(l) \in Nat BY PageSizeType
<1>2. CASE l = <<>> BY <1>2 DEF Pages
<1>3. CASE l # <<>>
  <2> DEFINE s == PageSize
             a == Len(l) + s - 1
  <2>1. s \in Nat \ {0} /\ a \in Nat /\ a >= s BY <1>1, <1>3
  <2> HIDE DEF s, a
  <2>2. a \div s \in Nat /\ a < (a \div s) * s + s BY <2>1, Multiples
  <2>3. a \div s # 0
    <3> SUFFICES ASSUME a \div s = 0 PROVE FALSE OBVIOUS
    <3> QED BY <2>1, <2>2
  <2> QED BY <1>3, <2>2, <2>3 DEF Pages, Ceiling, s, a
<1> QED BY <1>2, <1>3

\* A page there is has something on it, and only journeys of the list.
LEMMA PageIsThere ==
  ASSUME NEW S, NEW l \in Seq(S), l # <<>>, NEW p \in 1..Pages(l, PageSize)
  PROVE  LET on == PageOf(l, p, PageSize)
         IN  on # <<>> /\ \A i \in DOMAIN on : on[i] \in ToSet(l)
<1> DEFINE s == PageSize
           n == Len(l)
           q == Pages(l, PageSize)
<1>1. s \in Nat \ {0} /\ n \in Nat \ {0} BY PageSizeType
<1>2. q = (n + s - 1) \div s BY DEF Pages, Ceiling
<1>3. q \in Nat \ {0} /\ p \in 1..q BY PagesType
<1> HIDE DEF s, n, q
<1>4. q * s <= n + s - 1
  <2>1. n + s - 1 \in Nat BY <1>1
  <2> QED BY <1>1, <1>2, <2>1, Multiples
<1>5. p * s <= q * s /\ p * s \in Nat /\ p * s >= s
  <2>1. p \in Nat /\ q \in Nat /\ p <= q /\ 1 \in Nat /\ 1 <= p BY <1>3
  <2>2. p * s <= q * s BY <1>1, <2>1, Monotone
  <2>3. 1 * s <= p * s BY <1>1, <2>1, Monotone
  <2> QED BY <1>1, <2>1, <2>2, <2>3
<1> DEFINE last == p * s
           a == last - s + 1
           b == IF last < n THEN last ELSE n
<1>6. last \in Nat /\ last >= s /\ last <= n + s - 1
  <2>1. q * s \in Nat BY <1>1, <1>3
  <2> QED BY <1>1, <1>4, <1>5, <2>1
<1> HIDE DEF last
<1>7. a \in 1..n /\ b \in a..n BY <1>1, <1>6
<1> HIDE DEF a, b
<1>8. SubSeq(l, a, b) # <<>> /\ \A i \in DOMAIN SubSeq(l, a, b) : SubSeq(l, a, b)[i] \in ToSet(l)
  <2>1. a \in 1..Len(l) /\ b \in a..Len(l) BY <1>7 DEF n
  <2>2. /\ Len(SubSeq(l, a, b)) = b - a + 1 /\ DOMAIN SubSeq(l, a, b) = 1..(b - a + 1)
        /\ \A i \in 1..(b - a + 1) : SubSeq(l, a, b)[i] = l[a + i - 1]
    BY <2>1
  <2>3. \A i \in 1..(b - a + 1) : a + i - 1 \in DOMAIN l BY <2>1
  <2> QED BY <2>1, <2>2, <2>3 DEF ToSet
<1> QED BY <1>8 DEF PageOf, last, a, b, s, n

\* The page that the map opens for the journey at place i.
LEMMA PageOfPlace ==
  ASSUME NEW S, NEW l \in Seq(S), NEW i \in DOMAIN l
  PROVE  (i - 1) \div PageSize + 1 \in 1..Pages(l, PageSize)
<1> DEFINE s == PageSize
           n == Len(l)
           c == (i - 1) \div s
           q == (n + s - 1) \div s
<1>1. s \in Nat \ {0} /\ n \in Nat /\ i \in 1..n /\ i - 1 \in Nat /\ n + s - 1 \in Nat /\ l # <<>>
  BY PageSizeType
<1>2. c \in Nat /\ c * s <= i - 1 /\ q \in Nat /\ n + s - 1 < q * s + s
  BY <1>1, Multiples
<1>3. Pages(l, PageSize) = q BY <1>1 DEF Pages, Ceiling
<1> HIDE DEF s, n, c, q
<1>4. c < q
  <2>1. c * s \in Nat /\ q * s \in Nat BY <1>1, <1>2
  <2>2. c * s < q * s BY <1>1, <1>2, <2>1
  <2> QED BY <1>1, <1>2, <2>2, Monotone
<1> QED BY <1>2, <1>3, <1>4 DEF c, s

-----------------------------------------------------------------------------
\* The list on the page.  d is the answer of a search, if k is "done".
Answers(k, d) == k = "done" => \E s \in Searches : d.routes = JourneysOf[s]

\* The journeys that pass the filters are a part of an answer.
LEMMA FilteredRanked ==
  ASSUME NEW k, NEW d, NEW f, Answers(k, d)
  PROVE  Ranked(Filtered(k, d, f)) /\ (k # "done" => Filtered(k, d, f) = {})
<1>1. CASE k = "done"
  <2>1. PICK s \in Searches : d.routes = JourneysOf[s] BY <1>1 DEF Answers
  <2> DEFINE js == JourneysOf[s]
  <2>2. /\ js \in Seq(JourneyRecords)
        /\ \A i, j \in DOMAIN js : js[i].rank = js[j].rank => i = j
    BY FrontendAssumption
  <2> HIDE DEF js
  <2>3. ToSet(js) \subseteq JourneyRecords BY <2>2 DEF ToSet
  <2>4. IsFiniteSet(ToSet(js))
    <3>1. DOMAIN js = 1..Len(js) /\ Len(js) \in Nat BY <2>2
    <3>2. IsFiniteSet(1..Len(js))
      <4>1. 1 \in Int /\ Len(js) \in Int BY <3>1
      <4> QED BY <4>1, FS_Interval
    <3>3. js \in Surjection(1..Len(js), ToSet(js)) BY <2>2, <3>1 DEF Surjection, ToSet
    <3> QED BY <3>2, <3>3, FS_Surjection
  <2>5. \A x, y \in ToSet(js) : x.rank = y.rank => x = y BY <2>2 DEF ToSet
  <2>6. Filtered(k, d, f) \in SUBSET ToSet(js) BY <1>1, <2>1 DEF Filtered, ApplyFilters, js
  <2> QED BY <1>1, <2>3, <2>4, <2>5, <2>6, FS_Subset DEF Ranked
<1>2. CASE k # "done"
  <2>1. Filtered(k, d, f) = {} BY <1>2 DEF Filtered, ApplyFilters, ToSet
  <2> QED BY <2>1, FS_EmptySet DEF Ranked
<1> QED BY <1>1, <1>2

\* The list shows them all, in order.
LEMMA SortedList ==
  ASSUME NEW k, NEW d, NEW f, NEW o \in SortKeys, Answers(k, d)
  PROVE  LET l == Sorted(k, d, f, o)
         IN  /\ l \in Seq(JourneyRecords)
             /\ ToSet(l) = Filtered(k, d, f)
             /\ k # "done" => l = <<>>
<1> DEFINE S == Filtered(k, d, f)
           l == Sorted(k, d, f, o)
<1>1. Ranked(S) /\ (k # "done" => S = {}) BY FilteredRanked
<1>2. l \in Seq(S) /\ Len(l) = Cardinality(S) /\ ToSet(l) = S BY <1>1, SortCorrect DEF Sorted
<1> HIDE DEF S, l
<1>3. l \in Seq(JourneyRecords) BY <1>1, <1>2 DEF Ranked
<1>4. k # "done" => l = <<>> BY <1>1, <1>2, FS_EmptySet
<1> QED BY <1>2, <1>3, <1>4 DEF S, l

-----------------------------------------------------------------------------
\* The filters of the page, and how they come through the URL.
FilterShape(f) ==
  /\ f = [directOnly |-> f.directOnly, maxTransfers |-> f.maxTransfers, minConnection |-> f.minConnection,
          maxLayover |-> f.maxLayover, excludedTrains |-> f.excludedTrains]
  /\ f.directOnly \in BOOLEAN /\ f.excludedTrains \in SUBSET Trains

UrlShape(u) == u.when \in Whens \cup {Null} /\ u.xtrain \in {Null} \cup SUBSET Trains

\* null is no sort key, no "1" and no set of trains.
LEMMA NullIsNone ==
  Null \notin SortKeys /\ Null # "1" /\ \A ts \in SUBSET Trains : Null # ts
BY FrontendAssumption

\* What is written is read back.
LEMMA RoundTrip ==
  ASSUME NEW s, s = Null \/ s \in Searches, NEW f, FilterShape(f), NEW o \in SortKeys
  PROVE  LET u == UrlOf(s, f, o)
         IN  /\ UrlShape(u)
             /\ FiltersFromParams(u) = [filters |-> f, sort |-> o]
             /\ s # Null => [from |-> u.from, to |-> u.to, when |-> u.when] = s
<1> DEFINE u == UrlOf(s, f, o)
           r == FiltersFromParams(u)
<1>1. /\ s # Null => u.from = s.from /\ u.to = s.to /\ u.when = s.when
      /\ s = Null => u.when = Null
  BY DEF UrlOf, FiltersToParams, SearchParams
<1>2. /\ u.direct = IF f.directOnly THEN "1" ELSE Null
      /\ u.maxtr = f.maxTransfers /\ u.minconn = f.minConnection /\ u.maxwait = f.maxLayover
      /\ u.xtrain = IF f.excludedTrains = {} THEN Null ELSE f.excludedTrains
      /\ u.sort = IF o = "arrival" THEN Null ELSE o
  BY DEF UrlOf, FiltersToParams
<1> HIDE DEF u
<1>3. s # Null => /\ [from |-> u.from, to |-> u.to, when |-> u.when] = s
                  /\ u.when \in Whens
  BY <1>1 DEF Searches
<1>4. (u.direct = "1") = f.directOnly
  BY <1>2, NullIsNone DEF FilterShape
<1>5. (IF u.xtrain = Null THEN {} ELSE u.xtrain) = f.excludedTrains
  BY <1>2, NullIsNone DEF FilterShape
<1>6. (IF u.sort \in SortKeys THEN u.sort ELSE "arrival") = o
  BY <1>2, NullIsNone
<1>7. r = [filters |-> [directOnly |-> f.directOnly, maxTransfers |-> f.maxTransfers,
                        minConnection |-> f.minConnection, maxLayover |-> f.maxLayover,
                        excludedTrains |-> f.excludedTrains],
           sort |-> o]
  BY <1>2, <1>4, <1>5, <1>6 DEF FiltersFromParams
<1>8. r = [filters |-> f, sort |-> o] BY <1>7 DEF FilterShape
<1>9. UrlShape(u) BY <1>1, <1>2, <1>3 DEF UrlShape, FilterShape
<1> QED BY <1>3, <1>8, <1>9 DEF u

\* What is read from any URL is a state of the filters.
LEMMA ReadFilters ==
  ASSUME NEW u, UrlShape(u)
  PROVE  LET r == FiltersFromParams(u) IN FilterShape(r.filters) /\ r.sort \in SortKeys
<1> DEFINE r == FiltersFromParams(u)
           f == r.filters
           ts == IF u.xtrain = Null THEN {} ELSE u.xtrain
<1>1. /\ f = [directOnly |-> u.direct = "1", maxTransfers |-> u.maxtr, minConnection |-> u.minconn,
              maxLayover |-> u.maxwait, excludedTrains |-> ts]
      /\ r.sort = IF u.sort \in SortKeys THEN u.sort ELSE "arrival"
  BY DEF FiltersFromParams
<1>2. ts \in SUBSET Trains BY DEF UrlShape
<1> HIDE DEF r, ts
<1>3. FilterShape(f) BY <1>1, <1>2 DEF FilterShape
<1>4. r.sort \in SortKeys BY <1>1 DEF SortKeys
<1> QED BY <1>3, <1>4 DEF r

\* The filters a page starts with.
LEMMA DefaultShape == FilterShape(FilterDefaults)
BY DEF FilterShape, FilterDefaults

\* The filters after a control changed one of them.
LEMMA ChangedFilter ==
  ASSUME NEW f, FilterShape(f), NEW n, NEW ts \in SUBSET Trains
  PROVE  /\ FilterShape([f EXCEPT !.directOnly = ~f.directOnly])
         /\ FilterShape([f EXCEPT !.maxTransfers = n])
         /\ FilterShape([f EXCEPT !.minConnection = n])
         /\ FilterShape([f EXCEPT !.maxLayover = n])
         /\ FilterShape([f EXCEPT !.excludedTrains = ts])
<1>1. FilterShape([f EXCEPT !.directOnly = ~f.directOnly]) BY DEF FilterShape
<1>2. FilterShape([f EXCEPT !.maxTransfers = n]) BY DEF FilterShape
<1>3. FilterShape([f EXCEPT !.minConnection = n]) BY DEF FilterShape
<1>4. FilterShape([f EXCEPT !.maxLayover = n]) BY DEF FilterShape
<1>5. FilterShape([f EXCEPT !.excludedTrains = ts]) BY DEF FilterShape
<1> QED BY <1>1, <1>2, <1>3, <1>4, <1>5

-----------------------------------------------------------------------------
(* The invariant of the page. *)

Phases == {"blank", "restoring", "ready"}

\* The form, and the map that pins its stations.
FormInv ==
  /\ phase \in Phases
  /\ form \in [from : MaybeStation, to : MaybeStation, when : Whens]
  /\ draft = [from |-> form.from, to |-> form.to]
  /\ phase # "ready" => form.from = NoStation /\ form.to = NoStation

\* The search: before the page is ready there is none.
DataInv ==
  /\ kind \in {"idle", "loading", "error", "done"}
  /\ data.search \in Searches \cup {Null}
  /\ Answers(kind, data)
  /\ ShownIsLastSearch
  /\ lastSearch \in Searches \cup {Null}
  /\ calls # <<>> => calls = <<lastSearch>> /\ lastSearch \in Searches /\ kind = "loading"
  /\ phase # "ready" => kind = "idle" /\ lastSearch = Null /\ calls = <<>>

\* The list: page 1 is shown while there is none.
ListInv ==
  /\ FilterShape(filters) /\ sort \in SortKeys
  /\ page \in 1..Pages(List, PageSize)
  /\ SelectionListed
  /\ kind # "done" => page = 1

\* The URL says what the page shows.
UrlInv ==
  /\ UrlShape(url)
  /\ lastSearch # Null => url = UrlOf(lastSearch, filters, sort)

PageInv == FormInv /\ DataInv /\ ListInv /\ UrlInv

-----------------------------------------------------------------------------
\* A page that was not loaded yet.
LEMMA InitPage == PageInit => PageInv
<1> SUFFICES ASSUME PageInit PROVE PageInv OBVIOUS
<1>1. FormInv
  <2>1. Now \in Whens BY FrontendAssumption
  <2> QED BY <2>1 DEF PageInit, FormInv, Phases, MaybeStation
<1>2. DataInv
  <2>1. kind = "idle" /\ data = NoData /\ lastSearch = Null /\ calls = <<>> BY DEF PageInit
  <2>2. data.search = Null BY <2>1 DEF NoData
  <2>3. Answers(kind, data) BY <2>1 DEF Answers
  <2> QED BY <2>1, <2>2, <2>3 DEF DataInv, ShownIsLastSearch
<1>3. sort \in SortKeys /\ FilterShape(filters) BY DefaultShape DEF PageInit, SortKeys
<1>4. List = <<>> BY <1>2, <1>3, SortedList DEF PageInit, DataInv, List
<1>5. ListInv BY <1>3, <1>4 DEF PageInit, ListInv, SelectionListed, Pages
<1>6. UrlInv
  <2>1. UrlShape(url) BY FrontendAssumption DEF PageInit, UrlShape
  <2> QED BY <2>1 DEF PageInit, UrlInv
<1> QED BY <1>1, <1>2, <1>5, <1>6 DEF PageInv

\* The list after a step, and the selection the effect leaves in it.
LEMMA ListAfter ==
  ASSUME DataInv', sort' \in SortKeys
  PROVE  /\ List' \in Seq(JourneyRecords)
         /\ kind' # "done" => List' = <<>>
         /\ Pages(List', PageSize) \in Nat \ {0}
<1>1. Answers(kind', data') BY DEF DataInv
<1>2. List' = Sorted(kind', data', filters', sort') BY DEF List
<1> QED BY <1>1, <1>2, SortedList, PagesType

\* The effect on the selection leaves a listed journey selected, or none in an empty list.
LEMMA SelectionAfter ==
  ASSUME DataInv', sort' \in SortKeys, NEW pick, SelectionEffect(pick)
  PROVE  SelectionListed'
<1> DEFINE l == Sorted(kind', data', filters', sort')
<1>1. List' = l BY DEF List
<1>2. l \in Seq(JourneyRecords) BY <1>1, ListAfter
<1>3. selected' = IF pick \in Ids(l) THEN pick ELSE IF l = <<>> THEN Null ELSE l[1].id
  BY DEF SelectionEffect
<1> HIDE DEF l
<1>4. CASE l = <<>>
  <2>1. Ids(l) = {} BY <1>4 DEF Ids
  <2> QED BY <1>1, <1>3, <1>4, <2>1 DEF SelectionListed
<1>5. CASE l # <<>>
  <2>1. l[1].id \in Ids(l) BY <1>2, <1>5 DEF Ids
  <2> QED BY <1>1, <1>3, <1>5, <2>1 DEF SelectionListed
<1> QED BY <1>4, <1>5

\* What leaves the search, the list and the URL alone.
LEMMA UntouchedKeeps ==
  ASSUME PageInv, UNCHANGED <<callVars, listVars, url>>, FormInv',
         phase' # "ready" => phase # "ready"
  PROVE  PageInv'
<1>1. UNCHANGED <<kind, data, lastSearch, calls, filters, sort, page, selected, url>>
  BY DEF callVars, listVars
<1>2. DataInv' BY <1>1 DEF PageInv, DataInv, ShownIsLastSearch
<1>3. List' = List BY <1>1 DEF List
<1>4. ListInv' BY <1>1, <1>3 DEF PageInv, ListInv, SelectionListed
<1>5. UrlInv' BY <1>1 DEF PageInv, UrlInv
<1> QED BY <1>2, <1>4, <1>5 DEF PageInv

\* A search.
LEMMA RunKeeps ==
  ASSUME PageInv, NEW s \in Searches, NEW f, FilterShape(f), Run(s, f), UNCHANGED sort, calls = <<>>,
         phase' = "ready", form' \in [from : MaybeStation, to : MaybeStation, when : Whens],
         form'.from = s.from, form'.to = s.to
  PROVE  PageInv'
<1>1. /\ kind' = "loading" /\ data' = NoData /\ lastSearch' = s /\ filters' = f /\ page' = 1
      /\ selected' = Null /\ draft' = [from |-> s.from, to |-> s.to] /\ UrlEffect(TRUE)
      /\ sort \in SortKeys /\ sort' = sort /\ calls' = Append(calls, s)
  BY DEF Run, PageInv, ListInv
<1>2. FormInv' BY <1>1 DEF FormInv, Phases
<1>3. calls' = <<s>> BY <1>1
<1>4. DataInv' BY <1>1, <1>3 DEF DataInv, NoData, Answers, ShownIsLastSearch
<1>5. List' = <<>> BY <1>1, <1>4, ListAfter
<1>6. ListInv' BY <1>1, <1>5 DEF ListInv, SelectionListed, Pages
<1>7. url' = UrlOf(s, f, sort) BY <1>1 DEF UrlEffect
<1>8. UrlInv' BY <1>1, <1>7, RoundTrip DEF UrlInv
<1> QED BY <1>2, <1>4, <1>6, <1>8 DEF PageInv

\* A control of the list.
LEMMA ControlKeeps ==
  ASSUME PageInv, kind = "done", UNCHANGED <<phase, form, draft, callVars>>, ListEffects,
         FilterShape(filters'), sort' \in SortKeys
  PROVE  PageInv'
<1>1. UNCHANGED <<phase, form, draft, kind, data, lastSearch, calls>> BY DEF callVars
<1>2. page' = 1 /\ SelectionEffect(selected) /\ UrlEffect(TRUE) BY DEF ListEffects
<1>3. FormInv' BY <1>1 DEF PageInv, FormInv
<1>4. DataInv' BY <1>1 DEF PageInv, DataInv, ShownIsLastSearch
<1>5. SelectionListed' BY <1>2, <1>4, SelectionAfter
<1>6. Pages(List', PageSize) \in Nat \ {0} BY <1>4, ListAfter
<1>7. ListInv' BY <1>2, <1>5, <1>6 DEF ListInv
<1>8. url' = UrlOf(lastSearch, filters', sort') BY <1>1, <1>2 DEF UrlEffect
<1>9. UrlShape(url') BY <1>8, RoundTrip DEF PageInv, DataInv
<1>10. UrlInv' BY <1>1, <1>8, <1>9 DEF UrlInv
<1> QED BY <1>3, <1>4, <1>7, <1>10 DEF PageInv

\* The end of the search under way, with an answer or without.
LEMMA EndKeeps ==
  ASSUME PageInv, NEW i \in DOMAIN calls, Answered(i) \/ Failed(i)
  PROVE  PageInv'
<1>1. /\ UNCHANGED <<phase, form, draft, lastSearch, filters, sort, page>> /\ SelectionEffect(selected)
      /\ UrlEffect(kind' # kind)
  BY DEF Answered, Failed
<1>2. /\ calls = <<lastSearch>> /\ lastSearch \in Searches /\ kind = "loading" /\ phase = "ready"
  BY DEF PageInv, DataInv, FormInv
<1>3. i = 1 /\ calls[i] = lastSearch BY <1>2
<1>4. calls' = <<>>
  <2>1. calls' = RemoveAt(<<lastSearch>>, 1) BY <1>2, <1>3 DEF Answered, Failed
  <2>2. SubSeq(<<lastSearch>>, 1, 0) = <<>> /\ SubSeq(<<lastSearch>>, 2, 1) = <<>> OBVIOUS
  <2> QED BY <2>1, <2>2 DEF RemoveAt
<1>5. /\ kind' \in {"done", "error"} /\ data'.search \in Searches \cup {Null}
      /\ Answers(kind', data') /\ (kind' = "done" => data'.search = lastSearch)
  BY <1>2, <1>3 DEF Answered, Failed, Answers, NoData
<1>6. DataInv'
  <2>1. phase' = "ready" /\ lastSearch' \in Searches \cup {Null} BY <1>1, <1>2
  <2> QED BY <1>1, <1>4, <1>5, <2>1 DEF DataInv, ShownIsLastSearch
<1>7. FormInv' BY <1>1 DEF PageInv, FormInv
<1>8. sort' \in SortKeys /\ page' = 1 /\ FilterShape(filters') BY <1>1, <1>2 DEF PageInv, ListInv
<1>9. SelectionListed' BY <1>1, <1>6, <1>8, SelectionAfter
<1>10. Pages(List', PageSize) \in Nat \ {0} BY <1>6, <1>8, ListAfter
<1>11. ListInv' BY <1>8, <1>9, <1>10 DEF ListInv
<1>12. UrlInv'
  <2>1. kind' # kind BY <1>2, <1>5
  <2>2. url' = url \/ url' = UrlOf(lastSearch, filters, sort) BY <1>1 DEF UrlEffect
  <2>3. UrlShape(UrlOf(lastSearch, filters, sort)) BY RoundTrip DEF PageInv, DataInv, ListInv
  <2>4. UrlShape(url') /\ (lastSearch # Null => url' = UrlOf(lastSearch, filters, sort))
    BY <2>2, <2>3 DEF PageInv, UrlInv
  <2> QED BY <1>1, <2>4 DEF UrlInv
<1> QED BY <1>6, <1>7, <1>11, <1>12 DEF PageInv

\* Another page of the list, or another journey of it.
LEMMA BrowseKeeps ==
  ASSUME PageInv, UNCHANGED <<phase, form, draft, callVars, filters, sort, url>>,
         page' \in 1..Pages(List, PageSize), kind # "done" => page' = 1,
         selected' = selected \/ (List # <<>> /\ selected' \in Ids(List))
  PROVE  PageInv'
<1>1. UNCHANGED <<kind, data, lastSearch, calls>> BY DEF callVars
<1>2. FormInv' BY DEF PageInv, FormInv
<1>3. DataInv' BY <1>1 DEF PageInv, DataInv, ShownIsLastSearch
<1>4. List' = List BY <1>1 DEF List
<1>5. ListInv' BY <1>1, <1>4 DEF PageInv, ListInv, SelectionListed
<1>6. UrlInv' BY <1>1 DEF PageInv, UrlInv
<1> QED BY <1>2, <1>3, <1>5, <1>6 DEF PageInv

-----------------------------------------------------------------------------
\* The form.
LEMMA UpdateKeeps ==
  ASSUME PageInv, NEW v \in [from : MaybeStation, to : MaybeStation, when : Whens], Update(v)
  PROVE  PageInv'
<1>1. /\ phase = "ready" /\ phase' = phase /\ form' = v /\ UNCHANGED <<callVars, listVars, url>>
      /\ draft' = IF v.from # form.from \/ v.to # form.to THEN [from |-> v.from, to |-> v.to] ELSE draft
  BY DEF Update
<1>2. FormInv' BY <1>1 DEF PageInv, FormInv
<1> QED BY <1>1, <1>2, UntouchedKeeps

\* The fields of the form.
LEMMA FormSteps ==
  ASSUME PageInv, \/ \E s \in MaybeStation : PickFrom(s) \/ PickTo(s)
                  \/ \E w \in Whens : PickWhen(w)
                  \/ Swap
  PROVE  PageInv'
<1>1. form \in [from : MaybeStation, to : MaybeStation, when : Whens] BY DEF PageInv, FormInv
<1>2. ASSUME NEW s \in MaybeStation, PickFrom(s) \/ PickTo(s) PROVE PageInv'
  <2>1. /\ [form EXCEPT !.from = s] \in [from : MaybeStation, to : MaybeStation, when : Whens]
        /\ [form EXCEPT !.to = s] \in [from : MaybeStation, to : MaybeStation, when : Whens]
    BY <1>1
  <2> QED BY <1>2, <2>1, UpdateKeeps DEF PickFrom, PickTo
<1>3. ASSUME NEW w \in Whens, PickWhen(w) PROVE PageInv'
  <2>1. [form EXCEPT !.when = w] \in [from : MaybeStation, to : MaybeStation, when : Whens] BY <1>1
  <2> QED BY <1>3, <2>1, UpdateKeeps DEF PickWhen
<1>4. CASE Swap
  <2>1. [form EXCEPT !.from = form.to, !.to = form.from]
          \in [from : MaybeStation, to : MaybeStation, when : Whens]
    BY <1>1
  <2> QED BY <1>4, <2>1, UpdateKeeps DEF Swap
<1> QED BY <1>2, <1>3, <1>4

\* Loading, restoring, reloading; and the search of the form.
LEMMA LoadKeeps ==
  ASSUME PageInv, Load
  PROVE  PageInv'
<1> DEFINE r == FiltersFromParams(url)
<1>1. /\ phase = "blank" /\ filters' = r.filters /\ sort' = r.sort
      /\ form' = [form EXCEPT !.when = RestoredWhen] /\ phase' \in {"ready", "restoring"}
      /\ UNCHANGED <<draft, kind, data, lastSearch, calls, page, selected, url>>
  BY DEF Load, callVars
<1>2. FilterShape(r.filters) /\ r.sort \in SortKeys BY ReadFilters DEF PageInv, UrlInv
<1> HIDE DEF r
<1>3. RestoredWhen \in Whens
  <2>1. Now \in Whens BY FrontendAssumption
  <2> QED BY <2>1 DEF RestoredWhen, PageInv, UrlInv, UrlShape
<1>4. FormInv' BY <1>1, <1>3 DEF PageInv, FormInv, Phases
<1>5. DataInv' BY <1>1 DEF PageInv, DataInv, ShownIsLastSearch
<1>6. kind # "done" /\ lastSearch = Null BY <1>1 DEF PageInv, DataInv
<1>7. List = <<>>
  <2>1. Answers(kind, data) /\ sort \in SortKeys BY DEF PageInv, DataInv, ListInv
  <2> QED BY <1>6, <2>1, SortedList DEF List
<1>8. List' = <<>> BY <1>1, <1>2, <1>5, <1>6, ListAfter
<1>9. ListInv' BY <1>1, <1>2, <1>6, <1>7, <1>8 DEF PageInv, ListInv, SelectionListed, Pages
<1>10. UrlInv' BY <1>1, <1>6 DEF PageInv, UrlInv
<1> QED BY <1>4, <1>5, <1>9, <1>10 DEF PageInv

\* The stations of the link are known: both are searched for, or the form shows what is.
LEMMA RestoredKeeps ==
  ASSUME PageInv, StationsRestored
  PROVE  PageInv'
<1> DEFINE from == Resolve(url.from)
           to == Resolve(url.to)
           s == [from |-> from, to |-> to, when |-> form.when]
<1>1. /\ phase = "restoring" /\ phase' = "ready" /\ form' = [form EXCEPT !.from = from, !.to = to]
      /\ UNCHANGED sort
      /\ IF from # NoStation /\ to # NoStation
           THEN Run(s, filters)
           ELSE /\ draft' = [from |-> from, to |-> to]
                /\ UNCHANGED <<callVars, filters, page, selected, url>>
  BY DEF StationsRestored
<1>2. from \in MaybeStation /\ to \in MaybeStation BY DEF Resolve, MaybeStation
<1> HIDE DEF from, to
<1>3. form' \in [from : MaybeStation, to : MaybeStation, when : Whens] /\ form'.from = from /\ form'.to = to
      /\ form.when \in Whens
  BY <1>1, <1>2 DEF PageInv, FormInv
<1>4. CASE from # NoStation /\ to # NoStation
  <2>1. s \in Searches BY <1>2, <1>3, <1>4 DEF Searches, MaybeStation
  <2>2. s.from = from /\ s.to = to OBVIOUS
  <2>3. calls = <<>> /\ FilterShape(filters) BY <1>1 DEF PageInv, DataInv, ListInv
  <2>4. Run(s, filters) BY <1>1, <1>4
  <2> HIDE DEF s
  <2> QED BY <1>1, <1>3, <2>1, <2>2, <2>3, <2>4, RunKeeps
<1>5. CASE ~(from # NoStation /\ to # NoStation)
  <2>1. draft' = [from |-> from, to |-> to] /\ UNCHANGED <<callVars, listVars, url>>
    BY <1>1, <1>5 DEF listVars
  <2>2. FormInv' BY <1>1, <1>3, <2>1 DEF FormInv, Phases
  <2> QED BY <1>1, <2>1, <2>2, UntouchedKeeps
<1> QED BY <1>4, <1>5

\* A reload keeps the URL alone.
LEMMA ReloadKeeps ==
  ASSUME PageInv, Reload
  PROVE  PageInv'
<1>1. Now \in Whens BY FrontendAssumption
<1>2. FormInv' BY <1>1 DEF Reload, FormInv, Phases, MaybeStation
<1>3. kind' = "idle" /\ data' = NoData /\ lastSearch' = Null /\ calls' = <<>> /\ UNCHANGED url
      /\ filters' = FilterDefaults /\ sort' = "arrival" /\ page' = 1 /\ selected' = Null
  BY DEF Reload
<1>4. DataInv'
  <2>1. data'.search = Null BY <1>3 DEF NoData
  <2>2. Answers(kind', data') BY <1>3 DEF Answers
  <2> QED BY <1>3, <2>1, <2>2 DEF DataInv, ShownIsLastSearch
<1>5. sort' \in SortKeys /\ FilterShape(filters') BY <1>3, DefaultShape DEF SortKeys
<1>6. List' = <<>> BY <1>3, <1>4, <1>5, ListAfter
<1>7. ListInv' BY <1>3, <1>5, <1>6 DEF ListInv, SelectionListed, Pages
<1>8. UrlInv' BY <1>3 DEF PageInv, UrlInv
<1> QED BY <1>2, <1>4, <1>7, <1>8 DEF PageInv

\* The button searches when no search is under way.
LEMMA SubmitKeeps ==
  ASSUME PageInv, Submit
  PROVE  PageInv'
<1> DEFINE s == [from |-> form.from, to |-> form.to, when |-> form.when]
           f == [filters EXCEPT !.excludedTrains = {}]
<1>1. /\ phase = "ready" /\ kind # "loading" /\ form.from # NoStation /\ form.to # NoStation
      /\ UNCHANGED <<phase, form, sort>> /\ Run(s, f)
  BY DEF Submit, SubmitEnabled
<1>2. form \in [from : MaybeStation, to : MaybeStation, when : Whens] BY DEF PageInv, FormInv
<1>3. s \in Searches /\ s.from = form.from /\ s.to = form.to BY <1>1, <1>2 DEF Searches, MaybeStation
<1>4. {} \in SUBSET Trains OBVIOUS
<1>5. FilterShape(f) BY <1>4, ChangedFilter DEF PageInv, ListInv
<1>6. calls = <<>> BY <1>1 DEF PageInv, DataInv
<1> HIDE DEF s, f
<1> QED BY <1>1, <1>2, <1>3, <1>5, <1>6, RunKeeps

-----------------------------------------------------------------------------
\* The list and its controls.
LEMMA ListNow ==
  ASSUME PageInv
  PROVE  /\ List \in Seq(JourneyRecords) /\ (kind # "done" => List = <<>>)
         /\ \A i \in DOMAIN List : List[i].id \in Ids(List)
         /\ \A i \in DOMAIN Shown : Shown[i] \in ToSet(List)
<1>1. Answers(kind, data) /\ sort \in SortKeys /\ page \in 1..Pages(List, PageSize)
  BY DEF PageInv, DataInv, ListInv
<1>2. List \in Seq(JourneyRecords) /\ (kind # "done" => List = <<>>) BY <1>1, SortedList DEF List
<1>3. \A i \in DOMAIN Shown : Shown[i] \in ToSet(List)
  <2>1. CASE List = <<>>
    <3>1. Pages(List, PageSize) = 1 BY <2>1 DEF Pages
    <3>2. page = 1 BY <1>1, <3>1
    <3>3. Shown = SubSeq(<<>>, 1 * PageSize - PageSize + 1, IF 1 * PageSize < 0 THEN 1 * PageSize ELSE 0)
      BY <2>1, <3>2 DEF Shown, PageOf
    <3>4. 1 * PageSize - PageSize + 1 = 1 /\ ~(1 * PageSize < 0) BY PageSizeType
    <3>5. Shown = SubSeq(<<>>, 1, 0) BY <3>3, <3>4
    <3>6. SubSeq(<<>>, 1, 0) = <<>> OBVIOUS
    <3>7. DOMAIN Shown = {} BY <3>5, <3>6
    <3> QED BY <3>7
  <2>2. CASE List # <<>> BY <1>1, <1>2, <2>2, PageIsThere DEF Shown
  <2> QED BY <2>1, <2>2
<1>4. \A i \in DOMAIN List : List[i].id \in Ids(List) BY DEF Ids
<1> QED BY <1>2, <1>3, <1>4

\* Other filters.
LEMMA SetFiltersKeeps ==
  ASSUME PageInv, NEW f, FilterShape(f), SetFilters(f)
  PROVE  PageInv'
<1>1. kind = "done" /\ filters' = f /\ UNCHANGED <<phase, form, draft, callVars, sort>> /\ ListEffects
  BY DEF SetFilters
<1>2. sort' \in SortKeys BY <1>1 DEF PageInv, ListInv
<1> QED BY <1>1, <1>2, ControlKeeps

\* Every control of the filter bar gives filters the URL can hold.
LEMMA FilterBarKeeps ==
  ASSUME PageInv, UseFilterBar
  PROVE  PageInv'
<1>1. FilterShape(filters) BY DEF PageInv, ListInv
<1>2. filters.excludedTrains \in SUBSET Trains BY <1>1 DEF FilterShape
<1>3. \A n : /\ FilterShape([filters EXCEPT !.directOnly = ~filters.directOnly])
             /\ FilterShape([filters EXCEPT !.maxTransfers = n])
             /\ FilterShape([filters EXCEPT !.minConnection = n])
             /\ FilterShape([filters EXCEPT !.maxLayover = n])
             /\ FilterShape([filters EXCEPT !.excludedTrains = filters.excludedTrains \ {n}])
  <2> TAKE n
  <2>1. filters.excludedTrains \ {n} \in SUBSET Trains BY <1>2
  <2> QED BY <1>1, <2>1, ChangedFilter
<1>4. \E f : FilterShape(f) /\ SetFilters(f)
  BY <1>3, DefaultShape DEF UseFilterBar
<1> QED BY <1>4, SetFiltersKeeps

\* Every control of the list.
LEMMA UseListKeeps ==
  ASSUME PageInv, UseList
  PROVE  PageInv'
<1>1. CASE UseFilterBar BY <1>1, FilterBarKeeps
<1>2. ASSUME NEW i \in DOMAIN Shown, Select(Shown[i]) PROVE PageInv'
  <2>1. Shown[i] \in ToSet(List) BY <1>2, ListNow
  <2>2. Shown[i].id \in Ids(List) /\ List # <<>> BY <2>1 DEF ToSet, Ids
  <2>3. page \in 1..Pages(List, PageSize) /\ (kind # "done" => page = 1) BY DEF PageInv, ListInv
  <2>4. UNCHANGED <<phase, form, draft, callVars, filters, sort, url>> /\ page' = page /\ selected' = Shown[i].id
    BY <1>2 DEF Select
  <2> QED BY <2>2, <2>3, <2>4, BrowseKeeps
<1>3. ASSUME NEW i \in DOMAIN Shown, NEW t \in Shown[i].trains, ExcludeTrain(Shown[i], t) PROVE PageInv'
  <2>1. Shown[i] \in JourneyRecords BY ListNow DEF ToSet
  <2>2. t \in Trains BY <2>1 DEF JourneyRecords
  <2>3. FilterShape(filters) BY DEF PageInv, ListInv
  <2>4. filters.excludedTrains \cup {t} \in SUBSET Trains BY <2>2, <2>3 DEF FilterShape
  <2>5. FilterShape([filters EXCEPT !.excludedTrains = filters.excludedTrains \cup {t}])
    BY <2>3, <2>4, ChangedFilter
  <2>6. SetFilters([filters EXCEPT !.excludedTrains = filters.excludedTrains \cup {t}])
    BY <1>3 DEF ExcludeTrain
  <2> QED BY <2>5, <2>6, SetFiltersKeeps
<1>4. ASSUME NEW o \in Orders, SetSort(o) PROVE PageInv'
  <2>1. o \in SortKeys BY FrontendAssumption
  <2>2. /\ kind = "done" /\ sort' = o /\ UNCHANGED <<phase, form, draft, callVars, filters>> /\ ListEffects
    BY <1>4 DEF SetSort
  <2>3. FilterShape(filters') BY <2>2 DEF PageInv, ListInv
  <2> QED BY <2>1, <2>2, <2>3, ControlKeeps
<1>5. ASSUME NEW p \in 1..Pages(List, PageSize), GoTo(p) PROVE PageInv'
  <2>1. kind # "done" => Pages(List, PageSize) = 1 BY ListNow DEF Pages
  <2>2. UNCHANGED <<phase, form, draft, callVars, filters, sort, url>> /\ page' = p /\ selected' = selected
    BY <1>5 DEF GoTo
  <2>3. kind # "done" => p = 1 BY <1>5, <2>1
  <2> QED BY <2>2, <2>3, BrowseKeeps
<1>6. ASSUME NEW i \in DOMAIN List, Reveal(i) PROVE PageInv'
  <2>1. List \in Seq(JourneyRecords) /\ (kind # "done" => List = <<>>) /\ List[i].id \in Ids(List) BY <1>6, ListNow
  <2>2. List # <<>> /\ kind = "done" BY <1>6, <2>1
  <2>3. (i - 1) \div PageSize + 1 \in 1..Pages(List, PageSize) BY <2>1, PageOfPlace
  <2>4. /\ UNCHANGED <<phase, form, draft, callVars, filters, sort, url>>
        /\ page' = (i - 1) \div PageSize + 1 /\ selected' = List[i].id
    BY <1>6 DEF Reveal
  <2> QED BY <2>1, <2>2, <2>3, <2>4, BrowseKeeps
<1> QED BY <1>1, <1>2, <1>3, <1>4, <1>5, <1>6 DEF UseList

\* Every event of the page but the picking of the first station.
LEMMA PageStepsKeep ==
  ASSUME PageInv, OtherPageSteps
  PROVE  PageInv'
<1>1. ASSUME StationsFail PROVE PageInv'
  <2>1. phase' = "ready" /\ UNCHANGED <<form, draft, callVars, listVars, url>> BY <1>1 DEF StationsFail
  <2>2. FormInv' BY <2>1 DEF PageInv, FormInv, Phases
  <2> QED BY <2>1, <2>2, UntouchedKeeps
<1> QED BY <1>1, LoadKeeps, RestoredKeeps, ReloadKeeps, FormSteps, SubmitKeeps, EndKeeps, UseListKeeps
        DEF OtherPageSteps

-----------------------------------------------------------------------------
(* The picker. *)

PickerInv ==
  /\ text \in Texts /\ hits \in Seq(Stations) /\ open \in BOOLEAN /\ loading \in BOOLEAN
  /\ active \in Nat \ {0}
  /\ lookup \in [phase : {"none", "waiting", "asked"}, q : Texts]
  /\ hits # <<>> => active \in DOMAIN hits
  /\ form.from # NoStation => text = LabelOf[form.from]
  /\ lookup # From!NoLookup => open /\ lookup.q = text

\* The label of a station, and of none.
LEMMA LabelType ==
  ASSUME NEW v \in MaybeStation
  PROVE  From!Label(v) \in Texts /\ (v # NoStation => From!Label(v) = LabelOf[v])
<1>1. "" \in Texts /\ LabelOf \in [Stations -> Texts \ {""}] BY FrontendAssumption
<1> QED BY <1>1 DEF From!Label, MaybeStation

\* A lookup that is none.
LEMMA NoLookupType == From!NoLookup \in [phase : {"none", "waiting", "asked"}, q : Texts]
<1>1. "" \in Texts BY FrontendAssumption
<1> QED BY <1>1 DEF From!NoLookup

\* No suggestion.
LEMMA NoHits == <<>> \in Seq(Stations)
OBVIOUS

\* No lookup is the same in every state.
LEMMA NoLookupStays == From!NoLookup' = From!NoLookup
BY DEF From!NoLookup

\* The effects after an event: a text that is not the label of the value comes only
\* with another value.
LEMMA SettleKeeps ==
  ASSUME PickerInv, NEW v \in MaybeStation, NEW t \in Texts, NEW o \in BOOLEAN, NEW h \in {hits, <<>>},
         From!Settle(v, t, o, h), UNCHANGED <<active, loading>>,
         v = form.from /\ v # NoStation => t = LabelOf[v]
  PROVE  PickerInv'
<1> DEFINE shown == From!TextAfter(v, t)
           asks == shown # "" /\ shown # From!Label(v)
           changed == shown # text \/ o # open \/ v # form.from
<1>1. form'.from = v /\ text' = shown /\ open' = o BY DEF From!Settle
<1>2. hits' = h \/ hits' = <<>> BY DEF From!Settle
<1>3. \/ ~changed /\ lookup' = lookup
      \/ o /\ lookup' = [phase |-> "waiting", q |-> shown]
      \/ lookup' = From!NoLookup
  <2>1. lookup' = CASE ~changed  -> lookup
                    [] o /\ asks -> [phase |-> "waiting", q |-> shown]
                    [] OTHER     -> From!NoLookup
    BY Zenon DEF From!Settle
  <2> HIDE DEF shown, asks, changed
  <2>2. CASE ~changed BY <2>1, <2>2
  <2>3. CASE changed /\ o /\ asks BY <2>1, <2>3
  <2>4. CASE changed /\ ~(o /\ asks) BY <2>1, <2>4
  <2> QED BY <2>2, <2>3, <2>4
<1>4. shown \in Texts BY LabelType DEF From!TextAfter
<1>5. v # NoStation => shown = LabelOf[v] BY LabelType DEF From!TextAfter
<1> HIDE DEF shown, asks
<1>6. hits' \in Seq(Stations)
  <2>1. hits \in Seq(Stations) BY DEF PickerInv
  <2>2. hits' = hits \/ hits' = <<>> BY <1>2
  <2> QED BY <2>1, <2>2, NoHits
<1>7. hits' # <<>> => active' \in DOMAIN hits' BY <1>2 DEF PickerInv
<1>8. lookup' \in [phase : {"none", "waiting", "asked"}, q : Texts] /\ (lookup' # From!NoLookup => o /\ lookup'.q = shown)
  <2>1. CASE ~changed /\ lookup' = lookup BY <2>1 DEF PickerInv
  <2>2. CASE o /\ lookup' = [phase |-> "waiting", q |-> shown] BY <1>4, <2>2
  <2>3. CASE lookup' = From!NoLookup BY <2>3, NoLookupType
  <2> QED BY <1>3, <2>1, <2>2, <2>3
<1>9. /\ text' \in Texts /\ open' \in BOOLEAN /\ loading' \in BOOLEAN /\ active' \in Nat \ {0}
      /\ form'.from # NoStation => text' = LabelOf[form'.from]
  BY <1>1, <1>4, <1>5 DEF PickerInv
<1>10. lookup' # From!NoLookup' => open' /\ lookup'.q = text' BY <1>1, <1>8 DEF From!NoLookup
<1> QED BY <1>6, <1>7, <1>8, <1>9, <1>10 DEF PickerInv

\* A picker with no lookup under way.
LEMMA NoLookupKeeps ==
  ASSUME text' \in Texts, hits' \in Seq(Stations), open' \in BOOLEAN, loading' \in BOOLEAN, active' \in Nat \ {0},
         hits' # <<>> => active' \in DOMAIN hits', form'.from # NoStation => text' = LabelOf[form'.from],
         lookup' = From!NoLookup
  PROVE  PickerInv'
<1>1. lookup' \in [phase : {"none", "waiting", "asked"}, q : Texts] BY NoLookupType
<1>2. ~(lookup' # From!NoLookup') BY NoLookupStays
<1> QED BY <1>1, <1>2 DEF PickerInv

\* A picker that appears.
LEMMA MountKeeps ==
  ASSUME form'.from \in MaybeStation, From!Mount(form'.from)
  PROVE  PickerInv'
<1>1. /\ text' = From!Label(form'.from) /\ hits' = <<>> /\ open' = FALSE /\ active' = 1 /\ loading' = FALSE
      /\ lookup' = From!NoLookup
  BY DEF From!Mount
<1>2. text' \in Texts /\ (form'.from # NoStation => text' = LabelOf[form'.from]) BY <1>1, LabelType
<1>3. hits' \in Seq(Stations) /\ ~(hits' # <<>>) /\ active' \in Nat \ {0} BY <1>1, NoHits
<1> QED BY <1>1, <1>2, <1>3, NoLookupKeeps

\* What happens in the picker alone.
LEMMA QuietKeeps ==
  ASSUME PickerInv, form.from \in MaybeStation, From!Quiet
  PROVE  PickerInv'
<1>1. text \in Texts /\ (form.from # NoStation => text = LabelOf[form.from]) BY DEF PickerInv
<1>2. CASE From!Focus \/ From!Close
  <2>1. /\ UNCHANGED <<active, loading>>
        /\ \E o \in BOOLEAN : From!Settle(form.from, text, o, hits)
    BY <1>2 DEF From!Focus, From!Close
  <2> QED BY <1>1, <2>1, SettleKeeps
<1>3. CASE From!Ask
  <2>1. /\ lookup.phase = "waiting" /\ lookup' = [lookup EXCEPT !.phase = "asked"] /\ loading' = TRUE
        /\ UNCHANGED <<form.from, text, hits, open, active>>
    BY <1>3 DEF From!Ask
  <2>2. lookup # From!NoLookup
    <3>1. From!NoLookup.phase = "none" BY DEF From!NoLookup
    <3> QED BY <2>1, <3>1
  <2>3. lookup' \in [phase : {"none", "waiting", "asked"}, q : Texts] /\ lookup'.q = lookup.q
    BY <2>1 DEF PickerInv
  <2> QED BY <2>1, <2>2, <2>3, NoLookupStays DEF PickerInv
<1>4. CASE From!Answer
  <2>1. /\ hits' = Found[lookup.q] /\ active' = 1 /\ lookup' = From!NoLookup /\ loading' = FALSE
        /\ UNCHANGED <<form.from, text, open>>
    BY <1>4 DEF From!Answer
  <2>2. lookup.q \in Texts BY DEF PickerInv
  <2>3. hits' \in Seq(Stations)
    <3>1. Found \in [Texts -> Seq(Stations)] BY FrontendAssumption
    <3> QED BY <2>1, <2>2, <3>1
  <2>4. hits' # <<>> => active' \in DOMAIN hits' BY <2>1, <2>3
  <2>5. text' \in Texts /\ open' \in BOOLEAN /\ loading' \in BOOLEAN /\ active' \in Nat \ {0}
    <3>1. text \in Texts /\ open \in BOOLEAN BY DEF PickerInv
    <3>2. text' = text /\ open' = open BY <2>1
    <3>3. text' \in Texts /\ open' \in BOOLEAN BY <3>1, <3>2
    <3>4. active' \in Nat \ {0}
      <4>1. active' = 1 BY <2>1
      <4> QED BY <4>1
    <3>5. loading' \in BOOLEAN
      <4>1. loading' = FALSE BY <2>1
      <4> QED BY <4>1
    <3> QED BY <3>3, <3>4, <3>5
  <2>6. form'.from # NoStation => text' = LabelOf[form'.from] BY <1>1, <2>1
  <2> QED BY <2>1, <2>3, <2>4, <2>5, <2>6, NoLookupKeeps
<1>5. CASE From!LookupFails
  <2>1. /\ hits' = <<>> /\ lookup' = From!NoLookup /\ loading' = FALSE
        /\ UNCHANGED <<form.from, text, open, active>>
    BY <1>5 DEF From!LookupFails
  <2>2. hits' \in Seq(Stations) /\ ~(hits' # <<>>) BY <2>1, NoHits
  <2>3. text' \in Texts /\ open' \in BOOLEAN /\ loading' \in BOOLEAN /\ active' \in Nat \ {0}
    BY <2>1 DEF PickerInv
  <2>4. form'.from # NoStation => text' = LabelOf[form'.from] BY <1>1, <2>1
  <2> QED BY <2>1, <2>2, <2>3, <2>4, NoLookupKeeps
<1>6. ASSUME NEW i \in DOMAIN hits, From!Move(i) PROVE PickerInv'
  <2>1. active' = i /\ UNCHANGED <<form.from, text, hits, open, loading, lookup>> BY <1>6 DEF From!Move
  <2>2. active' \in Nat \ {0} BY <2>1 DEF PickerInv
  <2> QED BY <2>1, <2>2 DEF PickerInv
<1> QED BY <1>2, <1>3, <1>4, <1>5, <1>6 DEF From!Quiet

\* The whole page.
Inv == PageInv /\ PickerInv

\* The invariant holds before the page is loaded,
LEMMA InitInv == Init => Inv
<1> SUFFICES ASSUME Init PROVE Inv OBVIOUS
<1>1. PageInv BY InitPage DEF Init
<1>2. form.from = NoStation /\ From!Blank(NoStation) BY DEF Init, PageInit
<1>3. /\ text = From!Label(NoStation) /\ hits = <<>> /\ open = FALSE /\ active = 1 /\ loading = FALSE
      /\ lookup = From!NoLookup
  BY <1>2 DEF From!Blank
<1>4. text \in Texts BY <1>3, LabelType DEF MaybeStation
<1>5. PickerInv
  <2>1. hits \in Seq(Stations) /\ active \in Nat \ {0} BY <1>3, NoHits
  <2>2. lookup \in [phase : {"none", "waiting", "asked"}, q : Texts] BY <1>3, NoLookupType
  <2>3. open \in BOOLEAN /\ loading \in BOOLEAN /\ ~(lookup # From!NoLookup) BY <1>3
  <2>4. ~(form.from # NoStation) /\ ~(hits # <<>>) BY <1>2, <1>3
  <2> HIDE <1>3
  <2> QED BY <1>4, <2>1, <2>2, <2>3, <2>4 DEF PickerInv
<1> QED BY <1>1, <1>5 DEF Inv

\* and every event keeps it.
LEMMA NextInv == Inv /\ [Next]_vars => Inv'
<1> SUFFICES ASSUME Inv, [Next]_vars PROVE Inv' OBVIOUS
<1>1. PageInv /\ PickerInv /\ form \in [from : MaybeStation, to : MaybeStation, when : Whens]
  BY DEF Inv, PageInv, FormInv
<1>2. ASSUME UNCHANGED pageVars PROVE PageInv'
  <2>1. UNCHANGED <<callVars, listVars, url, phase, form, draft>> BY <1>2 DEF pageVars, callVars, listVars
  <2>2. FormInv' BY <1>1, <2>1 DEF PageInv, FormInv
  <2> QED BY <1>1, <2>1, <2>2, UntouchedKeeps
<1>3. CASE Alone BY <1>1, <1>2, <1>3, QuietKeeps DEF Alone, Inv
<1>4. CASE Typing
  <2>1. PICK t \in Texts : /\ IF form.from = NoStation THEN UNCHANGED pageVars ELSE PickFrom(NoStation)
                           /\ From!Type(t)
    BY <1>4 DEF Typing
  <2>2. PageInv' BY <1>1, <1>2, <2>1, FormSteps DEF MaybeStation
  <2>3. From!Settle(NoStation, t, TRUE, hits) /\ UNCHANGED <<active, loading>> BY <2>1 DEF From!Type
  <2>4. PickerInv' BY <1>1, <2>3, SettleKeeps DEF MaybeStation
  <2> QED BY <2>2, <2>4 DEF Inv
<1>5. CASE Choosing
  <2>1. PICK i \in DOMAIN hits : PickFrom(hits[i]) /\ From!Choose(i) BY <1>5 DEF Choosing
  <2>2. hits[i] \in Stations BY <1>1, <2>1 DEF PickerInv
  <2>3. PageInv' BY <1>1, <2>1, <2>2, FormSteps DEF MaybeStation
  <2>4. From!Settle(hits[i], LabelOf[hits[i]], FALSE, <<>>) /\ UNCHANGED <<active, loading>>
    BY <2>1 DEF From!Choose
  <2>5. LabelOf[hits[i]] \in Texts
    <3>1. LabelOf \in [Stations -> Texts \ {""}] BY FrontendAssumption
    <3> QED BY <2>2, <3>1
  <2>6. PickerInv' BY <1>1, <2>2, <2>4, <2>5, SettleKeeps DEF MaybeStation
  <2> QED BY <2>3, <2>6 DEF Inv
<1>6. CASE PageSteps
  <2>1. PageInv' BY <1>1, <1>6, PageStepsKeep DEF PageSteps
  <2>2. form'.from \in MaybeStation BY <2>1 DEF PageInv, FormInv
  <2>3. From!Outside(form'.from) \/ From!Mount(form'.from) BY <1>6 DEF PageSteps
  <2>4. CASE From!Outside(form'.from)
    <3>1. From!Settle(form'.from, text, open, hits) /\ UNCHANGED <<active, loading>> BY <2>4 DEF From!Outside
    <3>2. text \in Texts /\ open \in BOOLEAN BY <1>1 DEF PickerInv
    <3>3. form.from # NoStation => text = LabelOf[form.from] BY <1>1 DEF PickerInv
    <3>4. PickerInv' BY <1>1, <2>2, <3>1, <3>2, <3>3, SettleKeeps
    <3> QED BY <2>1, <3>4 DEF Inv
  <2>5. CASE From!Mount(form'.from) BY <2>1, <2>2, <2>5, MountKeeps DEF Inv
  <2> QED BY <2>3, <2>4, <2>5
<1>7. CASE UNCHANGED vars
  <2>1. UNCHANGED pageVars /\ UNCHANGED <<form, text, hits, open, active, loading, lookup>>
    BY <1>7 DEF vars, pageVars
  <2>2. PickerInv' BY <1>1, <2>1 DEF PickerInv, From!NoLookup
  <2> QED BY <1>2, <2>1, <2>2 DEF Inv
<1> QED BY <1>3, <1>4, <1>5, <1>6, <1>7 DEF Next

-----------------------------------------------------------------------------
\* The invariant of the whole page holds at all times.
LEMMA InvHolds == Spec => []Inv
BY InitInv, NextInv, PTL DEF Spec

\* page.tsx:54 takes every answer it gets.  The journeys shown are nevertheless those of
\* the last search, because there is one search under way at most, and that one the last
\* (the disabled button of SearchForm.tsx:106), after any use of the page, its links and
\* its picker.
THEOREM LastSearchShown == Spec => []ShownIsLastSearch
<1>1. Inv => ShownIsLastSearch BY DEF Inv, PageInv, DataInv
<1> QED BY <1>1, InvHolds, PTL

\* The effect of page.tsx:87 keeps the URL shareable, whatever was searched, filtered and
\* sorted in whatever order: reading the URL back gives the search, the filters and the
\* order of the page (filters.ts writes what it can read).
THEOREM UrlIsShareable == Spec => []UrlShareable
<1>1. Inv => UrlShareable
  <2> SUFFICES ASSUME Inv, phase = "ready", lastSearch # Null
               PROVE  /\ [from |-> url.from, to |-> url.to, when |-> url.when] = lastSearch
                      /\ FiltersFromParams(url) = [filters |-> filters, sort |-> sort]
    BY DEF UrlShareable
  <2>1. FilterShape(filters) /\ sort \in SortKeys /\ lastSearch \in Searches
    BY DEF Inv, PageInv, DataInv, ListInv
  <2>2. url = UrlOf(lastSearch, filters, sort) BY DEF Inv, PageInv, UrlInv
  <2> QED BY <2>1, <2>2, RoundTrip
<1> QED BY <1>1, InvHolds, PTL

\* After any events the page number names a page that is there (page.tsx resets it, or the
\* list did not change), the selected journey is listed, each badge of the summary strip is
\* on a listed journey, and the map pins the stations of the form.
THEOREM ViewIsConsistent == Spec => []ViewConsistent
<1>1. Inv => ViewConsistent
  <2> SUFFICES ASSUME Inv PROVE ViewConsistent OBVIOUS
  <2>1. PageInv /\ Answers(kind, data) /\ page \in 1..Pages(List, PageSize) /\ SelectionListed
    BY DEF Inv, PageInv, DataInv, ListInv
  <2>2. PageExists
    <3>1. List \in Seq(JourneyRecords) BY <2>1, ListNow
    <3>2. List # <<>> => Shown # <<>> BY <2>1, <3>1, PageIsThere DEF Shown
    <3> QED BY <2>1, <3>2 DEF PageExists
  <2>3. BadgesOnCards
    <3> DEFINE js == Filtered(kind, data, filters)
    <3>1. Ranked(js) BY <2>1, FilteredRanked
    <3> HIDE DEF js
    <3> SUFFICES ASSUME NEW h \in Highlights, js # {}
                 PROVE  \E j \in js : h \in HighlightBadges(js)[j]
      BY DEF BadgesOnCards, js
    <3>2. h \in SortKeys BY DEF Highlights, SortKeys
    <3>3. Best(js, h) \in js BY <3>1, <3>2, BestIsOne
    <3>4. h \in HighlightBadges(js)[Best(js, h)] BY <3>3 DEF HighlightBadges
    <3> QED BY <3>3, <3>4
  <2>4. PinsMatchForm BY <2>1 DEF PageInv, FormInv, PinsMatchForm
  <2> QED BY <2>1, <2>2, <2>3, <2>4 DEF ViewConsistent
<1> QED BY <1>1, InvHolds, PTL

\* In the picker of StationPicker.tsx Enter chooses a suggestion that exists, the text names
\* the station passed up, and an answer under way is for the text in the input, in any order
\* of keys, timers, answers and swaps.
THEOREM PickerIsSound == Spec => []PickerSound
<1>1. Inv => PickerSound BY DEF Inv, PickerInv, PickerSound, From!PickerSound, From!Listed, From!NoLookup
<1> QED BY <1>1, InvHolds, PTL

\* Every variable of the page and its picker keeps its type: in particular the page number
\* is positive and only complete searches are sent.
THEOREM FrontendTypes == Spec => []TypeOK
<1>1. Inv => TypeOK
  <2> SUFFICES ASSUME Inv PROVE TypeOK OBVIOUS
  <2>1. PageInv /\ PickerInv BY DEF Inv
  <2>2. PageTypeOK
    <3>1. phase \in {"blank", "restoring", "ready"} /\ form \in [from : MaybeStation, to : MaybeStation, when : Whens]
      BY <2>1 DEF PageInv, FormInv, Phases
    <3>2. draft \in [from : MaybeStation, to : MaybeStation]
      <4>1. draft = [from |-> form.from, to |-> form.to] BY <2>1 DEF PageInv, FormInv
      <4> QED BY <3>1, <4>1
    <3>3. /\ kind \in {"idle", "loading", "error", "done"}
          /\ data.search \in Searches \cup {Null} /\ lastSearch \in Searches \cup {Null}
      BY <2>1 DEF PageInv, DataInv
    <3>4. ToSet(calls) \subseteq Searches
      <4>1. CASE calls = <<>> BY <4>1 DEF ToSet
      <4>2. CASE calls # <<>>
        <5>1. calls = <<lastSearch>> /\ lastSearch \in Searches BY <2>1, <4>2 DEF PageInv, DataInv
        <5> QED BY <5>1 DEF ToSet
      <4> QED BY <4>1, <4>2
    <3>5. sort \in SortKeys /\ page \in Nat \ {0}
      <4>1. List \in Seq(JourneyRecords) BY <2>1, ListNow
      <4>2. Pages(List, PageSize) \in Nat \ {0} BY <4>1, PagesType
      <4>3. page \in 1..Pages(List, PageSize) /\ sort \in SortKeys BY <2>1 DEF PageInv, ListInv
      <4> QED BY <4>2, <4>3
    <3> QED BY <3>1, <3>2, <3>3, <3>4, <3>5 DEF PageTypeOK
  <2>3. From!TypeOK
    <3>1. form.from \in Stations \cup {NoStation} BY <2>1 DEF PageInv, FormInv, MaybeStation
    <3> QED BY <2>1, <3>1 DEF PickerInv, From!TypeOK
  <2> QED BY <2>2, <2>3 DEF TypeOK
<1> QED BY <1>1, InvHolds, PTL
=============================================================================
