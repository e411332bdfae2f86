----------------------------- MODULE JourneyList -----------------------------
(***************************************************************************)
(* How the frontend presents the journeys of an answer: the filters and    *)
(* orders of frontend/lib/filters.ts with their form in the URL, the       *)
(* highlights of components/SummaryStrip.tsx and the pages of              *)
(* app/page.tsx.  Pure operators; a journey is a record                    *)
(*   [id, rank, waits, duration, waiting, distance, trains]                *)
(* where waits are the minutes between its trains, in order.               *)
(***************************************************************************)
EXTENDS Integers, Sequences, SequencesExt

CONSTANTS
  Null,            \* JavaScript's null, and an absent URL parameter
  Trains           \* train numbers

JourneyRecords ==
  [id : Nat, rank : Nat, waits : Seq(Nat), duration : Nat, waiting : Nat, distance : Nat,
   trains : SUBSET Trains]

Transfers(j) == Len(j.waits)

FilterDefaults ==
  [directOnly |-> FALSE, maxTransfers |-> Null, minConnection |-> Null,
   maxLayover |-> Null, excludedTrains |-> {}]

(* The registered predicates: an inactive one lets every journey pass. *)
Passes(j, f) ==
  /\ f.directOnly => Transfers(j) = 0
  /\ f.maxTransfers # Null => Transfers(j) <= f.maxTransfers
  /\ f.minConnection # Null => \A i \in DOMAIN j.waits : j.waits[i] >= f.minConnection
  /\ f.maxLayover # Null => \A i \in DOMAIN j.waits : j.waits[i] <= f.maxLayover
  /\ j.trains \cap f.excludedTrains = {}

(* The journeys that pass; they are put in order before they are shown. *)
ApplyFilters(js, f) == {j \in ToSet(js) : Passes(j, f)}

SortKeys == {"arrival", "duration", "transfers", "waiting", "distance"}

Key(j, by) ==
  CASE by = "arrival"   -> j.rank
    [] by = "duration"  -> j.duration
    [] by = "transfers" -> Transfers(j)
    [] by = "waiting"   -> j.waiting
    [] by = "distance"  -> j.distance

Precedes(a, b, by) ==
  \/ Key(a, by) < Key(b, by)
  \/ Key(a, by) = Key(b, by) /\ a.rank < b.rank

InOrder(s, by) == \A i, k \in DOMAIN s : i < k => Precedes(s[i], s[k], by)

(* The set js as a sequence in order. *)
SortJourneys(js, by) == CHOOSE s \in [1..Cardinality(js) -> js] : InOrder(s, by)

(* minBy: the best journey of a non-empty set, the better rank on a tie. *)
Best(js, by) == CHOOSE j \in js : \A k \in js \ {j} : Precedes(j, k, by)

Highlights == {"arrival", "duration", "transfers", "waiting"}
HighlightBadges(js) ==
  [j \in js |-> {h \in Highlights : Best(js, h) = j}]

Ceiling(a, b) == (a + b - 1) \div b
Pages(js, size) == IF js = <<>> THEN 1 ELSE Ceiling(Len(js), size)
PageOf(js, page, size) ==
  LET last == page * size
  IN SubSeq(js, last - size + 1, IF last < Len(js) THEN last ELSE Len(js))

(***************************************************************************)
(* URL state, written beside the search parameters p.  A default is left   *)
(* out (Null), and a parameter that is not there, or means nothing, is the *)
(* default.                                                                *)
(***************************************************************************)
FiltersToParams(f, sort, p) ==
  [from |-> p.from, to |-> p.to, when |-> p.when,
   direct  |-> IF f.directOnly THEN "1" ELSE Null,
   maxtr   |-> f.maxTransfers,
   minconn |-> f.minConnection,
   maxwait |-> f.maxLayover,
   xtrain  |-> IF f.excludedTrains = {} THEN Null ELSE f.excludedTrains,
   sort    |-> IF sort = "arrival" THEN Null ELSE sort]

FiltersFromParams(p) ==
  [filters |-> [directOnly     |-> p.direct = "1",
                maxTransfers   |-> p.maxtr,
                minConnection  |-> p.minconn,
                maxLayover     |-> p.maxwait,
                excludedTrains |-> IF p.xtrain = Null THEN {} ELSE p.xtrain],
   sort    |-> IF p.sort \in SortKeys THEN p.sort ELSE "arrival"]
=============================================================================
