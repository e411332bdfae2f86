----------------------------- MODULE MCFrontend -----------------------------
(***************************************************************************)
(* Two stations.  The way from A to B has three journeys: 1 is direct, 2   *)
(* changes once with an hour's wait and is the shortest, 3 uses the same   *)
(* first train as 2.  The way back has none.                               *)
(***************************************************************************)
EXTENDS Frontend

CONSTANTS A, B, X, Today, Later

Journey(id, waits, duration, trains) ==
  [id |-> id, rank |-> id, waits |-> waits, duration |-> duration,
   waiting |-> IF waits = <<>> THEN 0 ELSE waits[1], distance |-> duration, trains |-> trains]

ThereAndBack ==
  [s \in Searches |->
     IF s.from = A /\ s.to = B
       THEN <<Journey(1, <<>>, 300, {}), Journey(2, <<90>>, 200, {X}), Journey(3, <<30>>, 400, {X})>>
       ELSE <<>>]

NoFilters(search) == FiltersToParams(FilterDefaults, "arrival", search)
Link(from, to)    == [from |-> from, to |-> to, when |-> Today]

SomeUrls ==
  { NoFilters(SearchParams(Null)),
    NoFilters(Link(A, Unknown)),
    FiltersToParams([FilterDefaults EXCEPT !.directOnly = TRUE], "duration", Link(A, B)),
    [NoFilters(Link(A, B)) EXCEPT !.sort = "fastest"] }

TwoLabels == [s \in {A, B} |-> IF s = A THEN "A (A)" ELSE "B (B)"]
SomeTexts == {"", "p", "A (A)", "B (B)"}
Finds ==
  [t \in SomeTexts |-> CASE t = "p" -> <<A, B>>
                         [] t = "A (A)" -> <<A>>
                         [] t = "B (B)" -> <<B>>
                         [] OTHER -> <<>>]

TransfersOffered   == {Null, 0}
ConnectionsOffered == {Null}
LayoversOffered    == {Null, 60}
=============================================================================
