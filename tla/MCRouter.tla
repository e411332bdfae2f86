------------------------------- MODULE MCRouter -------------------------------
(***************************************************************************)
(* Small timetables for Router.  Four stations: the source 1, the          *)
(* destination 4, and 2 and 3 between; 0 is a point with no station.  A    *)
(* day has ten minutes.                                                    *)
(***************************************************************************)
EXTENDS Router

Daily == 0..6
Train(days, stops) ==
  [days |-> days,
   stops |-> [k \in DOMAIN stops |-> [station |-> stops[k][1], arr |-> stops[k][2], dep |-> stops[k][3]]]]

Pool ==
  << Train(Daily, << <<1, -1, 3>>, <<2, 5, 6>>, <<4, 9, -1>> >>),
     Train(Daily, << <<1, -1, 4>>, <<3, 6, 6>>, <<2, 7, 8>>, <<4, 10, -1>> >>),
     Train(Daily, << <<2, -1, 7>>, <<4, 9, -1>> >>),
     Train(Daily, << <<2, -1, 7>>, <<3, 8, 9>>, <<4, 11, -1>> >>),
     Train(Daily, << <<3, -1, 7>>, <<2, 8, 8>>, <<4, 9, -1>> >>),
     Train(Daily, << <<1, -1, 3>>, <<2, 5, 5>>, <<3, 6, -1>> >>),
     Train(Daily, << <<1, -1, 3>>, <<0, 4, 4>>, <<3, 6, 7>>, <<4, 9, -1>> >>),
     Train(Daily, << <<2, -1, 6>>, <<3, 7, 8>>, <<1, 8, 9>>, <<4, 10, -1>> >>),   \* overnight
     Train(Daily, << <<1, -1, 4>>, <<2, 5, 6>>, <<3, 6, 6>>, <<4, 7, -1>> >>),
     Train({1},   << <<2, -1, 6>>, <<4, 8, -1>> >>),                     \* not on the query date
     Train(Daily, << <<2, -1, 6>>, <<3, 7, -1>> >>),
     Train(Daily, << <<3, -1, 8>>, <<4, 10, -1>> >>),
     Train(Daily, << <<1, -1, 5>>, <<3, 7, 8>>, <<4, 9, -1>> >>),
     Train(Daily, << <<1, -1, 2>>, <<2, 4, -1>> >>) >>

\* All timetables of four trains of the pool.
Quadruples ==
  {[n \in 1..4 |-> Pool[x[n]]] :
     x \in {y \in [1..4 -> DOMAIN Pool] : \A n \in 1..3 : y[n] < y[n + 1]}}

\* Everything; three journeys of one transfer at most and a label budget that
\* cuts some searches short; and the k_node cap.
AllOfThem == [k |-> 10, kNode |-> 0, maxLabels |-> 500, maxTransfers |-> 2]
ThreeKinds ==
  {AllOfThem,
   [k |-> 3, kNode |-> 0, maxLabels |-> 20, maxTransfers |-> 1],
   [k |-> 10, kNode |-> 1, maxLabels |-> 500, maxTransfers |-> 2]}
Unlimited == {AllOfThem}

\* A train that calls twice at station 3 before it reaches the destination, and
\* one that leaves station 2 for the destination.
LoopTimetable ==
  {<< Train(Daily, << <<1, -1, 2>>, <<2, 3, 3>>, <<3, 4, 4>>, <<5, 5, 5>>, <<3, 6, 6>>, <<4, 7, -1>> >>),
      Train(Daily, << <<2, -1, 7>>, <<4, 9, -1>> >>) >>}

\* A train that calls at station 3 and then at station 2, and two trains that
\* go on from there and reach the destination at the same minute after the same
\* wait.
TiedTimetable ==
  {<< Train(Daily, << <<1, -1, 2>>, <<3, 3, 3>>, <<2, 4, -1>> >>),
      Train(Daily, << <<3, -1, 5>>, <<4, 8, -1>> >>),
      Train(Daily, << <<2, -1, 6>>, <<4, 8, -1>> >>) >>}
=============================================================================
