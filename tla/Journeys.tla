------------------------------- MODULE Journeys -------------------------------
(***************************************************************************)
(* The reference that the route search is checked against: what a journey  *)
(* is, how journeys rank and when one makes another pointless, as stated   *)
(* by router.h:3-7 and README.md:224-242 and 346-358, by enumeration and   *)
(* with no search.                                                         *)
(*                                                                         *)
(* A leg is [inst, board, alight]; a journey is a sequence of legs.        *)
(***************************************************************************)
EXTENDS Timetable, SequencesExt

CONSTANTS
  Source, Destination,
  QueryTime,       \* S: when the passenger is at the source
  Weekday,         \* weekday of the query date
  Horizon,         \* horizon_minutes
  TR,              \* min_transfer_minutes
  PruneStayOn, PruneBoardEarlier

ASSUME QueryAssumption ==
  /\ Source \in Stations /\ Destination \in Stations /\ Source # Destination
  /\ QueryTime \in 0..Day - 1
  /\ Horizon \in Nat /\ Weekday \in 0..6
  /\ TR \in Nat \ {0}
  /\ PruneStayOn \in BOOLEAN /\ PruneBoardEarlier \in BOOLEAN

Latest == QueryTime + Horizon      \* E: the arrival horizon
LastFirstDeparture == Day - 1      \* the first train leaves on the query date

From(tt, leg) == StationAt(tt[leg.inst[1]], leg.board)
To(tt, leg) == StationAt(tt[leg.inst[1]], leg.alight)
LegDep(tt, leg) == Dep(tt, leg.inst, leg.board)
LegArr(tt, leg) == Arr(tt, leg.inst, leg.alight)

Legs(tt) ==
  {[inst |-> i, board |-> b, alight |-> a] :
     i \in Instances(tt, Weekday, Horizon), b, a \in 1..MaxStops(tt)}
UsableLegs(tt) ==
  {l \in Legs(tt) :
     /\ l.board < l.alight /\ l.alight <= Len(tt[l.inst[1]].stops)
     /\ From(tt, l) # NoStation /\ To(tt, l) # NoStation
     /\ LegDep(tt, l) >= QueryTime /\ LegArr(tt, l) <= Latest}

\* The calls of a journey after its first boarding, as <<leg, stop>>, and no
\* station twice among them.
Calls(J) == UNION {{n} \X (J[n].board + 1..J[n].alight) : n \in DOMAIN J}
CalledAt(tt, J, x) == StationAt(tt[J[x[1]].inst[1]], x[2])
TouchesOnce(tt, J) ==
  \A x \in Calls(J) : CalledAt(tt, J, x) # NoStation =>
    /\ CalledAt(tt, J, x) # From(tt, J[1])
    /\ \A y \in Calls(J) : CalledAt(tt, J, y) = CalledAt(tt, J, x) => y = x

\* A journey as far as it goes: legs that meet, with time to change, no station
\* twice, no train twice.
Connected(tt, J) ==
  /\ From(tt, J[1]) = Source
  /\ LegDep(tt, J[1]) \in QueryTime..LastFirstDeparture
  /\ \A i \in 1..Len(J) - 1 :
       /\ From(tt, J[i + 1]) = To(tt, J[i])
       /\ LegDep(tt, J[i + 1]) >= LegArr(tt, J[i]) + TR
  /\ TouchesOnce(tt, J)
  /\ IsInjective([i \in DOMAIN J |-> J[i].inst[1]])

\* Journeys of at most mt transfers.
Valid(tt, mt, J) ==
  /\ J # <<>> /\ Len(J) <= mt + 1
  /\ \A i \in DOMAIN J : J[i] \in UsableLegs(tt)
  /\ Connected(tt, J)
  /\ To(tt, J[Len(J)]) = Destination

\* All valid journeys, built leg by leg.
AllJourneys(tt, mt) ==
  LET legs == UsableLegs(tt)
      Extended(js) == {J \in {Append(p, l) : p \in js, l \in legs} : Connected(tt, J)}
      Partial[n \in 1..mt + 1] ==
        IF n = 1 THEN Extended({<<>>}) ELSE Extended(Partial[n - 1])
  IN  {J \in UNION {Partial[n] : n \in DOMAIN Partial} : To(tt, J[Len(J)]) = Destination}

-----------------------------------------------------------------------------
Arrival(tt, J) == LegArr(tt, J[Len(J)])
Departure(tt, J) == LegDep(tt, J[1])
Waiting(tt, J) ==
  LET upTo[n \in 1..Len(J)] ==
        IF n = 1 THEN 0 ELSE upTo[n - 1] + (LegDep(tt, J[n]) - LegArr(tt, J[n - 1]))
  IN  upTo[Len(J)]
Rank(tt, J) == <<Arrival(tt, J), -Departure(tt, J), Len(J) - 1, Waiting(tt, J)>>
Signature(tt, J) == [i \in DOMAIN J |-> <<J[i].inst[1], From(tt, J[i]), To(tt, J[i])>>]

Before(a, b) ==
  \E i \in DOMAIN a : a[i] < b[i] /\ \A j \in 1..i - 1 : a[j] = b[j]

\* "J' arrives no later, departs no earlier, has fewer transfers"
Better(tt, K, J) ==
  /\ Arrival(tt, K) <= Arrival(tt, J)
  /\ Departure(tt, K) >= Departure(tt, J)
  /\ Len(K) < Len(J)

\* A journey with one leg in the place of its legs p to q.
Splice(J, p, q, leg) == SubSeq(J, 1, p - 1) \o <<leg>> \o SubSeq(J, q + 1, Len(J))

\* Stay-on: stay on the train of leg n to where leg m > n ends, if that is no
\* later.  Board-earlier: take the train of leg n from a stop at the source or
\* at the end of a leg before leg n - 1.
StayOns(tt, J) ==
  {Splice(J, y[1], y[2], [J[y[1]] EXCEPT !.alight = y[3]]) :
     y \in {x \in (1..Len(J)) \X (1..Len(J)) \X (1..MaxStops(tt)) :
        LET train == tt[J[x[1]].inst[1]] IN
        /\ x[1] < x[2] /\ x[3] > J[x[1]].alight /\ x[3] <= Len(train.stops)
        /\ StationAt(train, x[3]) = To(tt, J[x[2]])
        /\ Arr(tt, J[x[1]].inst, x[3]) <= LegArr(tt, J[x[2]])}}
BoardEarliers(tt, J) ==
  {Splice(J, y[1], y[2], [J[y[2]] EXCEPT !.board = y[3]]) :
     y \in {x \in (1..Len(J)) \X (1..Len(J)) \X (1..MaxStops(tt)) :
        /\ x[1] < x[2] /\ x[3] < J[x[2]].board
        /\ StationAt(tt[J[x[2]].inst[1]], x[3]) = From(tt, J[x[1]])}}
Pointless(tt, mt, J) ==
  \/ PruneStayOn /\ \E K \in StayOns(tt, J) : Valid(tt, mt, K) /\ Better(tt, K, J)
  \/ PruneBoardEarlier /\ \E K \in BoardEarliers(tt, J) : Valid(tt, mt, K) /\ Better(tt, K, J)

\* The journeys worth showing: of those that are not pointless, one of the best
\* of each signature.
Worthwhile(tt, mt) == {J \in AllJourneys(tt, mt) : ~Pointless(tt, mt, J)}
BestOfSignature(tt, worthwhile) ==
  {J \in worthwhile : \A K \in worthwhile :
     Signature(tt, K) = Signature(tt, J) => ~Before(Rank(tt, K), Rank(tt, J))}
=============================================================================
