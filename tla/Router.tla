-------------------------------- MODULE Router --------------------------------
(***************************************************************************)
(* One call of Router::route (routing-engine/src/router.cpp): the backward *)
(* profile scan, then the best-first enumeration of partial journeys.      *)
(*                                                                         *)
(* The timetable is any of Timetables and the query is fixed by the        *)
(* constants.  An action is one iteration of the scan or of the search     *)
(* loop.  The bloom filter and the epoch marks only speed up tests on the  *)
(* stations and trains of a partial journey; the tests themselves are      *)
(* modelled.                                                               *)
(***************************************************************************)
EXTENDS Journeys

CONSTANTS
  Timetables,      \* the timetables to search
  Limits           \* the combinations of the search's limits to look at

ASSUME RouterAssumption ==
  /\ \A tt \in Timetables :
       /\ tt \in Seq(TrainRecords) /\ tt # <<>> /\ Finalized(tt)
       /\ \A t \in 1..Len(tt) : Timed(tt[t])
  /\ Limits \subseteq
       [k : Nat \ {0}, kNode : Nat, maxLabels : Nat, maxTransfers : Nat]

VARIABLES
  tt,              \* the timetable
  limits,          \* the limits of this search
  conns,           \* the WeekPattern's connections for the query's weekday
  phase,           \* "scan", "search" or "done"
  todo,            \* connections not scanned yet
  val, tripBest, profile,
  labels,          \* every label pushed so far
  open,            \* the indices of those in the priority queue
  boardCount, alightCount,
  answer,          \* res.journeys
  truncated

given == <<tt, limits, conns>>
bounds == <<val, tripBest, profile>>
search == <<labels, open, boardCount, alightCount, answer, truncated>>
vars == <<given, phase, todo, bounds, search>>

K == limits.k                    \* how many journeys (limit and top_k)
KNode == limits.kNode            \* k_node (0 = off)
MaxLabels == limits.maxLabels    \* max_labels
MaxTransfers == limits.maxTransfers   \* max_transfers

-----------------------------------------------------------------------------
\* A bound: arrival, then transfers still to come, the latter in 8 bits.
Inf == 2147483647
TrMask == 255
LexInf == <<Inf, TrMask>>
\* horizon_minutes is at most 30 days (the constructor of Router clamps it).
ASSUME HorizonAssumption == Latest < Inf
PlusTransfer(b) == IF b = LexInf \/ b[2] = TrMask THEN b ELSE <<b[1], b[2] + 1>>
Lesser(a, b) == IF Before(b, a) THEN b ELSE a

\* profile_eval: the last entry that departs at t or later.  (Fault: later only.)
ProfileEvalStrict(p, t) ==
  LET later == {i \in DOMAIN p : p[i][1] > t}
  IN  IF later = {} THEN LexInf ELSE p[Max(later)][2]
ProfileEval(p, t) ==
  LET later == {i \in DOMAIN p : p[i][1] >= t}
  IN  IF later = {} THEN LexInf ELSE p[Max(later)][2]

StopsOf(insts) == UNION {{i} \X (1..Len(tt[i[1]].stops)) : i \in insts}

\* A label: the partial journey up to the label's stop (the code's chain of
\* parents), whether the last leg can be left ("atStation") or is being ridden,
\* whether it was just boarded, the stay-on ceiling, and the queue key
\* (arrival bound, -first departure, transfers bound, waiting).
Label(kind, legs, fresh, ceiling, key) ==
  [kind |-> kind, legs |-> legs, fresh |-> fresh, ceiling |-> ceiling, key |-> key]
Root == Label("root", <<>>, FALSE, Inf, <<0, -Inf, 0, 0>>)

Riding(l) == l.legs[Len(l.legs)]
StationOf(l) == IF l.kind = "root" THEN Source ELSE To(tt, Riding(l))
TimeOf(l) == IF l.kind = "root" THEN QueryTime ELSE LegArr(tt, Riding(l))
TransfersOf(l) == Len(l.legs) - 1
Wait(l) == l.key[4]
EventOf(l) == <<Riding(l).inst, Riding(l).alight>>

\* chain_has_station, and the trains of the chain.
ChainStations(l) ==
  {Source} \union UNION {StationsBetween(tt[leg.inst[1]], leg.board, leg.alight) : leg \in ToSet(l.legs)}
ChainTrains(l) == {leg.inst[1] : leg \in ToSet(l.legs)}

Init ==
  /\ tt \in Timetables
  /\ limits \in Limits
  /\ conns = Connections(tt, Weekday, Horizon)
  /\ phase = "scan"
  /\ todo = conns
  /\ LET insts == Instances(tt, Weekday, Horizon)
     IN  /\ val = [s \in StopsOf(insts) |-> LexInf]
         /\ tripBest = [i \in insts |-> LexInf]
         /\ boardCount = [s \in StopsOf(insts) |-> 0]
         /\ alightCount = [s \in StopsOf(insts) |-> 0]
  /\ profile = [s \in Stations |-> <<>>]
  /\ labels = <<>> /\ open = {}
  /\ answer = <<>> /\ truncated = FALSE

-----------------------------------------------------------------------------
\* The backward profile scan, one connection at a time.
NextConnection(c) == c \in todo /\ \A d \in todo \ {c} : ScannedBefore(tt, c, d)

\* What a passenger on board at the end of a connection can reach: stay seated,
\* alight at the destination, or change.
Reached(inst, to, arr) ==
  Lesser(tripBest[inst],
    CASE to = Destination -> <<arr, 0>>
      [] to \in Stations \ {Destination} -> PlusTransfer(ProfileEval(profile[to], arr + TR))
      [] OTHER -> LexInf)

ScanConnection(c) ==
  LET inst == c[1]
      k    == c[2]
      arr  == Arr(tt, inst, k + 1)
      from == StationAt(tt[inst[1]], k)
      best == Reached(inst, StationAt(tt[inst[1]], k + 1), arr)
      p    == profile[from]
  IN  /\ phase = "scan"
      /\ NextConnection(c)
      /\ Dep(tt, inst, k) >= QueryTime
      /\ todo' = todo \ {c}
      /\ IF arr > Latest THEN UNCHANGED bounds
         ELSE /\ val' = [val EXCEPT ![<<inst, k + 1>>] = best]
              /\ tripBest' = [tripBest EXCEPT ![inst] = best]
              /\ profile' =
                   IF /\ best # LexInf /\ from # NoStation
                      /\ p = <<>> \/ Before(best, p[Len(p)][2])
                   THEN [profile EXCEPT ![from] = Append(@, <<Dep(tt, inst, k), best>>)]
                   ELSE profile
      /\ UNCHANGED <<given, phase, search>>

StartSearch ==
  /\ phase = "scan"
  /\ \A c \in todo : Dep(tt, c[1], c[2]) < QueryTime
  /\ phase' = "search"
  /\ labels' = <<Root>> /\ open' = {1}
  /\ UNCHANGED <<given, todo, bounds, boardCount, alightCount, answer, truncated>>

-----------------------------------------------------------------------------
\* The search loop.  Each iteration takes the label of the least key, ties in
\* the order in which labels were pushed.
Top(i) ==
  /\ phase = "search" /\ open # {} /\ Len(labels) < MaxLabels
  /\ i \in open
  /\ \A j \in open \ {i} : Before(Append(labels[i].key, i), Append(labels[j].key, j))

Push(i, new) ==
  /\ labels' = labels \o new
  /\ open' = (open \ {i}) \union (Len(labels) + 1..Len(labels) + Len(new))
  /\ UNCHANGED <<given, phase, todo, bounds, answer, truncated>>

Capped(count, event) == KNode > 0 /\ count[event] >= KNode
Counted(count, event) == IF KNode > 0 THEN [count EXCEPT ![event] = @ + 1] ELSE count

Stop ==
  /\ phase = "search" /\ (open = {} \/ Len(labels) >= MaxLabels)
  /\ phase' = "done"
  /\ truncated' = (open # {})
  /\ UNCHANGED <<given, todo, bounds, labels, open, boardCount, alightCount, answer>>

BoardEvent(l) == <<Riding(l).inst, Riding(l).board>>
PruneByCap(i) ==
  LET l == labels[i]
  IN  /\ Top(i)
      /\ \/ l.kind = "onboard" /\ l.fresh /\ Capped(boardCount, BoardEvent(l))
         \/ l.kind = "atStation" /\ StationOf(l) # Destination /\ Capped(alightCount, EventOf(l))
      /\ Push(i, <<>>)
      /\ UNCHANGED <<boardCount, alightCount>>

-----------------------------------------------------------------------------
\* boards_train_late: leg n rides a train that the passenger could have taken
\* where leg m starts, from its stop b, without touching a station twice.
BoardsTrainLate(J) ==
  \E n \in 2..Len(J) : \E m \in 1..n - 1 : \E b \in 1..J[n].board - 1 :
    LET dep == Dep(tt, J[n].inst, b)
    IN  /\ StationAt(tt[J[n].inst[1]], b) = From(tt, J[m])
        /\ IF m = 1 THEN dep \in LegDep(tt, J[1])..LastFirstDeparture
                    ELSE dep >= LegArr(tt, J[m - 1]) + TR
        /\ TouchesOnce(tt, Splice(J, m, n, [J[n] EXCEPT !.board = b]))

\* leaves_train_early: the train of leg n goes on to where leg m ends, no later
\* than leg m, without touching a station twice.  Only its first call there is
\* considered.
LeavesTrainEarly(J) ==
  \E n \in 1..Len(J) : \E m \in n + 1..Len(J) :
    LET train == tt[J[n].inst[1]]
        calls == {z \in J[n].alight + 1..Len(train.stops) : StationAt(train, z) = To(tt, J[m])}
    IN  /\ calls # {}
        /\ Arr(tt, J[n].inst, Min(calls)) <= LegArr(tt, J[m])
        /\ TouchesOnce(tt, Splice(J, n, m, [J[n] EXCEPT !.alight = Min(calls)]))

Dominated(J) ==
  \/ PruneBoardEarlier /\ BoardsTrainLate(J)
  \/ PruneStayOn /\ LeavesTrainEarly(J)

\* The itinerary is in the answer already.  (Fault: only the last one is looked at.)
SeenOnlyWhenLast(J) == answer # <<>> /\ Signature(tt, answer[Len(answer)]) = Signature(tt, J)
Seen(J) == \E i \in DOMAIN answer : Signature(tt, answer[i]) = Signature(tt, J)

\* A completed journey is dropped or becomes the next one of the answer.
Complete(i) ==
  LET J == labels[i].legs
  IN  /\ Top(i)
      /\ labels[i].kind = "atStation" /\ StationOf(labels[i]) = Destination
      /\ answer' = IF Dominated(J) \/ Seen(J) THEN answer ELSE Append(answer, J)
      /\ phase' = IF Len(answer') >= K THEN "done" ELSE phase
      /\ open' = open \ {i}
      /\ UNCHANGED <<given, todo, bounds, labels, boardCount, alightCount, truncated>>

-----------------------------------------------------------------------------
\* The stay-on rule: if the train goes on to the destination and touches no
\* station of the chain before, what alights here must arrive earlier than it.
\* (Fault: the chain is not looked at.)
CeilingAnyway(l) ==
  LET leg   == Riding(l)
      train == tt[leg.inst[1]]
      ends  == {m \in leg.alight + 1..Len(train.stops) : StationAt(train, m) = Destination}
  IN  IF ~PruneStayOn \/ ends = {} THEN l.ceiling
      ELSE Min({l.ceiling, Arr(tt, leg.inst, Min(ends))})
Ceiling(l) ==
  LET leg   == Riding(l)
      train == tt[leg.inst[1]]
      stops == leg.alight + 1..Len(train.stops)
      ends  == {m \in stops : StationAt(train, m) = Destination}
      met   == {m \in stops : StationAt(train, m) \in ChainStations(l)}
  IN  IF \/ ~PruneStayOn \/ ends = {}
         \/ \E m \in met : m < Min(ends)
      THEN l.ceiling
      ELSE Min({l.ceiling, Arr(tt, leg.inst, Min(ends))})

\* The transfer cap.
MayChange(l) == TransfersOf(l) < MaxTransfers

\* Alight where an onboard label stands.
Alighted(l) ==
  LET st    == StationOf(l)
      final == st = Destination
      on    == ProfileEval(profile[st], TimeOf(l) + TR)
      bound == IF final THEN <<TimeOf(l), 0>> ELSE <<on[1], on[2] + 1>>
      top   == IF final THEN l.ceiling ELSE Ceiling(l)
  IN  IF /\ st # NoStation
         /\ final \/ MayChange(l)
         /\ bound[1] < top /\ bound[1] <= Latest
      THEN <<Label("atStation", l.legs, FALSE, top,
                   <<bound[1], l.key[2], TransfersOf(l) + bound[2], Wait(l)>>)>>
      ELSE <<>>

\* Ride on to the next stop.
Ridden(l) ==
  LET leg == Riding(l)
      k   == leg.alight + 1
      v   == val[<<leg.inst, k>>]
  IN  IF /\ StationOf(l) # Destination /\ k <= Len(tt[leg.inst[1]].stops)
         /\ v[1] <= Latest /\ v[1] < l.ceiling
         /\ StationAt(tt[leg.inst[1]], k) \notin ChainStations(l)
      THEN <<Label("onboard", [l.legs EXCEPT ![Len(l.legs)].alight = k], FALSE, l.ceiling,
                   <<v[1], l.key[2], TransfersOf(l) + v[2], Wait(l)>>)>>
      ELSE <<>>

Ride(i) ==
  LET l == labels[i]
  IN  /\ Top(i)
      /\ l.kind = "onboard"
      /\ ~(l.fresh /\ Capped(boardCount, BoardEvent(l)))
      /\ boardCount' = IF l.fresh THEN Counted(boardCount, BoardEvent(l)) ELSE boardCount
      /\ Push(i, Alighted(l) \o Ridden(l))
      /\ UNCHANGED alightCount

\* The departures that a root or at-station label may board, in the order of
\* the departure index.
Boardable(l) ==
  LET lo == IF l.kind = "root" THEN QueryTime ELSE TimeOf(l) + TR
      hi == IF l.kind = "root" THEN Min({LastFirstDeparture, Latest}) ELSE Latest
  IN  {c \in DeparturesIn(tt, conns, StationOf(l), lo, hi) :
         /\ c[1][1] \notin ChainTrains(l)
         /\ val[<<c[1], c[2] + 1>>][1] <= Latest
         /\ val[<<c[1], c[2] + 1>>][1] < l.ceiling
         /\ StationAt(tt[c[1][1]], c[2] + 1) \notin ChainStations(l)}
\* A label that has just boarded.  (Fault: the wait and the first departure are
\* not carried on.)
BoardedWaitless(l, c) ==
  LET dep == Dep(tt, c[1], c[2])
      v   == val[<<c[1], c[2] + 1>>]
  IN  Label("onboard", Append(l.legs, [inst |-> c[1], board |-> c[2], alight |-> c[2] + 1]), TRUE, l.ceiling,
            <<v[1], -dep, Len(l.legs) + v[2], Wait(l)>>)
Boarded(l, c) ==
  LET dep == Dep(tt, c[1], c[2])
      v   == val[<<c[1], c[2] + 1>>]
  IN  Label("onboard", Append(l.legs, [inst |-> c[1], board |-> c[2], alight |-> c[2] + 1]), TRUE, l.ceiling,
            IF l.kind = "root" THEN <<v[1], -dep, v[2], 0>>
            ELSE <<v[1], l.key[2], Len(l.legs) + v[2], Wait(l) + (dep - TimeOf(l))>>)

Board(i) ==
  LET l == labels[i]
      cs == Boardable(l)
      nth(n) == CHOOSE c \in cs : Cardinality({d \in cs : ListedBefore(tt, d, c)}) = n - 1
  IN  /\ Top(i)
      /\ \/ l.kind = "root" /\ UNCHANGED alightCount
         \/ /\ l.kind = "atStation" /\ StationOf(l) # Destination
            /\ ~Capped(alightCount, EventOf(l))
            /\ alightCount' = Counted(alightCount, EventOf(l))
      /\ Push(i, [n \in 1..Cardinality(cs) |-> Boarded(l, nth(n))])
      /\ UNCHANGED boardCount

-----------------------------------------------------------------------------
Next ==
  \/ \E c \in todo : ScanConnection(c)
  \/ StartSearch
  \/ Stop
  \/ \E i \in open : PruneByCap(i) \/ Complete(i) \/ Ride(i) \/ Board(i)

Spec == Init /\ [][Next]_vars

-----------------------------------------------------------------------------
\* The bounds of the profile scan never exceed what a journey really does: on
\* board at any stop of any leg of any valid journey, the journey's arrival and
\* remaining transfers are no better than val ("Bound is admissible").
BoundAdmissible ==
  phase = "search" /\ Len(labels) = 1 =>
    \A J \in AllJourneys(tt, MaxTransfers) : \A n \in DOMAIN J : \A k \in J[n].board + 1..J[n].alight :
      ~Before(<<Arrival(tt, J), Len(J) - n>>, val[<<J[n].inst, k>>])

\* The search is a best-first enumeration (BestFirst): it never puts in the
\* place of a partial journey one with a smaller key, and the key under which a
\* journey is completed is its rank ("Bound is consistent, and keys are
\* monotone", "Completions are popped in exact rank order").
Enumeration == INSTANCE BestFirst WITH
                 frontier <- IF phase = "scan" THEN {Root.key} ELSE {labels[i].key : i \in open},
                 emitted <- [i \in DOMAIN answer |-> Rank(tt, answer[i])]
EnumerationPromise == Enumeration!Spec

\* What is returned, also when the label budget ends the search early: journeys
\* worth showing, each the best of its itinerary, and with AnswerOrdered below
\* a prefix of the ranking: none is left out that ranks before the last one
\* ("It truncates the output list and never reorders it").
AnswerIsPrefix ==
  phase = "done" /\ KNode = 0 =>
    LET worth == Worthwhile(tt, MaxTransfers)
        best  == BestOfSignature(tt, worth)
    IN  /\ \A i \in DOMAIN answer : answer[i] \in best
        /\ answer # <<>> =>
             \A J \in best : Seen(J) \/ ~Before(Rank(tt, J), Rank(tt, answer[Len(answer)]))

\* A search that is not cut short leaves nothing out while there is room: it
\* returns K journeys or one of every itinerary worth showing.
AnswerComplete ==
  phase = "done" /\ KNode = 0 /\ ~truncated /\ Len(answer) < K =>
    \A J \in Worthwhile(tt, MaxTransfers) : Seen(J)

\* Whatever the limits, every answer is a journey: legs that meet, with time to
\* change, to the destination within the horizon, no station and no train twice,
\* and no more transfers than allowed (router.h:3-6).
AnswerValid == \A i \in DOMAIN answer : answer[i] \in AllJourneys(tt, MaxTransfers)

\* They come in rank order, and no itinerary comes twice.
AnswerInOrder ==
  \A i, j \in DOMAIN answer : i < j =>
    /\ ~Before(Rank(tt, answer[j]), Rank(tt, answer[i]))
    /\ Signature(tt, answer[i]) # Signature(tt, answer[j])

\* With the k_node cap the list may miss journeys, but what it returns still
\* exists, is worth showing and is in rank order.
AnswerOrdered ==
  /\ phase = "done" => \A i \in DOMAIN answer : answer[i] \in Worthwhile(tt, MaxTransfers)
  /\ AnswerInOrder

\* The answer in each case: complete up to where it stops (AnswerIsPrefix), and
\* with the cap at least valid and in order.
AnswerSound == AnswerIsPrefix /\ AnswerOrdered

\* README.md:348 "These rules only remove a journey J when a strictly better
\* valid journey J' is guaranteed to exist".
DominanceSound ==
  phase = "done" /\ ~truncated /\ Len(answer) < K =>
    LET all == AllJourneys(tt, MaxTransfers)
    IN  \A J \in all : Seen(J) \/ \E better \in all : Better(tt, better, J)
=============================================================================
