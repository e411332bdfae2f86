-------------------------------- MODULE Reply --------------------------------
(***************************************************************************)
(* From the engine's compact journeys to the answer of POST /api/routes:   *)
(* filters (services/filters.ts), pages and ranks (services/routeService), *)
(* the rendering of a page (services/journeyRenderer.ts); and the station  *)
(* lookup of GET /api/stations (services/stationService.ts).  Pure         *)
(* operators.                                                              *)
(*                                                                         *)
(* A leg is [train, board, alight, startDay]; a compact journey is         *)
(* [legs, dep, arr, travel, waiting].                                      *)
(***************************************************************************)
EXTENDS Timetable, SequencesExt

CONSTANTS
  Unset,           \* a filter that is not given
  MaxScan          \* 400: keys of one index that a lookup reads

(* A total, added up one by one. *)
Plus(s) ==
  LET Sum[n \in 0..Len(s)] == IF n = 0 THEN 0 ELSE Sum[n - 1] + s[n]
  IN Sum[Len(s)]

-----------------------------------------------------------------------------
(* journeyRenderer.ts. *)

LegFits(tt, leg) ==
  leg.train \in DOMAIN tt /\ leg.board < leg.alight /\ leg.alight <= Len(tt[leg.train].stops)

RenderedStop(tt, leg, k) ==
  LET s == tt[leg.train].stops[k]
      base == leg.startDay * Day
  IN [station |-> s.station, boardable |-> s.station # NoStation,
      arrival |-> IF k = leg.board \/ s.arr = NoTime THEN Unset ELSE base + s.arr,
      departure |-> IF k = leg.alight \/ s.dep = NoTime THEN Unset ELSE base + s.dep,
      km |-> s.dist - tt[leg.train].stops[leg.board].dist]

Segment(tt, leg) ==
  LET b == tt[leg.train].stops[leg.board]
      a == tt[leg.train].stops[leg.alight]
      base == leg.startDay * Day
  IN [train |-> leg.train, from |-> b.station, to |-> a.station,
      departure |-> base + b.dep, arrival |-> base + a.arr, duration |-> a.arr - b.dep,
      km |-> a.dist - b.dist,
      stops |-> [n \in 1..leg.alight - leg.board + 1 |-> RenderedStop(tt, leg, leg.board + n - 1)]]

\* Fault: the connection is taken to leave on the start date of the train before.
TransferSameDay(tt, leg, next) ==
  LET arr == leg.startDay * Day + tt[leg.train].stops[leg.alight].arr
      dep == leg.startDay * Day + tt[next.train].stops[next.board].dep
  IN [station |-> tt[leg.train].stops[leg.alight].station, arrival |-> arr, departure |-> dep, wait |-> dep - arr]

Transfer(tt, leg, next) ==
  LET arr == leg.startDay * Day + tt[leg.train].stops[leg.alight].arr
      dep == next.startDay * Day + tt[next.train].stops[next.board].dep
  IN [station |-> tt[leg.train].stops[leg.alight].station, arrival |-> arr, departure |-> dep, wait |-> dep - arr]

RenderJourney(tt, j, rank, searchMinute) ==
  LET segments == [i \in DOMAIN j.legs |-> Segment(tt, j.legs[i])]
  IN [rank |-> rank, departure |-> j.dep, arrival |-> j.arr, duration |-> j.arr - j.dep,
      elapsed |-> j.arr - searchMinute, initialWait |-> j.dep - searchMinute,
      travel |-> j.travel, waiting |-> j.waiting, transferCount |-> Len(j.legs) - 1,
      segments |-> segments,
      transfers |-> [i \in 1..Len(j.legs) - 1 |-> Transfer(tt, j.legs[i], j.legs[i + 1])],
      km |-> Plus([i \in DOMAIN segments |-> segments[i].km])]

-----------------------------------------------------------------------------
(* filters.ts and routeService.ts. *)

PassesFilters(j, f) ==
  /\ f.maxDuration # Unset => j.arr - j.dep <= f.maxDuration
  /\ f.maxTransfers # Unset => Len(j.legs) - 1 <= f.maxTransfers
  /\ f.directOnly => Len(j.legs) = 1

(* The ranks of the journeys that pass. *)
Passing(journeys, f) ==
  LET Kept[n \in 0..Len(journeys)] ==
        IF n = 0 THEN <<>> ELSE IF PassesFilters(journeys[n], f) THEN Append(Kept[n - 1], n) ELSE Kept[n - 1]
  IN Kept[Len(journeys)]

FilteredRoutes(journeys, f) ==
  LET ranks == Passing(journeys, f)
  IN [k \in DOMAIN ranks |-> [j |-> journeys[ranks[k]], rank |-> ranks[k]]]

TotalPages(filtered, limit) == Max({1, (Len(filtered) + limit - 1) \div limit})

Slice(filtered, page, limit) ==
  SubSeq(filtered, (page - 1) * limit + 1, Min({Len(filtered), page * limit}))

Answer(tt, journeys, f, page, limit, searchMinute) ==
  LET filtered == FilteredRoutes(journeys, f)
      slice == Slice(filtered, page, limit)
  IN [routes |-> [k \in DOMAIN slice |-> RenderJourney(tt, slice[k].j, slice[k].rank, searchMinute)],
      message |-> CASE filtered # <<>> -> "none"
                    [] journeys = <<>> -> "no route"
                    [] OTHER           -> "all filtered out",
      available |-> Len(filtered), unfiltered |-> Len(journeys), pages |-> TotalPages(filtered, limit)]

(* What the engine sends for a journey of these legs. *)
EngineJourney(tt, legs) ==
  LET Dp(l) == l.startDay * Day + tt[l.train].stops[l.board].dep
      Ar(l) == l.startDay * Day + tt[l.train].stops[l.alight].arr
      first == legs[1]
      final == legs[Len(legs)]
      travel == Plus([i \in DOMAIN legs |-> Ar(legs[i]) - Dp(legs[i])])
  IN [legs |-> legs, dep |-> Dp(first), arr |-> Ar(final), travel |-> travel,
      waiting |-> Ar(final) - Dp(first) - travel]

-----------------------------------------------------------------------------
(* stationService.ts: codes and names are sequences of letters. *)

Less(a, b) ==
  \/ \E i \in 1..Min({Len(a), Len(b)}) : a[i] < b[i] /\ \A j \in 1..i - 1 : a[j] = b[j]
  \/ Len(a) < Len(b) /\ IsPrefix(a, b)

Index(pairs) == SortSeq(SetToSeq(pairs), LAMBDA x, y : Less(x[1], y[1]))
CodeIndex(stations) == Index({<<s.code, s>> : s \in stations})
NameIndex(stations) == Index(UNION {{<<n, s>> : n \in s.names} : s \in stations})

\* Fault: the bisection goes on past a key that equals the query.
UpperBound(index, q) ==
  LET B[lo \in 1..Len(index) + 1, hi \in 1..Len(index) + 1] ==
        IF lo >= hi THEN lo
        ELSE LET mid == (lo + hi) \div 2
             IN IF ~Less(q, index[mid][1]) THEN B[mid + 1, hi] ELSE B[lo, mid]
  IN B[1, Len(index) + 1]

(* The first position whose key is not before the query, by bisection. *)
LowerBound(index, q) ==
  LET B[lo \in 1..Len(index) + 1, hi \in 1..Len(index) + 1] ==
        IF lo >= hi THEN lo
        ELSE LET mid == (lo + hi) \div 2
             IN IF Less(index[mid][1], q) THEN B[mid + 1, hi] ELSE B[lo, mid]
  IN B[1, Len(index) + 1]

Scan(index, q) ==
  LET from == LowerBound(index, q)
  IN {index[i][2] : i \in {k \in from..Min({Len(index), from + MaxScan - 1}) :
                             \A j \in from..k : IsPrefix(q, index[j][1])}}

(* The best tier of a station: its code, a prefix of its code, a prefix of a name. *)
Tier(stations, q, s) ==
  IF s.code = q THEN 0 ELSE IF s \in Scan(CodeIndex(stations), q) THEN 1 ELSE 2

RanksBefore(tierA, a, tierB, b) ==
  \/ tierA < tierB
  \/ tierA = tierB /\ a.trains > b.trains
  \/ tierA = tierB /\ a.trains = b.trains /\ Less(a.code, b.code)

SearchStations(stations, q, limit) ==
  LET scored == {s \in stations : s.code = q}
                  \cup Scan(CodeIndex(stations), q) \cup Scan(NameIndex(stations), q)
      ranked == SetToSortSeq(scored, LAMBDA a, b :
                  RanksBefore(Tier(stations, q, a), a, Tier(stations, q, b), b))
  IN IF q = <<>> THEN <<>> ELSE SubSeq(ranked, 1, Min({Len(ranked), limit}))

-----------------------------------------------------------------------------
(* A timetable that the engine accepts, with all its arrivals. *)
CallRecords == [station : Stations \cup {NoStation}, arr : Nat \cup {NoTime}, dep : Nat \cup {NoTime}, dist : Int]
Loaded(tt) ==
  \A t \in DOMAIN tt : tt[t].stops \in Seq(CallRecords) /\ Accepted(tt[t]) /\ Timed(tt[t])

(* A journey of the engine: rides of the timetable, each to where the next begins. *)
Rides(tt, legs) ==
  /\ legs \in Seq([train : Nat \ {0}, board : Nat \ {0}, alight : Nat, startDay : Int]) \ {<<>>}
  /\ \A i \in 1..Len(legs) : LegFits(tt, legs[i])
  /\ \A i \in 1..Len(legs) - 1 :
       StationAt(tt[legs[i].train], legs[i].alight) = StationAt(tt[legs[i + 1].train], legs[i + 1].board)

(***************************************************************************)
(* The pages of an answer are the journeys that pass the filters, each     *)
(* once, in rank order and with the rank it had before filtering           *)
(* (routeService.ts:59-61, "ranks stay stable while filters are toggled"). *)
(***************************************************************************)
SoundPages(journeys, f, limit, answers) ==
  LET pages == answers[1].pages
      Ranks(p) == [k \in DOMAIN answers[p].routes |-> answers[p].routes[k].rank]
      keep == {i \in DOMAIN journeys : PassesFilters(journeys[i], f)}
  IN /\ UNION {Range(Ranks(p)) : p \in 1..pages} = keep
     /\ \A p, q \in 1..pages : \A k \in DOMAIN Ranks(p), l \in DOMAIN Ranks(q) :
          p < q \/ (p = q /\ k < l) => Ranks(p)[k] < Ranks(q)[l]
     /\ \A p \in 1..pages - 1 : Len(Ranks(p)) = limit
     /\ Len(answers) = pages + 1 /\ answers[pages + 1].routes = <<>>

(* The stops of a segment go forward from its departure to its arrival. *)
Forward(s) ==
  LET m == Len(s.stops)
      Moments(stop) == {stop.arrival, stop.departure} \ {Unset}
  IN /\ s.stops[1].arrival = Unset /\ s.stops[1].departure = s.departure
     /\ s.stops[m].arrival = s.arrival /\ s.stops[m].departure = Unset
     /\ \A k, l \in 1..m : \A x \in Moments(s.stops[k]), y \in Moments(s.stops[l]) :
          k < l \/ (k = l /\ x = s.stops[k].arrival /\ y = s.stops[k].departure) => x <= y
     /\ s.km = s.stops[m].km

(***************************************************************************)
(* The figures of a rendered journey agree with each other and with the    *)
(* engine's (journeyRenderer.ts:88-155): its trains and its waits fill the *)
(* time from departure to arrival with no gap, the waits are those the     *)
(* engine counted, trains meet where the passenger changes, and the stops  *)
(* of a segment go forward from its departure to its arrival.              *)
(***************************************************************************)
SoundRoute(r) ==
  LET n == Len(r.segments)
  IN /\ r.segments[1].departure = r.departure /\ r.segments[n].arrival = r.arrival
     /\ r.duration = r.travel + r.waiting
     /\ r.travel = Plus([i \in 1..n |-> r.segments[i].duration])
     /\ r.waiting = Plus([i \in 1..n - 1 |-> r.transfers[i].wait])
     /\ r.elapsed = r.initialWait + r.duration
     /\ \A i \in 1..n - 1 :
          /\ r.transfers[i].arrival = r.segments[i].arrival
          /\ r.transfers[i].departure = r.segments[i + 1].departure
          /\ r.transfers[i].station = r.segments[i].to /\ r.segments[i].to = r.segments[i + 1].from
     /\ \A i \in 1..n : Forward(r.segments[i])
     /\ r.km = Plus([i \in 1..n |-> r.segments[i].km])

(***************************************************************************)
(* The lookup answers what its comment says (stationService.ts:77-79):     *)
(* every hit begins with the query, a station whose code it is comes       *)
(* first, and when no index has more than MaxScan matching keys the hits   *)
(* are the best of all matching stations.                                  *)
(***************************************************************************)
SoundHits(stations, q, limit, hits) ==
  LET Matches(s) == IsPrefix(q, s.code) \/ \E n \in s.names : IsPrefix(q, n)
      matching == {s \in stations : Matches(s)}
      Best(s) == IF s.code = q THEN 0 ELSE IF IsPrefix(q, s.code) THEN 1 ELSE 2
      keys == UNION {{<<n, s>> : n \in {m \in s.names : IsPrefix(q, m)}} : s \in stations}
  IN q # <<>> =>
       /\ IsInjective(hits) /\ Len(hits) <= limit
       /\ \A k \in DOMAIN hits : Matches(hits[k])
       /\ \A s \in stations : s.code = q => hits[1] = s
       /\ Cardinality(keys) <= MaxScan /\ Cardinality({s \in stations : IsPrefix(q, s.code)}) <= MaxScan =>
            hits = LET best == SetToSortSeq(matching, LAMBDA a, b : RanksBefore(Best(a), a, Best(b), b))
                   IN SubSeq(best, 1, Min({Len(best), limit}))
=============================================================================
