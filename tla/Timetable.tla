------------------------------ MODULE Timetable ------------------------------
(***************************************************************************)
(* The timetable of routing-engine/src/timetable.{h,cpp} and the train     *)
(* instances that router.cpp derives from it for one query date.           *)
(*                                                                         *)
(* A timetable is a sequence of trains; a train is                         *)
(*   [stops |-> sequence of [station, arr, dep], days |-> weekdays],       *)
(* its times in minutes from 00:00 of its start date.  A train's position  *)
(* in the sequence stands for its number.  Times of a query are relative   *)
(* to 00:00 of the query date (qbase = 0).  Day is the code's 1440.        *)
(***************************************************************************)
EXTENDS Integers, Sequences, FiniteSets, FiniteSetsExt

CONSTANTS
  Day,          \* 1440
  Stations,     \* numbered in the order of their codes
  NoStation

ASSUME TimetableAssumption ==
  /\ Day \in Nat \ {0}
  /\ Stations \subseteq Nat /\ NoStation \notin Stations

NoTime == -1

StopRecords == [station : Stations \cup {NoStation}, arr : Nat \cup {NoTime}, dep : Nat \cup {NoTime}]
TrainRecords == [stops : Seq(StopRecords), days : SUBSET (0..6)]

LastStop(train) == train.stops[Len(train.stops)]
StationAt(train, k) == train.stops[k].station

\* finalize() throws on a train with fewer than two stops, with times that go
\* back, without a departure before its last stop, or without a final arrival.
Times(train) ==
  [i \in 1..2 * Len(train.stops) |->
     IF i % 2 = 1 THEN train.stops[(i + 1) \div 2].arr ELSE train.stops[i \div 2].dep]
Accepted(train) ==
  LET n == Len(train.stops)
      times == Times(train)
  IN  /\ n >= 2
      /\ \A i \in 1..2 * n : times[i] # NoTime =>
           /\ times[i] >= 0
           /\ \A j \in 1..i : times[j] # NoTime => times[j] <= times[i]
      /\ \A k \in 1..n - 1 : train.stops[k].dep # NoTime
      /\ LastStop(train).arr # NoTime
\* timetable.h:24: an arrival is missing at the origin only.  finalize() does not
\* ask for it; the preparation of the data fills it in (normalize.ts:200-204).
Timed(train) == \A k \in 2..Len(train.stops) : train.stops[k].arr # NoTime
\* parse_timetable_json drops trains that never run.
Finalized(tt) == \A t \in 1..Len(tt) : Accepted(tt[t]) /\ tt[t].days # {}

MaxSpanDays(tt) == Max({1} \union {LastStop(tt[t]).arr \div Day + 1 : t \in 1..Len(tt)})

MaxStops(tt) == Max({Len(tt[t].stops) : t \in 1..Len(tt)})

\* train_calls_at, as the set of stations that a train calls at from stop lo to
\* stop hi.
StationsBetween(train, lo, hi) == {StationAt(train, k) : k \in lo..hi} \ {NoStation}

-----------------------------------------------------------------------------
\* build_pattern: the instances a query on a weekday can use, as <<train, day
\* offset of its start>>.  Instances that ended before the query date are left
\* out.
Instances(tt, weekday, horizon) ==
  {inst \in (1..Len(tt)) \X ((-MaxSpanDays(tt))..((Day - 1 + horizon) \div Day)) :
      /\ (weekday + inst[2]) % 7 \in tt[inst[1]].days
      /\ inst[2] * Day + LastStop(tt[inst[1]]).arr >= 0}

Arr(tt, inst, k) == inst[2] * Day + tt[inst[1]].stops[k].arr
Dep(tt, inst, k) == inst[2] * Day + tt[inst[1]].stops[k].dep

\* Elementary connections <<instance, stop>>, from a stop to the next one.
Connections(tt, weekday, horizon) ==
  {c \in UNION {{inst} \X (1..Len(tt[inst[1]].stops) - 1) : inst \in Instances(tt, weekday, horizon)} :
      Dep(tt, c[1], c[2]) >= 0}

\* The scan order: later departures first; of the connections of one instance
\* that depart at the same minute, the later stop first.
InstBefore(a, b) == a[1] < b[1] \/ (a[1] = b[1] /\ a[2] < b[2])
ScannedBefore(tt, c, d) ==
  \/ Dep(tt, c[1], c[2]) > Dep(tt, d[1], d[2])
  \/ /\ Dep(tt, c[1], c[2]) = Dep(tt, d[1], d[2])
     /\ \/ InstBefore(c[1], d[1])
        \/ c[1] = d[1] /\ c[2] > d[2]

\* for_each_departure: the connections that leave a station in [lo, hi], and the
\* order in which the departure index (time of day, train, stop) lists them.
DeparturesIn(tt, conns, station, lo, hi) ==
  {c \in conns : /\ StationAt(tt[c[1][1]], c[2]) = station
                 /\ Dep(tt, c[1], c[2]) \in lo..hi}
ListedBefore(tt, c, d) ==
  LET a == Dep(tt, c[1], c[2])
      b == Dep(tt, d[1], d[2])
  IN  \/ a < b
      \/ a = b /\ c[1][1] < d[1][1]
      \/ a = b /\ c[1][1] = d[1][1] /\ c[2] < d[2]
=============================================================================
