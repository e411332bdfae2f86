---------------------------- MODULE MCAlgorithms ----------------------------
(***************************************************************************)
(* Small inputs for Algorithms.  A day has three minutes; -1 is no         *)
(* station in an emitted timetable, as in the file.                        *)
(***************************************************************************)
EXTENDS Algorithms

MinusOne == -1

-----------------------------------------------------------------------------
(* One record of three stops, with every way its times, days, distances and order can go wrong. *)
RawStop(seq, code, arr, dep, doj, dist) ==
  [seq |-> seq, code |-> code, arr |-> arr, dep |-> dep, doj |-> doj, dist |-> dist]
Raw(number, name, days, odd, schedule) ==
  [number |-> number, name |-> name, days |-> days, odd |-> odd, schedule |-> schedule]

OneRecord ==
  {[kind |-> "preprocess", policy |-> p,
    records |-> <<Raw(1, "a", {0, 3}, FALSE,
                      << RawStop(q[1], 1, Absent, t[1], 1, 0),
                         RawStop(q[2], c, t[2], t[3], t[4], t[5]),
                         RawStop(q[3], 2, t[6], Absent, t[7], 1) >>)>>] :
     p \in Policies, c \in {Placeholder, 1, 3},
     q \in {<<1, 2, 3>>, <<1, 3, 2>>, <<1, 2, 2>>, <<Absent, 2, 3>>},
     t \in {0, 2} \X {Absent, 0, 2} \X {Absent, 0, 1} \X {1, 2} \X {Absent, 0, 2} \X {0, 2} \X {1, 2, 11}}

(* Three records that share numbers, names and timetables. *)
Short == << RawStop(1, 1, Absent, 0, 1, 0), RawStop(2, 2, 2, Absent, 1, 5) >>
Later == << RawStop(1, 1, Absent, 1, 1, 0), RawStop(2, 2, 2, Absent, 1, 5) >>
Long  == << RawStop(1, 1, Absent, 0, 1, 0), RawStop(2, 3, 1, 1, 1, 2), RawStop(3, 2, 2, Absent, 1, 5) >>
BadTime == << RawStop(1, 1, Absent, Invalid, 1, 0), RawStop(2, 2, 2, Absent, 1, 5) >>

SomeRecords ==
  {Raw(n, name, {1}, FALSE, s) : n \in 1..3, name \in {"a", "b"}, s \in {Short, Long}}
    \cup {Raw(2, "a", {2}, TRUE, Later), Raw(3, "a", {}, FALSE, Short), Raw(3, "a", {1}, FALSE, BadTime),
          Raw(Absent, "a", {1}, FALSE, Short)}

ThreeRecords ==
  {[kind |-> "preprocess", policy |-> "correct", records |-> rs] : rs \in SomeRecords \X SomeRecords \X SomeRecords}

-----------------------------------------------------------------------------
(* Five stations, at 0, 100, ... 400 km; one may be somewhere else, one unknown. *)
Line == <<0, 100, 200, 300, 400>>
Call(c) == [code |-> c, km |-> Line[c]]
Lines ==
  { << <<Call(1), Call(2), Call(3)>>, <<Call(3), Call(4), Call(5)>> >>,
    << <<Call(1), Call(3), Call(5)>>, <<Call(2), Call(3), Call(4)>>, <<Call(1), Call(2)>> >>,
    << <<Call(1), Call(2), Call(3), Call(4), Call(5)>>, <<Call(2), Call(4)>> >>,
    << <<Call(1), Call(2)>>, <<Call(2), Call(1)>>, <<Call(3), Call(2)>> >> }

GeocodeJobs ==
  {[kind |-> "geocode", routes |-> rs, wanted |-> 1..5, truth |-> Line,
    coords |-> [c \in (1..5) \ unknown |-> IF c = w THEN at ELSE Line[c]]] :
     rs \in Lines, w \in 1..5, at \in {-2000, 150, 2000, 5000}, unknown \in {{}, {2}, {4}, {2, 3}, {1}}}

-----------------------------------------------------------------------------
(* The default roles of three to six hosts, and hosts that hold two roles. *)
Inventories ==
  {[h \in 1..n |-> DefaultRoles(h, n)] : n \in 3..6}
    \cup {<< {"worker", "api"}, {"worker", "nginx"}, {"redis", "monitoring", "worker"} >>,
          << {"worker"}, {"nginx"}, {"redis", "monitoring"} >>,
          << {"worker"}, {"worker", "api", "nginx"}, {"redis", "api"}, {"monitoring"} >>}

RolloutJobs ==
  {[kind |-> "rollout", inventory |-> inv,
    env |-> [apiHosts |-> a, perHost |-> p, placement |-> pl, workers |-> w]] :
     inv \in Inventories, a \in {Empty, 0, 1, 2, 3}, p \in 0..3, pl \in {"spread", "pack", "other"},
     w \in {Empty, 0, 1, 2, 3, 5, 9}}

-----------------------------------------------------------------------------
(* Two workers over three scrapes; ramps of four steps; runs of seven samples. *)
Interval == [before : 0..1, restarted : {FALSE}, after : {0}, scraped : BOOLEAN]
              \cup [before : 0..1, restarted : {TRUE}, after : 0..1, scraped : BOOLEAN]
CountJobs ==
  {[kind |-> "counts", start |-> s, histories |-> <<a, b>>] :
     s \in {0, 2}, a \in Interval \X Interval, b \in Interval \X Interval}
CapacityJobs ==
  {[kind |-> "capacity", steps |-> s] : s \in UNION {[1..n -> [rps : 1..2, bad : BOOLEAN]] : n \in 1..4}}
TimelineJobs ==
  {[kind |-> "timeline", p99bad |-> s, first |-> f] : s \in [1..7 -> BOOLEAN], f \in 1..4}

-----------------------------------------------------------------------------
(* Two trains that meet at station 1, the second one on the next day. *)
Stop(station, arr, dep, dist) == [station |-> station, arr |-> arr, dep |-> dep, dist |-> dist]
Two ==
  << [days |-> {0}, stops |-> << Stop(0, -1, 1, 0), Stop(-1, 2, 2, 4), Stop(1, 3, 4, 9), Stop(2, 7, -1, 15) >>],
     [days |-> {0}, stops |-> << Stop(3, -1, 0, 0), Stop(1, 1, 2, 6), Stop(2, 4, -1, 8) >>] >>
Leg(train, board, alight, startDay) ==
  [train |-> train, board |-> board, alight |-> alight, startDay |-> startDay]

(* Direct, by a change on the day after, and by an earlier start of the second train. *)
Direct == EngineJourney(Two, <<Leg(1, 1, 4, 2)>>)
NextDay == EngineJourney(Two, <<Leg(1, 1, 3, 2), Leg(2, 2, 3, 3)>>)
Overnight == EngineJourney(Two, <<Leg(1, 1, 3, 2), Leg(2, 2, 3, 4)>>)
ReplyJobs ==
  {[kind |-> "reply", trains |-> Two, journeys |-> js, limit |-> n, searchMinute |-> 6,
    filters |-> [maxDuration |-> d, maxTransfers |-> m, directOnly |-> only]] :
     js \in UNION {[1..n -> {Direct, NextDay, Overnight}] : n \in 0..3}, n \in 1..2,
     d \in {Unset, 6, 7}, m \in {Unset, 0, 1}, only \in BOOLEAN}

-----------------------------------------------------------------------------
(* Stations whose codes and names are prefixes of each other. *)
Station(code, names, trains) == [code |-> code, names |-> names, trains |-> trains]
SomeStations ==
  { Station(<<1>>, {<<1, 2, 1>>}, 1), Station(<<1, 2>>, {<<2, 1>>, <<1, 2>>}, 3), Station(<<2>>, {<<1, 2, 2>>}, 3),
    Station(<<2, 1>>, {<<1>>}, 2), Station(<<2, 2>>, {<<1, 2, 1>>, <<2>>}, 2) }
LookupJobs ==
  {[kind |-> "lookup", stations |-> s, q |-> q, limit |-> n] :
     s \in SUBSET SomeStations, q \in UNION {[1..n -> 1..2] : n \in 0..3}, n \in {1, 3}}

-----------------------------------------------------------------------------
(* Up to five stations of up to three trains, more pairs than the busy ones have, and fewer. *)
Served(trains) == {[code |-> c, trains |-> trains[c]] : c \in DOMAIN trains}
PairJobs ==
  {[kind |-> "pairs", stations |-> Served(t), n |-> n] :
     t \in UNION {[1..m -> 0..3] : m \in 0..5}, n \in 0..9}

(* Calendars with a short day and a long one; times in order and not; extras planned anyway, unknown, nowhere. *)
Extra(source, destination, time) == [source |-> source, destination |-> destination, time |-> time]
Extras ==
  { <<>>, << Extra(1, 2, <<1, 0>>), Extra(3, 1, <<1, 30>>), Extra(3, 1, <<1, 30>>) >>,
    << Extra(1, 9, <<0, 0>>), Extra(2, 2, <<0, 0>>), Extra(2, 3, <<3, 0>>) >> }
Calendars == { <<4, 4, 4, 4, 4>>, <<4, 3, 4, 4, 4>>, <<3, 4, 4, 4, 4>>, <<5, 4, 4, 4, 4>>, <<4, 5, 4, 4, 4>> }
PrewarmSettings ==
  [pairs : 0..3, days : 1..3, extra : Extras, calendar : Calendars, now : 0..4,
   times : {Hourly, <<>>, << <<1, 0>>, <<1, 30>>, <<2, 15>> >>, << <<3, 0>>, <<1, 0>>, <<1, 0>> >>}]
PrewarmJobs ==
  {[kind |-> "prewarm", stations |-> Served(<<3, 1, 2>>), settings |-> o] : o \in PrewarmSettings}

AllJobs == << OneRecord, ThreeRecords, GeocodeJobs, RolloutJobs, CountJobs, CapacityJobs, TimelineJobs,
              ReplyJobs, LookupJobs, PairJobs, PrewarmJobs >>
=============================================================================
