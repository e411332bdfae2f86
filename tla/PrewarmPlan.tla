----------------------------- MODULE PrewarmPlan -----------------------------
(***************************************************************************)
(* Which searches a cache-warmer computes, and in which order:             *)
(* services/prewarm.ts, and the filter of warmer.ts.  Pure operators.      *)
(*                                                                         *)
(* A station is [code, trains], codes being numbers (as strings of one     *)
(* length they order alike, alone and joined); a time is <<hour, minute>>; *)
(* an instant is a number of hours since the first midnight of a calendar, *)
(* the sequence of the lengths of its days in a time zone.                 *)
(***************************************************************************)
EXTENDS Naturals, SequencesExt

CONSTANTS
  Hours,           \* 24: hours of a day whose clocks are not changed
  ChangeHour,      \* the hour at which they are
  Spare            \* 10: busy stations beyond the square root of the pairs

PrewarmAssumption == Hours \in Nat \ {0} /\ ChangeHour \in 1..Hours - 1 /\ Spare \in Nat
ASSUME PrewarmAssumption

CeilSqrt(n) == CHOOSE r \in 0..n : n <= r * r /\ \A q \in 0..r - 1 : q * q < n

Busier(a, b) ==
  \/ a.trains > b.trains
  \/ a.trains = b.trains /\ a.code < b.code

BusyCount(stations, n) == Min({Cardinality(stations), CeilSqrt(n) + Spare})

Busy(stations, n) == SubSeq(SetToSortSeq(stations, Busier), 1, BusyCount(stations, n))

Weight(pair) == pair[1].trains * pair[2].trains

Heavier(p, q) ==
  \/ Weight(p) > Weight(q)
  \/ Weight(p) = Weight(q) /\ p[1].code < q[1].code
  \/ Weight(p) = Weight(q) /\ p[1].code = q[1].code /\ p[2].code < q[2].code

BusiestPairs(stations, n) ==
  LET busy == Busy(stations, n)
      From(a) == [i \in DOMAIN busy |-> <<a, busy[i]>>]
      pairs == SelectSeq(FlattenSeq([i \in DOMAIN busy |-> From(busy[i])]), LAMBDA p : p[1] # p[2])
  IN SubSeq(SortSeq(pairs, Heavier), 1, Min({Len(pairs), n}))

-----------------------------------------------------------------------------
(* Date and hour that a clock shows; an hour is left out, or shown twice, at ChangeHour. *)
LocalDate(calendar, instant) ==
  LET Midnight(d) == FoldLeft(+, 0, SubSeq(calendar, 1, d - 1))
      d == CHOOSE d \in DOMAIN calendar : Midnight(d) <= instant /\ instant < Midnight(d + 1)
      elapsed == instant - Midnight(d)
  IN [date |-> d, hour |-> IF elapsed < ChangeHour THEN elapsed ELSE elapsed + Hours - calendar[d]]

Hourly == [h \in 1..Hours |-> <<h - 1, 0>>]

(* The first time at or after the hour leads, if there is one. *)
Rotated(times, hour) ==
  LET later == {i \in DOMAIN times : times[i][1] >= hour}
  IN IF later = {} THEN times
     ELSE SubSeq(times, Min(later), Len(times)) \o SubSeq(times, 1, Min(later) - 1)

Query(source, destination, date, time) ==
  [source |-> source, destination |-> destination, date |-> date, time |-> time]

AddOnce(out, q) == IF q \in Range(out) THEN out ELSE Append(out, q)

(***************************************************************************)
(* The plan.  o has the settings pairs, times, days and extra (searches    *)
(* without a date), the calendar, and the instant now.  Day n is the date  *)
(* of the instant n * 24 hours from now.                                   *)
(***************************************************************************)
PlanPrewarm(stations, o) ==
  LET pairs == BusiestPairs(stations, o.pairs)
      Local(day) == LocalDate(o.calendar, o.now + day * Hours)
      Times(day) == IF day = 0 THEN Rotated(o.times, Local(0).hour) ELSE o.times
      AtTime(day, t) ==
        [i \in DOMAIN pairs |-> Query(pairs[i][1].code, pairs[i][2].code, Local(day).date, t)]
      OfDay(day) ==
        FlattenSeq([i \in DOMAIN o.times |-> AtTime(day, Times(day)[i])])
          \o [i \in DOMAIN o.extra |->
                Query(o.extra[i].source, o.extra[i].destination, Local(day).date, o.extra[i].time)]
  IN FoldLeft(AddOnce, <<>>, FlattenSeq([d \in 1..o.days |-> OfDay(d - 1)]))

(* The warmer leaves out what the API would refuse. *)
Warmable(stations, plan) ==
  LET codes == {s.code : s \in stations}
  IN SelectSeq(plan, LAMBDA q : {q.source, q.destination} \subseteq codes /\ q.source # q.destination)

-----------------------------------------------------------------------------
(***************************************************************************)
(* The pairs are as many as were asked for, or all there are (prewarm.ts,  *)
(* 38: the stations taken suffice); no pair comes before a heavier one;    *)
(* and as long as n is at most twice the busy stations beside the first,   *)
(* the weights are the n greatest of all pairs of all stations.            *)
(***************************************************************************)
SoundPairs(stations, n, pairs) ==
  LET all == {p \in stations \X stations : p[1] # p[2]}
      left == all \ Range(pairs)
  IN /\ IsInjective(pairs) /\ Range(pairs) \subseteq all
     /\ Len(pairs) = Min({n, Cardinality(all)})
     /\ \A i, j \in DOMAIN pairs : i < j => Weight(pairs[i]) >= Weight(pairs[j])
     /\ n <= 2 * (CeilSqrt(n) + Spare - 1) =>
          \A i \in DOMAIN pairs, p \in left : Weight(pairs[i]) >= Weight(p)

(***************************************************************************)
(* A plan holds each search once, an earlier date before a later one       *)
(* (prewarm.ts:4), and on a date exactly the pairs at the times and the    *)
(* extras that the API would take; if clocks are not changed, the dates    *)
(* are today and those that follow (config.ts:71).  Today, if the times    *)
(* ascend, a pair's search comes before every one that is further ahead,   *)
(* those of the hours that are over last (prewarm.ts:8, "the soonest       *)
(* searches are ready first").                                             *)
(***************************************************************************)
SoundPlan(stations, o, plan) ==
  LET local == [d \in 0..o.days - 1 |-> LocalDate(o.calendar, o.now + d * Hours)]
      codes == {s.code : s \in stations}
      Codes(p) == <<p[1].code, p[2].code>>
      pairs == {Codes(p) : p \in Range(BusiestPairs(stations, o.pairs))}
      Of(date) == {Query(p[1], p[2], date, t) : p \in pairs, t \in Range(o.times)}
      Extra(date) == {Query(e.source, e.destination, date, e.time) : e \in Range(o.extra)}
      Takes(q) == {q.source, q.destination} \subseteq codes /\ q.source # q.destination
      Ahead(q) == ((q.time[1] + Hours - local[0].hour) % Hours) * 60 + q.time[2]
      ascending == \A i, j \in DOMAIN o.times :
                     i < j => 60 * o.times[i][1] + o.times[i][2] <= 60 * o.times[j][1] + o.times[j][2]
      today == local[0].date
  IN /\ IsInjective(plan)
     /\ Range(plan) = {q \in UNION {Of(local[d].date) \cup Extra(local[d].date) : d \in DOMAIN local} : Takes(q)}
     /\ \A i, j \in DOMAIN plan : i < j => plan[i].date <= plan[j].date
     /\ (\A d \in DOMAIN o.calendar : o.calendar[d] = Hours) =>
          \A d \in DOMAIN local : local[d].date = today + d
     /\ ascending => \A i, j \in DOMAIN plan :
                       i < j /\ {plan[i], plan[j]} \subseteq Of(today) => Ahead(plan[i]) <= Ahead(plan[j])
=============================================================================
