------------------------------ MODULE Analysis ------------------------------
(***************************************************************************)
(* The measures that loadtest/analyze.ts takes from the samples that       *)
(* loadtest/run.ts saved: increases of counters, capacity, and recovery    *)
(* after a fault.  Pure operators; a series is a sequence of samples, a    *)
(* scrape that failed is NoSample.                                         *)
(***************************************************************************)
EXTENDS Integers, Sequences, FiniteSets, FiniteSetsExt, SequencesExt

CONSTANT GoodFor       \* 6: samples within the SLO that make a recovery

GoodForAssumption == GoodFor \in Nat \ {0}
ASSUME GoodForAssumption

NoSample == -1
NotANumber == -1

SumOf(s) == LET Sum[n \in 0..Len(s)] == IF n = 0 THEN 0 ELSE Sum[n - 1] + s[n] IN Sum[Len(s)]

(* sumSeries: the series of one metric together, sample by sample. *)
SumSeries(list) ==
  [k \in DOMAIN list[1] |->
     SumOf(SelectSeq([i \in DOMAIN list |-> list[i][k]], LAMBDA x : x # NoSample))]

(* counterDelta, sample by sample: after a drop the process counts from 0 again. *)
Increase(prev, v) == IF prev = NoSample THEN 0 ELSE IF v >= prev THEN v - prev ELSE v

CounterDelta(points) ==
  LET Counted[k \in 0..Len(points)] ==
        IF k = 0 THEN [total |-> 0, prev |-> NoSample]
        ELSE IF points[k] = NoSample THEN Counted[k - 1]
        ELSE [total |-> Counted[k - 1].total + Increase(Counted[k - 1].prev, points[k]), prev |-> points[k]]
  IN Counted[Len(points)].total

\* Fault: the series are added up first.
DeltaOfSum(list) == CounterDelta(SumSeries(list))

(* deltasBy: every series by itself. *)
DeltasBy(list) == SumOf([i \in DOMAIN list |-> CounterDelta(list[i])])

-----------------------------------------------------------------------------
(* capacityOf: steps are [rps, bad], bad when p99 or errors break the SLO. *)

Knee(steps) == Min({i \in 1..Len(steps) - 1 : steps[i].bad /\ steps[i + 1].bad} \cup {Len(steps) + 1})

CapacityOf(steps) ==
  LET within == {steps[i].rps : i \in {j \in 1..Knee(steps) - 1 : ~steps[j].bad}}
  IN [rps |-> IF within = {} THEN NotANumber ELSE Max(within), broke |-> Knee(steps) <= Len(steps)]

(* timelineSection, over samples counted from the start of the run. *)

Broken(p99bad, first) == {k \in DOMAIN p99bad : k >= first /\ p99bad[k]}

(* Where p99 is back within the SLO for GoodFor samples; 0 if it never left it. *)
Recovery(p99bad, first) ==
  LET after == {k \in DOMAIN p99bad : /\ k >= Min(Broken(p99bad, first)) /\ k + GoodFor - 1 <= Len(p99bad)
                                      /\ \A i \in k..k + GoodFor - 1 : ~p99bad[i]}
  IN IF Broken(p99bad, first) = {} THEN 0 ELSE IF after = {} THEN NotANumber ELSE Min(after)

-----------------------------------------------------------------------------
(* What really happened to a counter that is scraped after each interval:  *)
(* [before, restarted, after, scraped], increments before and after a      *)
(* restart in it.                                                          *)

Intervals == {x \in [before : Nat, restarted : BOOLEAN, after : Nat, scraped : BOOLEAN] :
                x.restarted \/ x.after = 0}

Value(start, intervals) ==
  LET V[k \in 0..Len(intervals)] ==
        IF k = 0 THEN start
        ELSE IF intervals[k].restarted THEN intervals[k].after ELSE V[k - 1] + intervals[k].before
  IN V

Scraped(start, intervals) ==
  LET V == Value(start, intervals)
  IN <<start>> \o [k \in DOMAIN intervals |-> IF intervals[k].scraped THEN V[k] ELSE NoSample]

Happened(intervals) == SumOf([k \in DOMAIN intervals |-> intervals[k].before + intervals[k].after])

(***************************************************************************)
(* Restarts of a worker never inflate the engine calls of a run            *)
(* (analyze.ts:64-74, 228-235): what is counted is at most what happened,  *)
(* whichever scrapes failed, and all of it when no process restarted and   *)
(* the last scrape succeeded.                                              *)
(***************************************************************************)
SoundCounts(start, histories, counted) ==
  LET total == SumOf([i \in DOMAIN histories |-> Happened(histories[i])])
  IN /\ counted <= total
     /\ (\A i \in DOMAIN histories :
           /\ \A k \in DOMAIN histories[i] : ~histories[i][k].restarted
           /\ histories[i][Len(histories[i])].scraped) => counted = total

(***************************************************************************)
(* A capacity that was not broken is a lower bound (analyze.ts:84-87): a   *)
(* longer ramp never lowers it; and no rate above the answer was held      *)
(* before the SLO broke for good.                                          *)
(***************************************************************************)
SoundCapacity(steps, capacity) ==
  /\ \A n \in DOMAIN steps :
       LET shorter == CapacityOf(SubSeq(steps, 1, n))
       IN IF shorter.broke THEN capacity = shorter ELSE shorter.rps <= capacity.rps
  /\ capacity.broke => \E i \in 1..Len(steps) - 1 :
       /\ steps[i].bad /\ steps[i + 1].bad
       /\ \A j \in 1..i - 1 : steps[j].bad \/ steps[j].rps <= capacity.rps

(***************************************************************************)
(* A recovery is real (analyze.ts:513-518): it follows a sample over the   *)
(* SLO that follows the first action, and the samples from there to its    *)
(* end are within it.                                                      *)
(***************************************************************************)
SoundTimeline(p99bad, first, recovery) ==
  recovery > 0 =>
    /\ \E k \in first..recovery - 1 : p99bad[k] /\ \A i \in k + 1..recovery + GoodFor - 1 : ~p99bad[i]
=============================================================================
