----------------------------- MODULE Algorithms -----------------------------
(***************************************************************************)
(* The programs of this repository that run once from an input to an       *)
(* output: data preparation (Preprocess, Geocode), the deployment plan     *)
(* (Rollout), the analysis of the load tests (Analysis), the work of the   *)
(* API on one request (Reply) and the plan of a cache-warmer (PrewarmPlan).*)
(* A behaviour takes a job and does it.                                    *)
(***************************************************************************)
EXTENDS Preprocess, Geocode, Rollout, Analysis, Reply, PrewarmPlan

CONSTANT Jobs      \* families of inputs, a sequence of sets

\* What the analysis is given: counters of processes, steps with their rates,
\* samples; and the deployment: the roles of each host, a variant of integers.
AnalysisInput(j) ==
  /\ j.kind = "counts" => j.start \in Nat /\ j.histories \in Seq(Seq(Intervals) \ {<<>>})
  /\ j.kind = "capacity" => j.steps \in Seq([rps : Nat, bad : BOOLEAN])
  /\ j.kind = "timeline" => j.p99bad \in Seq(BOOLEAN) /\ j.first \in Nat \ {0}
RolloutInput(j) ==
  j.kind = "rollout" =>
    /\ j.inventory \in Seq(SUBSET Roles)
    /\ j.env.apiHosts \in Int /\ j.env.perHost \in Int /\ j.env.workers \in Int
\* A timetable that the engine has loaded, and journeys that it found in it.
ReplyInput(j) ==
  j.kind = "reply" =>
    /\ j.limit \in Nat \ {0} /\ j.searchMinute \in Int
    /\ Loaded(j.trains)
    /\ DOMAIN j.journeys = 1..Len(j.journeys) /\ Len(j.journeys) \in Nat
    /\ \A i \in DOMAIN j.journeys :
         Rides(j.trains, j.journeys[i].legs) /\ j.journeys[i] = EngineJourney(j.trains, j.journeys[i].legs)

JobsAssumption ==
  \A n \in DOMAIN Jobs : \A j \in Jobs[n] : AnalysisInput(j) /\ RolloutInput(j) /\ ReplyInput(j)
ASSUME JobsAssumption

VARIABLES job, output

vars == <<job, output>>

Pending == [kind |-> "pending"]
IsDone == output # Pending

Init == (\E n \in DOMAIN Jobs : job \in Jobs[n]) /\ output = Pending

Doing(kind) == ~IsDone /\ job.kind = kind /\ UNCHANGED job

Preprocessing ==
  Doing("preprocess") /\ output' = Preprocessed(job.records, job.policy)

Geocoding ==
  Doing("geocode") /\ output' = [coords |-> Geocoded(job.coords, job.routes, job.wanted)]

(* render.ts throws before it writes a file. *)
Rendering ==
  /\ Doing("rollout")
  /\ output' = IF Renders(job.inventory, job.env) THEN Render(job.inventory, job.env) ELSE [kind |-> "refused"]

Counting ==
  /\ Doing("counts")
  /\ output' = [counted |-> DeltasBy([i \in DOMAIN job.histories |-> Scraped(job.start, job.histories[i])])]

Measuring ==
  Doing("capacity") /\ output' = CapacityOf(job.steps)

TimelineOf ==
  Doing("timeline") /\ output' = [recovery |-> Recovery(job.p99bad, job.first)]

(* All the pages of one search, and the one after the last. *)
Answering ==
  LET Page(p) == Answer(job.trains, job.journeys, job.filters, p, job.limit, job.searchMinute)
  IN Doing("reply") /\ output' = [answers |-> [p \in 1..Page(1).pages + 1 |-> Page(p)]]

LookingUp ==
  Doing("lookup") /\ output' = [hits |-> SearchStations(job.stations, job.q, job.limit)]

PairingUp ==
  Doing("pairs") /\ output' = [pairs |-> BusiestPairs(job.stations, job.n)]

(* warmer.ts, once it has the lock. *)
Planning ==
  Doing("prewarm") /\ output' = [plan |-> Warmable(job.stations, PlanPrewarm(job.stations, job.settings))]

Next == \/ Preprocessing \/ Geocoding \/ Rendering \/ Counting \/ Measuring \/ TimelineOf
        \/ Answering \/ LookingUp \/ PairingUp \/ Planning

Spec == Init /\ [][Next]_vars

-----------------------------------------------------------------------------
Finished(kind) == IsDone /\ job.kind = kind

(***************************************************************************)
(* The prepared timetable is one that the engine loads and the API renders *)
(* alike (preprocess.ts:161-179, timetable.cpp finalize), with no accepted *)
(* train lost.                                                             *)
(***************************************************************************)
TimetableSound == Finished("preprocess") => SoundTimetable(job.records, job.policy, output)

(***************************************************************************)
(* The outlier guard drops the wrong station and spares its neighbours     *)
(* (lib/geocode.ts:35-41), and a gap is filled from the stations around it *)
(* (lib/geocode.ts:101-105).                                               *)
(***************************************************************************)
CoordinatesSound ==
  Finished("geocode") => SoundCoordinates(job.coords, job.routes, job.truth, output.coords)

(* A plan that was not refused can be deployed: no port clash, every address served (render.ts:140-313). *)
RolloutSound ==
  Finished("rollout") /\ output # [kind |-> "refused"] => SoundRollout(job.inventory, job.env, output)

(* Restarts and failed scrapes never inflate a count; capacity and recovery mean what they say. *)
AnalysisSound ==
  /\ Finished("counts") => SoundCounts(job.start, job.histories, output.counted)
  /\ Finished("capacity") => SoundCapacity(job.steps, output)
  /\ Finished("timeline") => SoundTimeline(job.p99bad, job.first, output.recovery)

(* The pages hold every journey that passes the filters once, and each route adds up (routeService.ts:59-61). *)
ReplySound ==
  Finished("reply") =>
    /\ SoundPages(job.journeys, job.filters, job.limit, output.answers)
    /\ \A p \in DOMAIN output.answers : \A k \in DOMAIN output.answers[p].routes :
         SoundRoute(output.answers[p].routes[k])

(***************************************************************************)
(* What is chosen among the stations: the lookup finds the best matches,   *)
(* an exact code first (stationService.ts:77-101); a warmer's plan has the *)
(* busiest pairs, each search once, the soonest first (prewarm.ts:36-67).  *)
(***************************************************************************)
ChoiceSound ==
  /\ Finished("lookup") => SoundHits(job.stations, job.q, job.limit, output.hits)
  /\ Finished("pairs") => SoundPairs(job.stations, job.n, output.pairs)
  /\ Finished("prewarm") => SoundPlan(job.stations, job.settings, output.plan)
=============================================================================
