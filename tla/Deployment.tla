----------------------------- MODULE Deployment -----------------------------
(***************************************************************************)
(* API processes and cache-warmers over the same engines and Redis.        *)
(***************************************************************************)
EXTENDS ApiServer, Warmer

(* Who takes part, and the engines at the start: a set of
   [procs, warmers, lanes, engines, redis]. *)
CONSTANT Casts

ASSUME DeploymentAssumption ==
  /\ Nothing \notin Warmers \cup Identities /\ Default \notin Identities /\ Down \notin Identities
  /\ Workers # {} /\ Asked \subseteq Queries /\ Plan \in Seq(Queries) /\ MaxChanges \in Nat
  /\ \A c \in Casts : /\ c.procs \subseteq Procs /\ c.warmers \subseteq Warmers
                      /\ c.engines \subseteq [Workers -> Identities \cup {Down}]
                      /\ c.redis \subseteq {"up", "down", "none"}
                      /\ IsFiniteSet(c.lanes) /\ c.lanes # {}   \* Math.max(1, concurrency)
                      /\ c.lanes = 1..Cardinality(c.lanes)

vars == <<backendVars, serverVars, warmerVars>>

Init ==
  \E c \in Casts :
    BackendsInit(c.engines, c.redis) /\ ServerInit(c.procs) /\ WarmerInit(c.warmers, c.lanes)

Next ==
  \/ BackendsChange /\ UNCHANGED <<serverVars, warmerVars>>
  \/ ServerNext /\ UNCHANGED warmerVars
  \/ WarmerNext /\ UNCHANGED serverVars

Spec == Init /\ [][Next]_vars /\ ServerFairness /\ WarmerFairness

TypeOK == BackendsTypeOK /\ ServerTypeOK /\ WarmerTypeOK

-----------------------------------------------------------------------------
(***************************************************************************)
(* "a new timetable never serves stale entries" (README.md:601): a journey *)
(* is only rendered with the timetable it was computed on, whatever is in  *)
(* the cache, whoever computed it, and whichever engines were replaced     *)
(* since the process resolved its identity.                                *)
(***************************************************************************)
RendersOwnTimetable == \A p \in Procs : proc[p].answer.status = "ok" => Fits(proc[p].answer.result)

(***************************************************************************)
(* "results are never reused across configs or timetables" (apiProcess.ts: *)
(* 18): a cached answer was computed by an engine of the identity that is  *)
(* in its key.                                                             *)
(***************************************************************************)
NoReuseAcrossConfigs ==
  \A p \in Procs : proc[p].answer.cached => proc[p].answer.result = proc[p].answer.key[2]

(***************************************************************************)
(* "A Redis lock lets only one warmer run at a time" (warmer.ts:6): two    *)
(* warmers of one identity warm together only if the lease is shorter than *)
(* the run or Redis lost the lock: whatever replies are lost and whichever *)
(* warmer is killed, and although unlock's GET and DEL are two commands.   *)
(***************************************************************************)
LocksKept == lease /\ ~flushed
OneWarmer ==
  LocksKept => \A v, w \in Warmers :
    Holds(v) /\ Holds(w) /\ warmer[v].id = warmer[w].id => v = w

(***************************************************************************)
(* The lanes share one cursor (prewarm.ts:80-92): once it was moved, and   *)
(* they are done, every planned query was warmed once, and the stats add   *)
(* up to the plan.                                                         *)
(***************************************************************************)
WarmedOnce ==
  \A w \in Warmers :
    warmer[w].next > 1 /\ (Finished(w) \/ warmer[w].st \in {"unlocking", "deleting"}) =>
      /\ \A i \in 1..Size : warmer[w].tries[i] = 1
      /\ warmer[w].computed + warmer[w].cached + warmer[w].failed = Size

-----------------------------------------------------------------------------
(***************************************************************************)
(* Once the engines a process lists stay up with its timetable, every      *)
(* process of the supervisor comes to serve under one of their identities: *)
(* after any crashes, refusals to start and start-ups without an engine    *)
(* (server.ts:13-17, apiProcess.ts:22).  Redis may go away for ever once a *)
(* process has connected to it; one that never could waits for it, and     *)
(* only as long as it cannot be reached (bootstrap.ts:65).                 *)
(***************************************************************************)
AwaitsRedis(r) == r.st = "creating" /\ redis = "down"
EnginesFine(p) == Running(proc[p].list) # {} /\ \A w \in Running(Workers) : Fits(engine[w])
UnderIdentity(p) == proc[p].st = "serving" /\ proc[p].id # Default
AllServe ==
  (<>[](primary = "running" /\ \A p \in places : EnginesFine(p)))
    => <>[](\A p \in places : UnderIdentity(p) \/ AwaitsRedis(proc[p]))

(* After a SIGTERM the supervisor and its processes end (server.ts:30-35). *)
StopEnds == primary = "stopping" ~> primary = "gone"

(***************************************************************************)
(* A warmer ends, whatever it waits for and whatever is lost, except while *)
(* it still waits for its first connection to Redis (warmer.ts:20); and no *)
(* lock stays behind, also when its owner was killed.                      *)
(***************************************************************************)
WarmersEnd ==
  /\ <>[](\A w \in Warmers : warmer[w].st = "exited" \/ AwaitsRedis(warmer[w]))
  /\ []<>(\A i \in Identities : lock[i] = Nothing)

(***************************************************************************)
(* Redis that cannot be reached is "Not fatal: the cache fails open and    *)
(* the pool keeps its static list until Redis is reachable"                *)
(* (bootstrap.ts:64), and a warmer "exits nonzero if either never becomes  *)
(* reachable" (warmer.ts:5): neither waits for Redis for ever.             *)
(***************************************************************************)
RedisNotFatal ==
  /\ \A p \in Procs : proc[p].st = "creating" ~> proc[p].st # "creating"
  /\ \A w \in Warmers : warmer[w].st = "creating" ~> warmer[w].st # "creating"
=============================================================================
