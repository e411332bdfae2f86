------------------------------ MODULE RouteCache ------------------------------
(***************************************************************************)
(* The route cache of api/src/services/routeCache.ts over the Redis        *)
(* commands of api/src/services/redisStore.ts: in-process coalescing, the  *)
(* optional cross-process lock, and Redis commands that fail, time out, or *)
(* are executed after their caller has given up on them.                   *)
(*                                                                         *)
(* Keys share nothing but counters, so the model follows one key.  Callers *)
(* are getOrCompute() calls for it, made by several API processes.         *)
(***************************************************************************)
EXTENDS Naturals, FiniteSets

CONSTANTS
  Callers,             \* getOrCompute() calls for the key
  Processes,           \* API processes
  ProcessOf,           \* ProcessOf[q]: the process that makes call q
  Settings,            \* the configurations and environments to look at
  Nobody               \* not a caller

\* A setting: CACHE_COALESCE, whether REDIS_LOCK_MS > 0, whether a Redis command
\* may fail or time out, whether a computation may throw, whether the lock always
\* outlives the load that took it, and whether an API process may die.
AllSettings ==
  [coalesce : BOOLEAN, useLock : BOOLEAN, redisFails : BOOLEAN, computeFails : BOOLEAN,
   computeWithinLock : BOOLEAN, processesCrash : BOOLEAN]

ASSUME CacheAssumption ==
  /\ ProcessOf \in [Callers -> Processes]
  /\ Settings \subseteq AllSettings
  /\ Nobody \notin Callers

VARIABLES
  setting,    \* the setting of this behaviour
  entry,      \* TRUE iff Redis has the value
  lock,       \* the caller whose SET NX made the lock that Redis has, or Nobody
  late,       \* commands that time out at their caller and run in Redis later
  inflight,   \* inflight[p]: the caller whose promise p's map holds, or Nobody
  pc,         \* where each call is
  leader,     \* leader[q]: the caller whose computation q shares, q if its own
  saw,        \* saw[q]: the lock that made q poll
  cached,     \* the flag each finished call returns
  threw       \* the callers whose computation threw

vars == <<setting, entry, lock, late, inflight, pc, leader, saw, cached, threw>>
redisVars == <<entry, lock, late>>

Coalesce == setting.coalesce
UseLock == setting.useLock
RedisFails == setting.redisFails
ComputeFails == setting.computeFails
ComputeWithinLock == setting.computeWithinLock
ProcessesCrash == setting.processesCrash

Loading == {"get", "lock", "poll", "compute", "set"}
Ended == {"done", "failed", "lost"}

Init ==
  /\ setting \in Settings
  /\ entry = FALSE
  /\ lock = Nobody
  /\ late = {}
  /\ inflight = [p \in Processes |-> Nobody]
  /\ pc = [q \in Callers |-> "idle"]
  /\ leader = [q \in Callers |-> q]
  /\ saw = [q \in Callers |-> Nobody]
  /\ cached = [q \in Callers |-> FALSE]
  /\ threw = {}

Following(q) == {f \in Callers : pc[f] = "wait" /\ leader[f] = q}

-----------------------------------------------------------------------------
\* The promise that a call finds in its process's map.  (Fault: it does not look.)
PendingIgnored(q) == Nobody
PendingFor(q) == IF Coalesce THEN inflight[ProcessOf[q]] ELSE Nobody

\* getOrCompute up to its first await: share the pending promise of the process
\* for this key, or start a load of one's own and offer it to later callers.
Start(q) ==
  /\ pc[q] = "idle"
  /\ \/ /\ PendingFor(q) # Nobody
        /\ pc' = [pc EXCEPT ![q] = "wait"]
        /\ leader' = [leader EXCEPT ![q] = PendingFor(q)]
        /\ UNCHANGED inflight
     \/ /\ PendingFor(q) = Nobody
        /\ pc' = [pc EXCEPT ![q] = "get"]
        /\ inflight' = IF Coalesce THEN [inflight EXCEPT ![ProcessOf[q]] = q] ELSE inflight
        /\ UNCHANGED leader
  /\ UNCHANGED <<redisVars, saw, cached, threw>>

\* The end of a load: its caller and those that share its promise continue, and
\* the map entry goes away (finally).  A follower reports the value as cached.
\* (Fault: the followers are forgotten.)
InflightAfter(q) ==
  IF Coalesce THEN [inflight EXCEPT ![ProcessOf[q]] = Nobody] ELSE inflight
PcLeavingFollowers(q, outcome) == [pc EXCEPT ![q] = outcome]
PcAfter(q, outcome) ==
  [f \in Callers |-> IF f = q \/ f \in Following(q) THEN outcome ELSE pc[f]]
Finish(q, outcome, fromStore) ==
  /\ pc' = PcAfter(q, outcome)
  /\ cached' = [f \in Callers |->
                  IF f = q THEN fromStore
                  ELSE IF f \in Following(q) THEN outcome = "done" ELSE cached[f]]
  /\ inflight' = InflightAfter(q)
  /\ UNCHANGED <<leader, saw>>

-----------------------------------------------------------------------------
\* getRemote, and a failed poll: the value, or nothing when it is absent or the
\* command fails.
RemoteHit(q) ==
  /\ pc[q] \in {"get", "poll"}
  /\ entry
  /\ Finish(q, "done", TRUE)
  /\ UNCHANGED <<redisVars, threw>>

GoOn(q, to) ==
  /\ pc' = [pc EXCEPT ![q] = to]
  /\ UNCHANGED <<inflight, leader, cached, threw>>

RemoteMiss(q) ==
  /\ pc[q] = "get"
  /\ ~entry \/ RedisFails
  /\ GoOn(q, IF UseLock THEN "lock" ELSE "compute")
  /\ UNCHANGED <<redisVars, saw>>

\* SET NX: the lock is taken, or another caller's lock is seen.
LockReply(q) ==
  /\ pc[q] = "lock"
  /\ IF lock = Nobody
     THEN /\ lock' = q /\ GoOn(q, "compute") /\ UNCHANGED saw
     ELSE /\ saw' = [saw EXCEPT ![q] = lock] /\ GoOn(q, "poll") /\ UNCHANGED lock
  /\ UNCHANGED <<entry, late>>

\* The lock command fails or times out: the caller computes ("fail open"), and
\* Redis has run the command, runs it later, or never does.
LockError(q) ==
  /\ RedisFails
  /\ pc[q] = "lock"
  /\ GoOn(q, "compute")
  /\ \/ lock' = (IF lock = Nobody THEN q ELSE lock) /\ UNCHANGED late
     \/ late' = late \union {<<"lock", q>>} /\ UNCHANGED lock
     \/ UNCHANGED <<lock, late>>
  /\ UNCHANGED <<entry, saw>>

\* The poll loop ends: its last GET finds nothing.  The loop began after the
\* lock it saw was set and sleeps for as long as that lock lives before that
\* GET, so the lock is gone by then.  (Fault: the loop ends before that.)
PollEndsEarly(q) == pc[q] = "poll" /\ (~entry \/ RedisFails)
PollEnds(q) ==
  /\ pc[q] = "poll"
  /\ lock # saw[q]
  /\ ~entry \/ RedisFails
GiveUpPolling(q) ==
  /\ PollEnds(q)
  /\ GoOn(q, "compute")
  /\ UNCHANGED <<redisVars, saw>>

\* compute() returns: the value is stored next.
ComputeReturns(q) ==
  /\ pc[q] = "compute"
  /\ GoOn(q, "set")
  /\ UNCHANGED <<redisVars, saw>>

\* compute() throws: the error goes to the caller and its followers; nothing
\* is stored and the lock, if the caller took it, stays until it expires.
ComputeThrows(q) ==
  /\ ComputeFails
  /\ pc[q] = "compute"
  /\ threw' = threw \union {q}
  /\ Finish(q, "failed", FALSE)
  /\ UNCHANGED redisVars

\* MULTI, SET value, DEL lock, EXEC: the value appears and the key's lock
\* disappears in one step, whoever took that lock.
Store(q) == entry' = TRUE /\ lock' = Nobody

SetReply(q) ==
  /\ pc[q] = "set"
  /\ Store(q)
  /\ Finish(q, "done", FALSE)
  /\ UNCHANGED <<late, threw>>

\* The command fails or times out; the value is returned all the same.  (Fault:
\* the error reaches the caller.)
SetErrorFails(q) == "failed"
SetErrorOutcome(q) == "done"
SetError(q) ==
  /\ RedisFails
  /\ pc[q] = "set"
  /\ \/ Store(q) /\ UNCHANGED late
     \/ late' = late \union {<<"set", q>>} /\ UNCHANGED <<entry, lock>>
     \/ UNCHANGED redisVars
  /\ Finish(q, SetErrorOutcome(q), FALSE)
  /\ UNCHANGED threw

-----------------------------------------------------------------------------
\* Redis runs a command whose caller no longer waits for it.
RunLate(x) ==
  /\ x \in late
  /\ late' = late \ {x}
  /\ IF x[1] = "set"
     THEN Store(x[2])
     ELSE lock' = (IF lock = Nobody THEN x[2] ELSE lock) /\ UNCHANGED entry
  /\ UNCHANGED <<inflight, pc, leader, saw, cached, threw>>

\* PX of the lock: REDIS_LOCK_MS after it was set.
LockExpires ==
  /\ lock # Nobody
  /\ ComputeWithinLock => pc[lock] \notin {"compute", "set"}
  /\ lock' = Nobody
  /\ UNCHANGED <<entry, late, inflight, pc, leader, saw, cached, threw>>

\* PX of the value.  It is longer than the lock's: a value that a caller did not
\* find before it began to poll outlives the poll loop.  (Where Redis fails, the
\* caller may not have seen an older value.)
EntryExpires ==
  /\ entry
  /\ RedisFails \/ \A q \in Callers : pc[q] # "poll"
  /\ entry' = FALSE
  /\ UNCHANGED <<lock, late, inflight, pc, leader, saw, cached, threw>>

\* An API process dies with its map and its calls; Redis keeps what it has.
Crash(p) ==
  /\ ProcessesCrash
  /\ \E q \in Callers : ProcessOf[q] = p /\ pc[q] \notin Ended \union {"idle"}
  /\ pc' = [q \in Callers |->
              IF ProcessOf[q] = p /\ pc[q] \notin Ended \union {"idle"} THEN "lost" ELSE pc[q]]
  /\ inflight' = [inflight EXCEPT ![p] = Nobody]
  /\ UNCHANGED <<redisVars, leader, saw, cached, threw>>

-----------------------------------------------------------------------------
Step(q) ==
  \/ RemoteHit(q) \/ RemoteMiss(q) \/ LockReply(q) \/ LockError(q) \/ GiveUpPolling(q)
  \/ ComputeReturns(q) \/ ComputeThrows(q) \/ SetReply(q) \/ SetError(q)

Next ==
  /\ UNCHANGED setting
  /\ \/ \E q \in Callers : Start(q) \/ Step(q)
     \/ \E x \in late : RunLate(x)
     \/ LockExpires \/ EntryExpires
     \/ \E p \in Processes : Crash(p)

Spec == Init /\ [][Next]_vars

\* Every Redis command answers or times out (withTimeout), the engine call of a
\* computation ends (EnginePool, EveryRequestAnswered), a poll loop is bounded
\* and Redis expires a lock.
FairSpec ==
  /\ Spec
  /\ \A q \in Callers : WF_vars(Step(q) /\ UNCHANGED setting)
  /\ WF_vars(LockExpires /\ UNCHANGED setting)

-----------------------------------------------------------------------------
\* Coalescing: a process never loads the key twice at the same time.
OneLoadPerProcess ==
  Coalesce => \A q, s \in Callers :
    pc[q] \in Loading /\ pc[s] \in Loading /\ ProcessOf[q] = ProcessOf[s] => q = s

\* The promise offered to later callers is always one that will still settle,
\* and every waiting caller waits for such a promise of its own process.
SharesLiveLoad ==
  /\ \A p \in Processes : inflight[p] # Nobody =>
       pc[inflight[p]] \in Loading /\ ProcessOf[inflight[p]] = p
  /\ \A q \in Callers : pc[q] = "wait" =>
       pc[leader[q]] \in Loading /\ ProcessOf[leader[q]] = ProcessOf[q]

\* Concurrent calls for the key are coalesced: one load, and all wait for it.
Coalesced == OneLoadPerProcess /\ SharesLiveLoad

\* Remote failures fail open: a call fails only because the computation it made
\* or shared threw, never because of Redis.
FailsOnlyByCompute ==
  \A q \in Callers : pc[q] = "failed" => leader[q] \in threw

\* Stampede protection: with the lock on, Redis up, computations that succeed
\* and end before the lock does, no two processes compute the key at once.
NoStampede ==
  UseLock /\ ~RedisFails /\ ~ComputeFails /\ ComputeWithinLock /\ ~ProcessesCrash =>
    \A q, s \in Callers :
      pc[q] \in {"compute", "set"} /\ pc[s] \in {"compute", "set"} => q = s

\* Every call ends: neither a dead lock holder, a lost Redis reply nor a leader
\* that throws leaves a caller waiting for ever.
EveryCallReturns ==
  \A q \in Callers : pc[q] \notin Ended \union {"idle"} ~> pc[q] \in Ended
=============================================================================
