-------------------------- MODULE RouteCacheProofs --------------------------
(***************************************************************************)
(* The route cache for any calls, processes and settings: a process loads  *)
(* the key once at a time and shares only loads that still run, a call     *)
(* fails only by its computation, and in the calm setting nobody computes  *)
(* beside the holder of the lock.                                          *)
(***************************************************************************)
EXTENDS RouteCache, TLAPS

Places == Loading \union Ended \union {"idle", "wait"}

RedisTypes ==
  /\ lock \in Callers \union {Nobody}
  /\ late \subseteq {"lock", "set"} \X Callers

Types ==
  /\ RedisTypes
  /\ inflight \in [Processes -> Callers \union {Nobody}]
  /\ pc \in [Callers -> Places]
  /\ leader \in [Callers -> Callers]
  /\ saw \in [Callers -> Callers \union {Nobody}]

\* Where calls are coalesced a load is found in the map of its process ...
LoadsOffered == Coalesce => \A q \in Callers : pc[q] \in Loading => inflight[ProcessOf[q]] = q

\* ... the map holds nothing else ...
OffersLoad == \A p \in Processes : inflight[p] # Nobody =>
                Coalesce /\ pc[inflight[p]] \in Loading /\ ProcessOf[inflight[p]] = p

\* ... who waits, waits for a load of its process, and who does not, leads itself.
WaitsShare == \A q \in Callers : pc[q] = "wait" =>
                pc[leader[q]] \in Loading /\ ProcessOf[leader[q]] = ProcessOf[q]
LeadsItself == \A q \in Callers : pc[q] \in Loading \union {"idle"} => leader[q] = q

Sharing == Types /\ LoadsOffered /\ OffersLoad /\ WaitsShare /\ LeadsItself /\ FailsOnlyByCompute

\* The setting in which the lock promises that nobody computes beside its holder.
Calm == UseLock /\ ~RedisFails /\ ~ComputeFails /\ ComputeWithinLock /\ ~ProcessesCrash

\* The holder of the lock is the one that computes, and a poller sees the lock it
\* polls on until the value is there.
LockIsWork ==
  Calm =>
    /\ late = {}
    /\ \A q \in Callers : pc[q] \in {"compute", "set"} <=> lock = q
    /\ \A q \in Callers : pc[q] = "poll" => saw[q] # Nobody /\ (lock = saw[q] \/ entry)

Inv == Sharing /\ LockIsWork

-----------------------------------------------------------------------------
\* A load that goes on to its next command stays what its process shares.
LEMMA GoOnKeepsSharing ==
  ASSUME Sharing, NEW q \in Callers, pc[q] \in Loading, NEW to \in Loading, GoOn(q, to),
         UNCHANGED setting, RedisTypes',
         saw' \in [Callers -> Callers \union {Nobody}]
  PROVE  Sharing'
<1>1. pc' = [pc EXCEPT ![q] = to] /\ UNCHANGED <<setting, inflight, leader, threw>>
  BY DEF GoOn
<1>2. Types'
  BY <1>1 DEF Sharing, Types, Places
<1>3. \A f \in Callers : /\ pc'[f] \in Loading <=> pc[f] \in Loading
                         /\ f # q => pc'[f] = pc[f]
                         /\ pc'[q] \in Loading
  BY <1>1 DEF Sharing, Types
<1>4. LoadsOffered'
  BY <1>1, <1>3 DEF Sharing, LoadsOffered, Coalesce
<1>5. OffersLoad'
  BY <1>1, <1>3 DEF Sharing, OffersLoad, Types, Coalesce
<1>6. "wait" \notin Loading /\ "failed" \notin Loading /\ "idle" \notin Loading
  BY DEF Loading
<1>7. WaitsShare'
  BY <1>1, <1>3, <1>6 DEF Sharing, WaitsShare, Types
<1>8. LeadsItself'
  BY <1>1, <1>3, <1>6 DEF Sharing, LeadsItself, Types
<1>9. FailsOnlyByCompute'
  BY <1>1, <1>3, <1>6 DEF Sharing, FailsOnlyByCompute, Types
<1> QED BY <1>2, <1>4, <1>5, <1>7, <1>8, <1>9 DEF Sharing

\* A load that ends takes its followers with it and leaves the map clean.
LEMMA FinishKeepsSharing ==
  ASSUME Sharing, NEW q \in Callers, pc[q] \in Loading, NEW outcome \in {"done", "failed"},
         NEW fromStore, Finish(q, outcome, fromStore), UNCHANGED setting,
         RedisTypes', threw \subseteq threw', outcome = "failed" => q \in threw'
  PROVE  Sharing'
<1>1. /\ \A f \in Callers : pc'[f] = IF f = q \/ (pc[f] = "wait" /\ leader[f] = q)
                                       THEN outcome ELSE pc[f]
      /\ inflight' = IF Coalesce THEN [inflight EXCEPT ![ProcessOf[q]] = Nobody] ELSE inflight
      /\ UNCHANGED <<setting, leader, saw>>
  BY DEF Finish, PcAfter, Following, InflightAfter
<1>2. pc' \in [Callers -> Places]
  <2>1. pc' = [f \in Callers |-> IF f = q \/ f \in Following(q) THEN outcome ELSE pc[f]]
    BY DEF Finish, PcAfter
  <2> QED BY <2>1 DEF Sharing, Types, Places, Ended
<1>3. Types'
  BY <1>1, <1>2, CacheAssumption DEF Sharing, Types
<1>4. outcome \notin Loading /\ outcome # "wait" /\ outcome # "idle" /\ "wait" \notin Loading
  BY DEF Loading
<1>5. \A f \in Callers : pc'[f] \in Loading => f # q /\ pc[f] \in Loading
  BY <1>1, <1>4
<1>6. \A f \in Callers : f # q /\ pc[f] \in Loading => pc'[f] = pc[f]
  BY <1>1, <1>4
<1>7. LoadsOffered'
  <2> SUFFICES ASSUME Coalesce, NEW f \in Callers, f # q, pc[f] \in Loading
               PROVE  inflight'[ProcessOf[f]] = f
    BY <1>1, <1>5 DEF LoadsOffered, Coalesce
  <2>1. inflight[ProcessOf[f]] = f /\ inflight[ProcessOf[q]] = q
    BY DEF Sharing, LoadsOffered
  <2>2. ProcessOf[f] # ProcessOf[q]
    BY <2>1
  <2> QED BY <1>1, <2>1, <2>2, CacheAssumption DEF Sharing, Types
<1>8. OffersLoad'
  <2> SUFFICES ASSUME NEW p \in Processes, inflight'[p] # Nobody
               PROVE  Coalesce /\ pc'[inflight'[p]] \in Loading /\ ProcessOf[inflight'[p]] = p
    BY <1>1 DEF OffersLoad, Coalesce
  <2>1. inflight'[p] = inflight[p] /\ inflight[p] \in Callers
    BY <1>1, CacheAssumption DEF Sharing, Types
  <2>2. Coalesce /\ pc[inflight[p]] \in Loading /\ ProcessOf[inflight[p]] = p
    BY <2>1 DEF Sharing, OffersLoad
  <2>3. p # ProcessOf[q]
    BY <1>1, <2>2, CacheAssumption DEF Sharing, Types
  <2> QED BY <1>6, <2>1, <2>2, <2>3
<1>9. WaitsShare'
  <2> SUFFICES ASSUME NEW f \in Callers, pc'[f] = "wait"
               PROVE  pc'[leader[f]] \in Loading /\ ProcessOf[leader[f]] = ProcessOf[f]
    BY <1>1 DEF WaitsShare
  <2>1. pc[f] = "wait" /\ leader[f] # q /\ leader[f] \in Callers
    BY <1>1, <1>4 DEF Sharing, Types
  <2> QED BY <1>6, <2>1 DEF Sharing, WaitsShare
<1>10. LeadsItself'
  BY <1>1, <1>4, <1>5 DEF Sharing, LeadsItself
<1>11. FailsOnlyByCompute'
  <2> SUFFICES ASSUME NEW f \in Callers, pc'[f] = "failed"
               PROVE  leader[f] \in threw'
    BY <1>1 DEF FailsOnlyByCompute
  <2>1. CASE f = q
    BY <1>1, <2>1 DEF Sharing, LeadsItself
  <2>2. CASE f # q /\ pc[f] = "wait" /\ leader[f] = q
    BY <1>1, <2>2
  <2>3. CASE f # q /\ ~(pc[f] = "wait" /\ leader[f] = q)
    BY <1>1, <2>3 DEF Sharing, FailsOnlyByCompute
  <2> QED BY <2>1, <2>2, <2>3
<1> QED BY <1>3, <1>7, <1>8, <1>9, <1>10, <1>11 DEF Sharing

\* A call comes, and joins the load of its process or starts one.
LEMMA StartKeepsSharing ==
  ASSUME Sharing, NEW q \in Callers, Start(q), UNCHANGED setting
  PROVE  Sharing'
<1>1. pc[q] = "idle" /\ UNCHANGED <<setting, lock, late, saw, threw>>
  BY DEF Start, redisVars
<1>2. CASE PendingFor(q) # Nobody
  <2>1. /\ Coalesce /\ PendingFor(q) = inflight[ProcessOf[q]]
        /\ pc' = [pc EXCEPT ![q] = "wait"]
        /\ leader' = [leader EXCEPT ![q] = inflight[ProcessOf[q]]]
        /\ UNCHANGED inflight
    BY <1>2 DEF Start, PendingFor
  <2> DEFINE l == inflight[ProcessOf[q]]
  <2>2. /\ ProcessOf[q] \in Processes /\ l \in Callers
        /\ pc[l] \in Loading /\ ProcessOf[l] = ProcessOf[q] /\ l # q
    BY <1>1, <1>2, <2>1, CacheAssumption DEF Sharing, Types, OffersLoad, Loading
  <2>3. Types'
    BY <1>1, <2>1, <2>2 DEF Sharing, Types, RedisTypes, Places
  <2>4. "wait" \notin Loading \union {"idle"} /\ "idle" \notin Loading
    BY DEF Loading
  <2>5. \A f \in Callers : /\ pc'[f] \in Loading <=> pc[f] \in Loading
                           /\ f # q => pc'[f] = pc[f] /\ leader'[f] = leader[f]
                           /\ pc'[q] = "wait" /\ leader'[q] = l
    BY <1>1, <2>1, <2>2, <2>4 DEF Sharing, Types
  <2>6. LoadsOffered' /\ OffersLoad'
    BY <1>1, <2>1, <2>5 DEF Sharing, LoadsOffered, OffersLoad, Types, Coalesce
  <2>7. WaitsShare'
    <3> SUFFICES ASSUME NEW f \in Callers, pc'[f] = "wait"
                 PROVE  pc'[leader'[f]] \in Loading /\ ProcessOf[leader'[f]] = ProcessOf[f]
      BY DEF WaitsShare
    <3>1. CASE f = q
      BY <2>2, <2>5, <3>1
    <3>2. CASE f # q
      BY <2>5, <3>2 DEF Sharing, WaitsShare, Types
    <3> QED BY <3>1, <3>2
  <2>8. LeadsItself' /\ FailsOnlyByCompute'
    BY <1>1, <2>4, <2>5 DEF Sharing, LeadsItself, FailsOnlyByCompute
  <2> QED BY <2>3, <2>6, <2>7, <2>8 DEF Sharing
<1>3. CASE PendingFor(q) = Nobody
  <2>1. /\ pc' = [pc EXCEPT ![q] = "get"] /\ UNCHANGED leader
        /\ inflight' = IF Coalesce THEN [inflight EXCEPT ![ProcessOf[q]] = q] ELSE inflight
        /\ Coalesce => inflight[ProcessOf[q]] = Nobody
    BY <1>3 DEF Start, PendingFor
  <2>2. Types'
    BY <1>1, <2>1, CacheAssumption DEF Sharing, Types, RedisTypes, Places, Loading
  <2>3. "get" \in Loading /\ "get" # "wait" /\ "wait" \notin Loading /\ "idle" \notin Loading
    BY DEF Loading
  <2>4. pc'[q] = "get" /\ \A f \in Callers : f # q => pc'[f] = pc[f]
    BY <2>1 DEF Sharing, Types
  <2>5. LoadsOffered'
    <3> SUFFICES ASSUME Coalesce, NEW f \in Callers, pc'[f] \in Loading
                 PROVE  inflight'[ProcessOf[f]] = f
      BY <1>1 DEF LoadsOffered, Coalesce
    <3>1. CASE f = q
      BY <2>1, <3>1, CacheAssumption DEF Sharing, Types
    <3>2. CASE f # q
      <4>1. inflight[ProcessOf[f]] = f /\ ProcessOf[f] # ProcessOf[q]
        BY <2>1, <2>4, <3>2, CacheAssumption DEF Sharing, LoadsOffered
      <4> QED BY <2>1, <4>1, CacheAssumption DEF Sharing, Types
    <3> QED BY <3>1, <3>2
  <2>6. OffersLoad'
    <3> SUFFICES ASSUME NEW p \in Processes, inflight'[p] # Nobody
                 PROVE  Coalesce /\ pc'[inflight'[p]] \in Loading /\ ProcessOf[inflight'[p]] = p
      BY <1>1 DEF OffersLoad, Coalesce
    <3>1. CASE Coalesce /\ p = ProcessOf[q]
      BY <2>1, <2>3, <2>4, <3>1, CacheAssumption DEF Sharing, Types
    <3>2. CASE ~(Coalesce /\ p = ProcessOf[q])
      <4>1. inflight'[p] = inflight[p] /\ inflight[p] \in Callers
        BY <2>1, <3>2, CacheAssumption DEF Sharing, Types
      <4>2. Coalesce /\ pc[inflight[p]] \in Loading /\ ProcessOf[inflight[p]] = p
        BY <4>1 DEF Sharing, OffersLoad
      <4>3. inflight[p] # q
        BY <1>1, <2>3, <4>2
      <4> QED BY <2>4, <4>1, <4>2, <4>3
    <3> QED BY <3>1, <3>2
  <2>7. WaitsShare'
    BY <1>1, <2>1, <2>3, <2>4 DEF Sharing, WaitsShare, Types
  <2>8. LeadsItself' /\ FailsOnlyByCompute'
    BY <1>1, <2>1, <2>3, <2>4 DEF Sharing, LeadsItself, FailsOnlyByCompute
  <2> QED BY <2>2, <2>5, <2>6, <2>7, <2>8 DEF Sharing
<1> QED BY <1>2, <1>3

\* A process dies with everything that waits for it.
LEMMA CrashKeepsSharing ==
  ASSUME Sharing, NEW p \in Processes, Crash(p), UNCHANGED setting
  PROVE  Sharing'
<1>1. /\ pc' = [q \in Callers |-> IF ProcessOf[q] = p /\ pc[q] \notin Ended \union {"idle"}
                                    THEN "lost" ELSE pc[q]]
      /\ inflight' = [inflight EXCEPT ![p] = Nobody]
      /\ UNCHANGED <<setting, lock, late, leader, saw, threw>>
  BY DEF Crash, redisVars
<1>2. Types'
  BY <1>1 DEF Sharing, Types, RedisTypes, Places, Ended
<1>3. /\ "lost" \notin Loading \union {"idle", "wait", "failed"}
      /\ "wait" \notin Ended \union {"idle"}
      /\ \A x \in Loading : x \notin Ended \union {"idle"}
  BY DEF Loading, Ended
<1>4. \A q \in Callers : /\ pc'[q] = pc[q] \/ pc'[q] = "lost"
                         /\ pc'[q] \in Loading \union {"wait"} => ProcessOf[q] # p
                         /\ ProcessOf[q] # p => pc'[q] = pc[q]
  BY <1>1, <1>3
<1>5. LoadsOffered'
  <2> SUFFICES ASSUME Coalesce, NEW q \in Callers, pc'[q] \in Loading
               PROVE  inflight'[ProcessOf[q]] = q
    BY <1>1 DEF LoadsOffered, Coalesce
  <2>1. ProcessOf[q] # p /\ inflight[ProcessOf[q]] = q
    BY <1>4 DEF Sharing, LoadsOffered
  <2> QED BY <1>1, <2>1, CacheAssumption DEF Sharing, Types
<1>6. OffersLoad'
  <2> SUFFICES ASSUME NEW r \in Processes, inflight'[r] # Nobody
               PROVE  Coalesce /\ pc'[inflight'[r]] \in Loading /\ ProcessOf[inflight'[r]] = r
    BY <1>1 DEF OffersLoad, Coalesce
  <2>1. r # p /\ inflight'[r] = inflight[r] /\ inflight[r] \in Callers
    BY <1>1 DEF Sharing, Types
  <2> QED BY <1>4, <2>1 DEF Sharing, OffersLoad
<1>7. WaitsShare'
  <2> SUFFICES ASSUME NEW q \in Callers, pc'[q] = "wait"
               PROVE  pc'[leader[q]] \in Loading /\ ProcessOf[leader[q]] = ProcessOf[q]
    BY <1>1 DEF WaitsShare
  <2>1. pc[q] = "wait" /\ ProcessOf[q] # p /\ leader[q] \in Callers
    BY <1>3, <1>4 DEF Sharing, Types
  <2> QED BY <1>4, <2>1 DEF Sharing, WaitsShare
<1>8. LeadsItself' /\ FailsOnlyByCompute'
  BY <1>1, <1>3, <1>4 DEF Sharing, LeadsItself, FailsOnlyByCompute
<1> QED BY <1>2, <1>5, <1>6, <1>7, <1>8 DEF Sharing

\* What only concerns Redis leaves the callers alone.
LEMMA RedisKeepsSharing ==
  ASSUME Sharing, UNCHANGED <<setting, inflight, pc, leader, saw, threw>>,
         RedisTypes'
  PROVE  Sharing'
<1>1. Types'
  BY DEF Sharing, Types
<1> QED BY <1>1 DEF Sharing, LoadsOffered, OffersLoad, WaitsShare, LeadsItself, FailsOnlyByCompute, Coalesce

-----------------------------------------------------------------------------
LEMMA InitInv == Init => Inv
<1> SUFFICES ASSUME Init PROVE Inv
  OBVIOUS
<1>1. pc = [q \in Callers |-> "idle"] /\ leader = [q \in Callers |-> q] /\ lock = Nobody /\ late = {}
      /\ inflight = [p \in Processes |-> Nobody] /\ saw = [q \in Callers |-> Nobody] /\ entry = FALSE
  BY DEF Init
<1>2. "idle" \notin Loading \union {"wait", "failed", "compute", "set", "poll"}
  BY DEF Loading
<1>3. Types
  BY <1>1 DEF Types, RedisTypes, Places
<1>4. LoadsOffered /\ OffersLoad /\ WaitsShare /\ LeadsItself /\ FailsOnlyByCompute
  BY <1>1, <1>2 DEF LoadsOffered, OffersLoad, WaitsShare, LeadsItself, FailsOnlyByCompute
<1>5. LockIsWork
  BY <1>1, <1>2, CacheAssumption DEF LockIsWork
<1> QED BY <1>3, <1>4, <1>5 DEF Inv, Sharing

\* Every step keeps the sharing invariants.
LEMMA StepKeepsSharing ==
  ASSUME Sharing, Next PROVE Sharing'
<1> USE DEF redisVars
<1>0. UNCHANGED setting /\ RedisTypes
  BY DEF Next, Sharing, Types
<1>a. "get" \in Loading /\ "lock" \in Loading /\ "poll" \in Loading /\ "compute" \in Loading /\ "set" \in Loading
  BY DEF Loading
<1>1. ASSUME NEW q \in Callers, Start(q) PROVE Sharing'
  BY <1>0, <1>1, StartKeepsSharing
<1>2. ASSUME NEW q \in Callers, RemoteHit(q) PROVE Sharing'
  <2>1. Finish(q, "done", TRUE) /\ pc[q] \in Loading /\ UNCHANGED <<lock, late, threw>>
    BY <1>2, <1>a DEF RemoteHit
  <2> QED BY <1>0, <2>1, FinishKeepsSharing DEF RedisTypes
<1>3. ASSUME NEW q \in Callers, RemoteMiss(q) PROVE Sharing'
  <2>1. PICK to \in {"lock", "compute"} : GoOn(q, to)
    BY <1>3 DEF RemoteMiss
  <2>2. pc[q] \in Loading /\ to \in Loading /\ RedisTypes' /\ saw' \in [Callers -> Callers \union {Nobody}]
    BY <1>0, <1>3, <1>a DEF RemoteMiss, RedisTypes, Sharing, Types
  <2> QED BY <1>0, <2>1, <2>2, GoOnKeepsSharing
<1>4. ASSUME NEW q \in Callers, LockReply(q) PROVE Sharing'
  <2>1. PICK to \in {"compute", "poll"} : GoOn(q, to)
    BY <1>4 DEF LockReply
  <2>2. pc[q] \in Loading /\ to \in Loading /\ RedisTypes'
    BY <1>0, <1>4, <1>a DEF LockReply, RedisTypes
  <2>3. saw' \in [Callers -> Callers \union {Nobody}]
    BY <1>0, <1>4 DEF LockReply, Sharing, Types, RedisTypes
  <2> QED BY <1>0, <2>1, <2>2, <2>3, GoOnKeepsSharing
<1>5. ASSUME NEW q \in Callers, LockError(q) PROVE Sharing'
  <2>1. GoOn(q, "compute") /\ pc[q] \in Loading /\ saw' \in [Callers -> Callers \union {Nobody}]
    BY <1>5, <1>a DEF LockError, Sharing, Types
  <2>2. RedisTypes'
    BY <1>0, <1>5 DEF LockError, RedisTypes
  <2> QED BY <1>0, <1>a, <2>1, <2>2, GoOnKeepsSharing
<1>6. ASSUME NEW q \in Callers, GiveUpPolling(q) PROVE Sharing'
  <2>1. GoOn(q, "compute") /\ pc[q] \in Loading /\ RedisTypes' /\ saw' \in [Callers -> Callers \union {Nobody}]
    BY <1>0, <1>6, <1>a DEF GiveUpPolling, PollEnds, RedisTypes, Sharing, Types
  <2> QED BY <1>0, <1>a, <2>1, GoOnKeepsSharing
<1>7. ASSUME NEW q \in Callers, ComputeReturns(q) PROVE Sharing'
  <2>1. GoOn(q, "set") /\ pc[q] \in Loading /\ RedisTypes' /\ saw' \in [Callers -> Callers \union {Nobody}]
    BY <1>0, <1>7, <1>a DEF ComputeReturns, RedisTypes, Sharing, Types
  <2> QED BY <1>0, <1>a, <2>1, GoOnKeepsSharing
<1>8. ASSUME NEW q \in Callers, ComputeThrows(q) PROVE Sharing'
  <2>1. Finish(q, "failed", FALSE) /\ pc[q] \in Loading /\ RedisTypes' /\ threw' = threw \union {q}
    BY <1>0, <1>8, <1>a DEF ComputeThrows, RedisTypes
  <2> QED BY <1>0, <2>1, FinishKeepsSharing
<1>9. ASSUME NEW q \in Callers, SetReply(q) PROVE Sharing'
  <2>1. Finish(q, "done", FALSE) /\ pc[q] \in Loading /\ RedisTypes' /\ UNCHANGED threw
    BY <1>0, <1>9, <1>a DEF SetReply, Store, RedisTypes
  <2> QED BY <1>0, <2>1, FinishKeepsSharing
<1>10. ASSUME NEW q \in Callers, SetError(q) PROVE Sharing'
  <2>1. Finish(q, "done", FALSE) /\ pc[q] \in Loading /\ UNCHANGED threw
    BY <1>10, <1>a DEF SetError, SetErrorOutcome
  <2>2. RedisTypes'
    BY <1>0, <1>10 DEF SetError, Store, RedisTypes
  <2> QED BY <1>0, <2>1, <2>2, FinishKeepsSharing
<1>11. ASSUME NEW x \in late, RunLate(x) PROVE Sharing'
  <2>1. x[2] \in Callers /\ UNCHANGED <<inflight, pc, leader, saw, threw>>
    BY <1>0, <1>11 DEF RunLate, RedisTypes
  <2>2. RedisTypes'
    BY <1>0, <1>11, <2>1 DEF RunLate, Store, RedisTypes
  <2> QED BY <1>0, <2>1, <2>2, RedisKeepsSharing
<1>12. ASSUME LockExpires \/ EntryExpires PROVE Sharing'
  <2>1. UNCHANGED <<inflight, pc, leader, saw, threw>> /\ RedisTypes'
    BY <1>0, <1>12 DEF LockExpires, EntryExpires, RedisTypes
  <2> QED BY <1>0, <2>1, RedisKeepsSharing
<1>13. ASSUME NEW p \in Processes, Crash(p) PROVE Sharing'
  BY <1>0, <1>13, CrashKeepsSharing
<1> QED
  BY <1>1, <1>2, <1>3, <1>4, <1>5, <1>6, <1>7, <1>8, <1>9, <1>10, <1>11, <1>12, <1>13 DEF Next, Step

\* In the calm setting every step leaves the lock with whoever computes.
LEMMA StepKeepsLock ==
  ASSUME Sharing, LockIsWork, Next PROVE LockIsWork'
<1> USE DEF redisVars
<1>0. UNCHANGED setting /\ RedisTypes /\ pc \in [Callers -> Places] /\ saw \in [Callers -> Callers \union {Nobody}]
  BY DEF Next, Sharing, Types
<1> SUFFICES ASSUME Calm PROVE LockIsWork'
  BY <1>0 DEF LockIsWork, Calm, UseLock, RedisFails, ComputeFails, ComputeWithinLock, ProcessesCrash
<1>a. /\ UseLock /\ ~RedisFails /\ ~ComputeFails /\ ComputeWithinLock /\ ~ProcessesCrash
      /\ late = {}
      /\ \A q \in Callers : pc[q] \in {"compute", "set"} <=> lock = q
      /\ \A q \in Callers : pc[q] = "poll" => saw[q] # Nobody /\ (lock = saw[q] \/ entry)
  BY DEF LockIsWork, Calm
<1>1. ASSUME NEW q \in Callers, Start(q) PROVE LockIsWork'
  <2>1. /\ pc[q] = "idle" /\ UNCHANGED <<lock, late, saw, entry>>
        /\ pc' = [pc EXCEPT ![q] = "wait"] \/ pc' = [pc EXCEPT ![q] = "get"]
    BY <1>1 DEF Start
  <2> QED BY <1>0, <1>a, <2>1 DEF LockIsWork
<1>2. ASSUME NEW q \in Callers, RemoteHit(q) PROVE LockIsWork'
  <2>1. /\ pc[q] \in {"get", "poll"} /\ UNCHANGED <<lock, late, saw, entry>>
        /\ \A f \in Callers : pc'[f] = IF f = q \/ (pc[f] = "wait" /\ leader[f] = q) THEN "done" ELSE pc[f]
    BY <1>2 DEF RemoteHit, Finish, PcAfter, Following
  <2> QED BY <1>0, <1>a, <2>1 DEF LockIsWork
<1>3. ASSUME NEW q \in Callers, RemoteMiss(q) PROVE LockIsWork'
  <2>1. pc[q] = "get" /\ pc' = [pc EXCEPT ![q] = "lock"] /\ UNCHANGED <<lock, late, saw, entry>>
    BY <1>3, <1>a DEF RemoteMiss, GoOn
  <2> QED BY <1>0, <1>a, <2>1 DEF LockIsWork
<1>4. ASSUME NEW q \in Callers, LockReply(q) PROVE LockIsWork'
  <2>1. pc[q] = "lock" /\ UNCHANGED <<late, entry>>
    BY <1>4 DEF LockReply
  <2>2. CASE lock = Nobody
    <3>1. lock' = q /\ pc' = [pc EXCEPT ![q] = "compute"] /\ UNCHANGED saw
      BY <1>4, <2>2 DEF LockReply, GoOn
    <3>2. \A f \in Callers : pc[f] \notin {"compute", "set"} /\ (pc[f] = "poll" => entry)
      BY <1>a, <2>2, CacheAssumption
    <3> QED BY <1>0, <1>a, <2>1, <3>1, <3>2 DEF LockIsWork
  <2>3. CASE lock # Nobody
    <3>1. pc' = [pc EXCEPT ![q] = "poll"] /\ saw' = [saw EXCEPT ![q] = lock] /\ UNCHANGED lock
      BY <1>4, <2>3 DEF LockReply, GoOn
    <3> QED BY <1>0, <1>a, <2>1, <2>3, <3>1 DEF LockIsWork
  <2> QED BY <2>2, <2>3
<1>5. ASSUME NEW q \in Callers, LockError(q) \/ ComputeThrows(q) \/ SetError(q) PROVE LockIsWork'
  BY <1>5, <1>a DEF LockError, ComputeThrows, SetError
<1>6. ASSUME NEW q \in Callers, GiveUpPolling(q) PROVE LockIsWork'
  BY <1>6, <1>a DEF GiveUpPolling, PollEnds
<1>7. ASSUME NEW q \in Callers, ComputeReturns(q) PROVE LockIsWork'
  <2>1. pc[q] = "compute" /\ pc' = [pc EXCEPT ![q] = "set"] /\ UNCHANGED <<lock, late, saw, entry>>
    BY <1>7 DEF ComputeReturns, GoOn
  <2> QED BY <1>0, <1>a, <2>1 DEF LockIsWork
<1>8. ASSUME NEW q \in Callers, SetReply(q) PROVE LockIsWork'
  <2>1. /\ pc[q] = "set" /\ lock' = Nobody /\ entry' = TRUE /\ UNCHANGED <<late, saw>>
        /\ \A f \in Callers : pc'[f] = IF f = q \/ (pc[f] = "wait" /\ leader[f] = q) THEN "done" ELSE pc[f]
    BY <1>8 DEF SetReply, Store, Finish, PcAfter, Following
  <2> QED BY <1>0, <1>a, <2>1, CacheAssumption DEF LockIsWork
<1>9. ASSUME NEW x \in late, RunLate(x) PROVE LockIsWork'
  BY <1>9, <1>a
<1>10. ASSUME LockExpires PROVE LockIsWork'
  BY <1>0, <1>10, <1>a DEF LockExpires, RedisTypes
<1>11. ASSUME EntryExpires PROVE LockIsWork'
  BY <1>0, <1>11, <1>a DEF EntryExpires, LockIsWork
<1>12. ASSUME NEW p \in Processes, Crash(p) PROVE LockIsWork'
  BY <1>12, <1>a DEF Crash
<1> QED
  BY <1>0, <1>1, <1>2, <1>3, <1>4, <1>5, <1>6, <1>7, <1>8, <1>9, <1>10, <1>11, <1>12
  DEF Next, Step

LEMMA Invariance == Spec => []Inv
<1>1. Inv /\ UNCHANGED vars => Inv'
  <2> SUFFICES ASSUME Inv, UNCHANGED vars PROVE Inv'
    OBVIOUS
  <2>1. Sharing'
    BY RedisKeepsSharing DEF Inv, Sharing, Types, RedisTypes, vars
  <2>2. LockIsWork'
    BY DEF Inv, LockIsWork, Calm, UseLock, RedisFails, ComputeFails, ComputeWithinLock, ProcessesCrash, vars
  <2> QED BY <2>1, <2>2 DEF Inv
<1>2. Inv /\ Next => Inv'
  BY StepKeepsSharing, StepKeepsLock DEF Inv
<1> QED BY InitInv, <1>1, <1>2, PTL DEF Spec

\* In-process coalescing (routeCache.ts:117-138) is right for any number of calls
\* and processes: one load of the key per process at a time, and nobody waits for a
\* load that no longer runs.
THEOREM LoadsAreCoalesced == Spec => []Coalesced
<1>1. Inv => Coalesced
  <2> SUFFICES ASSUME Inv PROVE Coalesced
    OBVIOUS
  <2>1. OneLoadPerProcess
    BY DEF Inv, Sharing, LoadsOffered, OneLoadPerProcess
  <2>2. SharesLiveLoad
    BY DEF Inv, Sharing, OffersLoad, WaitsShare, SharesLiveLoad
  <2> QED BY <2>1, <2>2 DEF Coalesced
<1> QED BY <1>1, Invariance, PTL

\* Remote failures fail open (routeCache.ts:55-77): whatever Redis does, a call fails
\* only because the computation that it made or shared threw.
THEOREM RemoteFailsOpen == Spec => []FailsOnlyByCompute
<1>1. Inv => FailsOnlyByCompute
  BY DEF Inv, Sharing
<1> QED BY <1>1, Invariance, PTL

\* Stampede protection (routeCache.ts:85-105): with the lock on, Redis up, and
\* computations that succeed and end before the lock does, at most one call of any
\* number of processes computes the key.
THEOREM LockPreventsStampede == Spec => []NoStampede
<1>1. Inv => NoStampede
  BY DEF Inv, LockIsWork, Calm, NoStampede
<1> QED BY <1>1, Invariance, PTL
=============================================================================
