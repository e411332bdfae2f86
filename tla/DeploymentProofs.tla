-------------------------- MODULE DeploymentProofs --------------------------
(***************************************************************************)
(* The deployment, for any number of processes, warmers, lanes, engines    *)
(* and planned queries: the lock of the warmers lets one of an identity    *)
(* run at a time; the lanes of a warmer warm every planned query once;     *)
(* a process renders only results of its own timetable.                    *)
(***************************************************************************)
EXTENDS Deployment, TLAPS, FiniteSetTheorems

-----------------------------------------------------------------------------
(* 1. The lock. *)

Holding == {"warming", "unlocking", "deleting"}

\* A warmer's record has the fields, and one that got past the wait has an engine's identity.
Shaped(r) == /\ "st" \in DOMAIN r /\ "id" \in DOMAIN r
             /\ r.st \in Holding \cup {"locking"} => r.id \in Identities

\* A warmer that runs has the lock of its identity, as long as its lease is long
\* enough and Redis has lost nothing.
LockIsHeld == LocksKept => \A w \in Warmers : Holds(w) => lock[warmer[w].id] = w

LockInv ==
  /\ warmer = [w \in Warmers |-> warmer[w]] /\ \A w \in Warmers : Shaped(warmer[w])
  /\ DOMAIN lock = Identities
  /\ engine \in [Workers -> Identities \cup {Down}]
  /\ LockIsHeld

-----------------------------------------------------------------------------
LEMMA InitLockInv == Init => LockInv
<1> SUFFICES ASSUME NEW c \in Casts, WarmerInit(c.warmers, c.lanes), lock = NoLocks,
                    engine \in c.engines
             PROVE  LockInv
  BY DEF Init, BackendsInit
<1>1. \A lanes : /\ Shaped(NewWarmer(lanes)) /\ NewWarmer(lanes).st = "creating"
                 /\ Shaped(Exited(NewWarmer(lanes), Nothing)) /\ Exited(NewWarmer(lanes), Nothing).st = "exited"
  BY DEF NewWarmer, Exited, Shaped, Holding
<1>2. warmer = [w \in Warmers |-> IF w \in c.warmers THEN NewWarmer(c.lanes)
                                                    ELSE Exited(NewWarmer(c.lanes), Nothing)]
  BY DEF WarmerInit
<1>3. \A w \in Warmers : Shaped(warmer[w]) /\ ~Holds(w)
  BY <1>1, <1>2 DEF Holds
<1>4. engine \in [Workers -> Identities \cup {Down}]
  BY DeploymentAssumption
<1> QED BY <1>2, <1>3, <1>4 DEF LockInv, LockIsHeld, NoLocks

\* A step of warmer w, after which it is r, is safe if it takes no lock that another
\* warmer needs, and if r has the lock of its identity in case it runs.
LEMMA TurnKeepsLock ==
  ASSUME LockInv, NEW w \in Warmers, NEW r, Turn(w, r), Shaped(r),
         UNCHANGED <<engine, flushed, lease>>, DOMAIN lock' = Identities,
         LocksKept => \A v \in Warmers \ {w} : Holds(v) => lock'[warmer[v].id] = v,
         LocksKept /\ r.st \in Holding => lock'[r.id] = w
  PROVE  LockInv'
<1>1. /\ warmer' = [v \in Warmers |-> warmer'[v]]
      /\ warmer'[w] = r /\ \A v \in Warmers \ {w} : warmer'[v] = warmer[v]
  BY DEF LockInv, Turn
<1>2. \A v \in Warmers : Shaped(warmer'[v])
  BY <1>1 DEF LockInv
<1>3. LockIsHeld'
  BY <1>1 DEF LockInv, LockIsHeld, LocksKept, Holds, Holding
<1>4. \A v \in Warmers : Shaped(warmer[v])'
  BY <1>2 DEF Shaped
<1> QED BY <1>1, <1>3, <1>4 DEF LockInv

\* A step that leaves the locks, after which the warmer runs only if it ran before
\* under the same identity.
LEMMA RunningOnKeepsLock ==
  ASSUME LockInv, NEW w \in Warmers, NEW r, Turn(w, r), Shaped(r), UNCHANGED <<engine, lock, flushed, lease>>,
         r.st \in Holding => Holds(w) /\ r.id = warmer[w].id
  PROVE  LockInv'
<1>1. LocksKept => \A v \in Warmers : Holds(v) => lock'[warmer[v].id] = v
  BY DEF LockInv, LockIsHeld
<1>2. LocksKept /\ r.st \in Holding => lock'[r.id] = w
  BY <1>1
<1> QED BY <1>1, <1>2, TurnKeepsLock DEF LockInv

-----------------------------------------------------------------------------
\* A warmer that ends, whatever its exit code.
LEMMA ExitedShape ==
  ASSUME LockInv, NEW w \in Warmers, NEW code
  PROVE  Shaped(Exited(warmer[w], code)) /\ Exited(warmer[w], code).st = "exited"
BY DEF LockInv, Exited, Shaped, Holding

LEMMA ConnectKeepsLock ==
  ASSUME LockInv, NEW w \in Warmers, Connect(w)
  PROVE  LockInv'
<1>1. UNCHANGED <<engine, lock, flushed, lease>>
  BY DEF Connect, backendVars
<1>2. PICK e \in Running(Workers) :
        Turn(w, IF Fits(engine[e]) THEN [warmer[w] EXCEPT !.st = "locking", !.id = engine[e]]
                                   ELSE Exited(warmer[w], 1))
  BY DEF Connect
<1>3. engine[e] \in Identities
  BY <1>2 DEF Running, LockInv
<1> DEFINE r == [warmer[w] EXCEPT !.st = "locking", !.id = engine[e]]
<1>4. CASE Fits(engine[e])
  <2>1. Turn(w, r)
    BY <1>2, <1>4
  <2>2. Shaped(r) /\ r.st = "locking"
    BY <1>3 DEF LockInv, Shaped
  <2> HIDE DEF r
  <2> QED BY <1>1, <2>1, <2>2, RunningOnKeepsLock DEF Holding
<1>5. CASE ~Fits(engine[e])
  BY <1>1, <1>2, <1>5, ExitedShape, RunningOnKeepsLock DEF Holding
<1> QED BY <1>4, <1>5

LEMMA BeginWaitKeepsLock ==
  ASSUME LockInv, NEW w \in Warmers, BeginWait(w)
  PROVE  LockInv'
<1> DEFINE r == [warmer[w] EXCEPT !.st = "waiting"]
<1>1. UNCHANGED <<engine, lock, flushed, lease>> /\ Turn(w, IF redis = "none" THEN Exited(warmer[w], 1) ELSE r)
  BY DEF BeginWait, backendVars
<1>2. Shaped(r) /\ r.st = "waiting"
  BY DEF LockInv, Shaped, Holding
<1> HIDE DEF r
<1>3. CASE redis = "none"
  BY <1>1, <1>3, ExitedShape, RunningOnKeepsLock DEF Holding
<1>4. CASE redis # "none"
  BY <1>1, <1>2, <1>4, RunningOnKeepsLock DEF Holding
<1> QED BY <1>3, <1>4

LEMMA GiveUpKeepsLock ==
  ASSUME LockInv, NEW w \in Warmers, GiveUp(w)
  PROVE  LockInv'
<1>1. UNCHANGED <<engine, lock, flushed, lease>> /\ Turn(w, Exited(warmer[w], 1))
  BY DEF GiveUp, backendVars
<1> QED BY <1>1, ExitedShape, RunningOnKeepsLock DEF Holding

\* SET NX takes a lock nobody has: no warmer that runs loses its own.
LEMMA TryLockKeepsLock ==
  ASSUME LockInv, NEW w \in Warmers, TryLock(w)
  PROVE  LockInv'
<1> DEFINE i == warmer[w].id
<1>1. /\ warmer[w].st = "locking" /\ UNCHANGED <<engine, flushed, lease>> /\ Shaped(warmer[w])
      /\ i \in Identities
  BY DEF TryLock, LockInv, Shaped
<1>2. CASE lock[i] = Nothing
  <2>1. PICK r \in {StartLanes(warmer[w]), Unplanned(warmer[w])} :
          lock' = [lock EXCEPT ![i] = w] /\ Turn(w, r)
    BY <1>2 DEF TryLock
  <2>2. Shaped(r) /\ r.st \in {"warming", "unlocking"} /\ r.id = i
    <3>1. CASE r = StartLanes(warmer[w])
      BY <1>1, <3>1 DEF StartLanes, Shaped
    <3>2. CASE r = Unplanned(warmer[w])
      BY <1>1, <3>2 DEF Unplanned, Shaped
    <3> QED BY <3>1, <3>2
  <2>3. DOMAIN lock' = Identities /\ lock'[r.id] = w
    BY <1>1, <2>1, <2>2 DEF LockInv
  <2>4. ASSUME LocksKept, NEW v \in Warmers, Holds(v) PROVE lock'[warmer[v].id] = v
    <3>1. lock[warmer[v].id] = v /\ warmer[v].id \in Identities
      BY <2>4 DEF LockInv, LockIsHeld, Holds, Shaped, Holding
    <3>2. warmer[v].id # i
      BY <1>2, <3>1, DeploymentAssumption
    <3> QED BY <2>1, <3>1, <3>2 DEF LockInv
  <2> QED BY <1>1, <2>1, <2>2, <2>3, <2>4, TurnKeepsLock
<1>3. CASE lock[i] # Nothing
  <2>1. UNCHANGED lock /\ Turn(w, Exited(warmer[w], 0))
    BY <1>3 DEF TryLock
  <2> QED BY <1>1, <2>1, ExitedShape, RunningOnKeepsLock DEF Holding
<1> QED BY <1>2, <1>3

\* The same when only the reply is lost.
LEMMA LockReplyLostKeepsLock ==
  ASSUME LockInv, NEW w \in Warmers, LockReplyLost(w)
  PROVE  LockInv'
<1> DEFINE r == Exited(warmer[w], 1)
           i == warmer[w].id
<1>1. /\ UNCHANGED <<engine, flushed, lease>> /\ Turn(w, r) /\ i \in Identities
      /\ lock' = lock \/ lock' = [lock EXCEPT ![i] = IF @ = Nothing THEN w ELSE @]
  BY DEF LockReplyLost, LockInv, Shaped
<1>2. Shaped(r) /\ r.st = "exited"
  BY ExitedShape
<1> HIDE DEF r
<1>3. DOMAIN lock' = Identities /\ \A j \in Identities : lock[j] # Nothing => lock'[j] = lock[j]
  BY <1>1 DEF LockInv
<1>4. ASSUME LocksKept, NEW v \in Warmers, Holds(v) PROVE lock'[warmer[v].id] = v
  <2>1. lock[warmer[v].id] = v /\ warmer[v].id \in Identities /\ v # Nothing
    BY <1>4, DeploymentAssumption DEF LockInv, LockIsHeld, Holds, Shaped, Holding
  <2> QED BY <1>3, <2>1
<1> QED BY <1>1, <1>2, <1>3, <1>4, TurnKeepsLock DEF Holding

-----------------------------------------------------------------------------
\* The lanes change neither where the warmer is nor its identity.
LEMMA CountedKeepsLock ==
  ASSUME LockInv, NEW w \in Warmers, NEW l, NEW stat \in {"computed", "cached", "failed"},
         Busy(w, l), Counted(w, l, stat), UNCHANGED <<engine, lock, flushed, lease>>
  PROVE  LockInv'
<1> DEFINE r == [warmer[w] EXCEPT ![stat] = @ + 1]
           n == TakeNext(r, l)
<1>1. Shaped(r) /\ r.st = warmer[w].st /\ r.id = warmer[w].id
  BY DEF LockInv, Shaped
<1> HIDE DEF r
<1>2. Shaped(n) /\ n.st = r.st /\ n.id = r.id
  BY <1>1 DEF TakeNext, Shaped
<1>3. Turn(w, n)
  BY DEF Counted, r
<1> HIDE DEF n
<1> QED BY <1>1, <1>2, <1>3, RunningOnKeepsLock DEF Busy, Holds

LEMMA WarmStepKeepsLock ==
  ASSUME LockInv, NEW w \in Warmers, WarmStep(w)
  PROVE  LockInv'
<1>1. CASE Finish(w)
  <2> DEFINE code == IF warmer[w].failed > 0 /\ warmer[w].failed = Size THEN 1 ELSE 0
             r == [warmer[w] EXCEPT !.st = "unlocking", !.code = code]
  <2>1. UNCHANGED <<engine, lock, flushed, lease>> /\ Turn(w, r) /\ Holds(w)
    BY <1>1 DEF Finish, Finished, Holds, backendVars
  <2>2. Shaped(r) /\ r.id = warmer[w].id
    BY <2>1 DEF LockInv, Shaped, Holds, Holding
  <2> HIDE DEF r
  <2> QED BY <2>1, <2>2, RunningOnKeepsLock
<1>2. ASSUME NEW l \in Laned(w), WarmHit(w, l) \/ WarmComputed(w, l) \/ WarmFails(w, l)
      PROVE  LockInv'
  <2>1. Busy(w, l) /\ UNCHANGED <<engine, lock, flushed, lease>>
    BY <1>2 DEF WarmHit, WarmComputed, WarmFails, backendVars
  <2>2. Counted(w, l, "cached") \/ Counted(w, l, "computed") \/ Counted(w, l, "failed")
    BY <1>2 DEF WarmHit, WarmComputed, WarmFails
  <2> QED BY <2>1, <2>2, CountedKeepsLock
<1> QED BY <1>1, <1>2 DEF WarmStep

\* unlock deletes what its GET found: meanwhile nobody else can have taken the lock.
LEMMA UnlockStepKeepsLock ==
  ASSUME LockInv, NEW w \in Warmers, UnlockStep(w)
  PROVE  LockInv'
<1>1. Shaped(warmer[w]) /\ (warmer[w].st \in {"unlocking", "deleting"} => Holds(w) /\ warmer[w].id \in Identities)
  BY DEF LockInv, Shaped, Holds, Holding
<1>2. CASE UnlockGet(w)
  <2> DEFINE s == IF lock[warmer[w].id] = w THEN "deleting" ELSE "exited"
             r == [warmer[w] EXCEPT !.st = s]
  <2>1. UNCHANGED <<engine, lock, flushed, lease>> /\ Turn(w, r) /\ Holds(w) /\ warmer[w].id \in Identities
    BY <1>1, <1>2 DEF UnlockGet, backendVars
  <2>2. Shaped(r) /\ r.id = warmer[w].id
    BY <1>1, <2>1 DEF Shaped
  <2> HIDE DEF r
  <2> QED BY <2>1, <2>2, RunningOnKeepsLock
<1> DEFINE x == [warmer[w] EXCEPT !.st = "exited"]
<1>3. Shaped(x) /\ x.st = "exited"
  BY <1>1 DEF Shaped, Holding
<1>4. CASE UnlockDel(w)
  <2>1. /\ lock' = [lock EXCEPT ![warmer[w].id] = Nothing] /\ Turn(w, x)
        /\ UNCHANGED <<engine, flushed, lease>> /\ Holds(w) /\ warmer[w].id \in Identities
    BY <1>1, <1>4 DEF UnlockDel
  <2> HIDE DEF x
  <2>2. DOMAIN lock' = Identities
    BY <2>1 DEF LockInv
  <2>3. ASSUME LocksKept, NEW v \in Warmers \ {w}, Holds(v) PROVE lock'[warmer[v].id] = v
    <3>1. lock[warmer[v].id] = v /\ warmer[v].id \in Identities /\ lock[warmer[w].id] = w
      BY <2>1, <2>3 DEF LockInv, LockIsHeld, Holds, Shaped, Holding
    <3> QED BY <2>1, <3>1 DEF LockInv
  <2> QED BY <1>3, <2>1, <2>2, <2>3, TurnKeepsLock DEF Holding
<1>5. CASE UnlockFails(w)
  <2>1. UNCHANGED <<engine, lock, flushed, lease>> /\ Turn(w, x)
    BY <1>5 DEF UnlockFails, backendVars
  <2> HIDE DEF x
  <2> QED BY <1>3, <2>1, RunningOnKeepsLock DEF Holding
<1> QED BY <1>2, <1>4, <1>5 DEF UnlockStep

LEMMA KillKeepsLock ==
  ASSUME LockInv, NEW w \in Warmers, Kill(w)
  PROVE  LockInv'
<1>1. UNCHANGED <<engine, lock, flushed, lease>> /\ Turn(w, Exited(warmer[w], Nothing))
  BY DEF Kill
<1> QED BY <1>1, ExitedShape, RunningOnKeepsLock DEF Holding

-----------------------------------------------------------------------------
\* A step of something else that leaves the warmers and the locks that are held.
LEMMA OthersKeepLock ==
  ASSUME LockInv, UNCHANGED warmer, DOMAIN lock' = Identities,
         engine' \in [Workers -> Identities \cup {Down}],
         LocksKept' => LocksKept /\ \A v \in Warmers : Holds(v) => lock'[warmer[v].id] = lock[warmer[v].id]
  PROVE  LockInv'
BY DEF LockInv, LockIsHeld, Holds, Shaped

LEMMA ExpireKeepsLock ==
  ASSUME LockInv, NEW i \in Identities, Expire(i)
  PROVE  LockInv'
<1>1. UNCHANGED <<engine, flushed, warmer, lease>> /\ lock' = [lock EXCEPT ![i] = Nothing] /\ (lease => ~Holds(lock[i]))
  BY DEF Expire, warmerVars
<1>2. DOMAIN lock' = Identities /\ engine' \in [Workers -> Identities \cup {Down}]
  BY <1>1 DEF LockInv
<1>3. ASSUME LocksKept' PROVE LocksKept /\ \A v \in Warmers : Holds(v) => lock'[warmer[v].id] = lock[warmer[v].id]
  <2>1. LocksKept
    BY <1>1, <1>3 DEF LocksKept
  <2>2. ASSUME NEW v \in Warmers, Holds(v) PROVE lock'[warmer[v].id] = lock[warmer[v].id]
    <3>1. lock[warmer[v].id] = v /\ warmer[v].id \in Identities
      BY <2>1, <2>2 DEF LockInv, LockIsHeld, Holds, Shaped, Holding
    <3>2. warmer[v].id # i
      BY <1>1, <2>1, <2>2, <3>1 DEF LocksKept
    <3> QED BY <1>1, <3>1, <3>2 DEF LockInv
  <2> QED BY <2>1, <2>2
<1> QED BY <1>1, <1>2, <1>3, OthersKeepLock

LEMMA BackendsKeepLock ==
  ASSUME LockInv, BackendsChange, UNCHANGED warmerVars
  PROVE  LockInv'
<1>1. UNCHANGED <<warmer, lease>>
  BY DEF warmerVars
<1>2. CASE Flush
  <2>1. DOMAIN lock' = Identities /\ ~LocksKept' /\ UNCHANGED engine
    BY <1>2 DEF Flush, Emptied, NoLocks, LocksKept
  <2> QED BY <1>1, <2>1, OthersKeepLock DEF LockInv
<1>3. ASSUME NEW e \in Workers, Redeploy(e) PROVE LockInv'
  <2>1. UNCHANGED <<lock, flushed>> /\ engine' \in [Workers -> Identities \cup {Down}]
    BY <1>3 DEF Redeploy, LockInv
  <2> QED BY <1>1, <2>1, OthersKeepLock DEF LockInv, LocksKept
<1>4. ASSUME NEW ws \in SUBSET Workers, Register(ws) PROVE LockInv'
  <2>1. UNCHANGED <<lock, flushed, engine>>
    BY <1>4 DEF Register
  <2> QED BY <1>1, <2>1, OthersKeepLock DEF LockInv, LocksKept
<1>5. CASE RedisGone
  <2>1. /\ UNCHANGED engine /\ DOMAIN lock' = Identities
        /\ ~LocksKept' \/ UNCHANGED <<lock, flushed>>
    BY <1>5 DEF RedisGone, Emptied, NoLocks, LocksKept, LockInv
  <2> QED BY <1>1, <2>1, OthersKeepLock DEF LockInv, LocksKept
<1>6. CASE RedisBack
  <2>1. UNCHANGED <<lock, flushed, engine>>
    BY <1>6 DEF RedisBack
  <2> QED BY <1>1, <2>1, OthersKeepLock DEF LockInv, LocksKept
<1> QED BY <1>2, <1>3, <1>4, <1>5, <1>6 DEF BackendsChange

\* The API processes touch neither the engines nor the locks.
LEMMA ServerLeavesLock ==
  ASSUME ServerNext
  PROVE  UNCHANGED <<engine, lock, flushed>>
<1>1. ASSUME NEW p \in Procs, ProcessStep(p) PROVE UNCHANGED <<engine, lock, flushed>>
  BY <1>1 DEF ProcessStep, Fork, Wire, StartUp, Refresh, Sync, Terminate, Exit, Crash, Receive, Refuse, Hit,
     Miss, Computed, Fails, backendVars
<1> QED BY <1>1 DEF ServerNext, Stop, PrimaryExit, backendVars

LEMMA NextKeepsLock ==
  ASSUME LockInv, [Next]_vars
  PROVE  LockInv'
<1>1. CASE BackendsChange /\ UNCHANGED <<serverVars, warmerVars>>
  BY <1>1, BackendsKeepLock
<1>2. CASE ServerNext /\ UNCHANGED warmerVars
  BY <1>2, ServerLeavesLock, OthersKeepLock DEF LockInv, warmerVars, LocksKept
<1>3. CASE WarmerNext
  <2>1. ASSUME NEW w \in Warmers,
               BeginWait(w) \/ Connect(w) \/ GiveUp(w) \/ TryLock(w) \/ LockReplyLost(w) \/ WarmStep(w)
                 \/ UnlockStep(w) \/ Kill(w)
        PROVE  LockInv'
    BY <2>1, BeginWaitKeepsLock, ConnectKeepsLock, GiveUpKeepsLock, TryLockKeepsLock, LockReplyLostKeepsLock, WarmStepKeepsLock,
       UnlockStepKeepsLock, KillKeepsLock
  <2> QED BY <1>3, <2>1, ExpireKeepsLock DEF WarmerNext
<1>4. CASE UNCHANGED vars
  BY <1>4, OthersKeepLock DEF LockInv, vars, backendVars, warmerVars, LocksKept
<1> QED BY <1>1, <1>2, <1>3, <1>4 DEF Next

(***************************************************************************)
(* However many warmers are started, killed or left without a reply, two   *)
(* of one identity never warm together while the lease outlives a run and  *)
(* Redis keeps the lock (warmer.ts:35-52, redisStore.ts:68-80).            *)
(***************************************************************************)
THEOREM OneWarmerAtATime == Spec => []OneWarmer
<1>1. Init => LockInv
  BY InitLockInv
<1>2. LockInv /\ [Next]_vars => LockInv'
  BY NextKeepsLock
<1>3. LockInv => OneWarmer
  BY DEF LockInv, LockIsHeld, OneWarmer
<1> QED BY <1>1, <1>2, <1>3, PTL DEF Spec

-----------------------------------------------------------------------------
(* 2. The books of a warmer.  WarmedOnce is about the end of a run; what     *)
(* every step keeps is that the queries before the cursor were taken once    *)
(* and the others not, that each of them is counted or in a lane, and that a *)
(* lane is done only when the cursor has passed the plan.                    *)

WarmerStates == {"creating", "waiting", "locking", "warming", "unlocking", "deleting", "exited"}
WarmerRecords(lanes) ==
  [st : WarmerStates, id : Identities \cup {Default}, next : 1..Size + 1,
   lane : [lanes -> 0..Size], computed : Nat, cached : Nat, failed : Nat,
   tries : [1..Size -> Nat], code : {0, 1, Nothing}]

BusyLanes(r) == {l \in DOMAIN r.lane : r.lane[l] # LaneDone}
WarmerRecord(r) == \E n \in Nat \ {0} : r \in WarmerRecords(1..n)
TakenOnce(r) == \A i \in 1..Size : r.tries[i] = IF i < r.next THEN 1 ELSE 0
AllCounted(r) == r.computed + r.cached + r.failed + Cardinality(BusyLanes(r)) = r.next - 1
CursorMoved(r) ==
  /\ r.st \in {"creating", "waiting", "locking"} => r.next = 1
  /\ r.st = "warming" => \A l \in DOMAIN r.lane : r.lane[l] = LaneDone => r.next = Size + 1
  /\ r.st \in {"unlocking", "deleting"} /\ r.next > 1 => r.next = Size + 1 /\ BusyLanes(r) = {}
Books(r) == WarmerRecord(r) /\ TakenOnce(r) /\ AllCounted(r) /\ CursorMoved(r)

BooksInv == warmer = [w \in Warmers |-> warmer[w]] /\ \A w \in Warmers : Books(warmer[w])

\* The plan has a length.
LEMMA SizeType == Size \in Nat
BY DeploymentAssumption DEF Size

\* The numbers of the busy lanes, and of none.
LEMMA BusyLanesFinite ==
  ASSUME NEW r, WarmerRecord(r)
  PROVE  IsFiniteSet(BusyLanes(r)) /\ Cardinality(BusyLanes(r)) \in Nat
<1>1. PICK n \in Nat \ {0} : DOMAIN r.lane = 1..n BY DEF WarmerRecord, WarmerRecords
<1>2. IsFiniteSet(1..n)
  <2>1. 1 \in Int /\ n \in Int BY <1>1
  <2> QED BY <2>1, FS_Interval
<1> QED BY <1>1, <1>2, FS_Subset, FS_CardinalityType DEF BusyLanes

\* A step that only moves the warmer on keeps the books.
LEMMA MovedBooks ==
  ASSUME NEW r, Books(r), NEW t, WarmerRecord(t), CursorMoved(t),
         t.next = r.next, t.tries = r.tries, t.lane = r.lane,
         t.computed = r.computed, t.cached = r.cached, t.failed = r.failed
  PROVE  Books(t)
BY DEF Books, TakenOnce, AllCounted, BusyLanes

LEMMA ExitedBooks ==
  ASSUME NEW r, Books(r), NEW code \in {0, 1, Nothing}
  PROVE  Books(Exited(r, code))
<1> DEFINE t == Exited(r, code)
<1>1. PICK n \in Nat \ {0} : r \in WarmerRecords(1..n) BY DEF Books, WarmerRecord
<1>2. /\ t \in WarmerRecords(1..n) /\ t.st = "exited"
      /\ t.next = r.next /\ t.tries = r.tries /\ t.lane = r.lane
      /\ t.computed = r.computed /\ t.cached = r.cached /\ t.failed = r.failed
  BY <1>1 DEF Exited, WarmerRecords, WarmerStates
<1> HIDE DEF t
<1>3. WarmerRecord(t) /\ CursorMoved(t) BY <1>1, <1>2 DEF WarmerRecord, CursorMoved
<1> QED BY <1>2, <1>3, MovedBooks DEF t

\* c is r with one more search in the stats.
OneMore(n, r, c) ==
  /\ c \in WarmerRecords(1..n)
  /\ c.st = r.st /\ c.next = r.next /\ c.tries = r.tries /\ c.lane = r.lane
  /\ c.computed + c.cached + c.failed = r.computed + r.cached + r.failed + 1

\* The end of a search is counted in one of the three stats.
LEMMA CountEffect ==
  ASSUME NEW n \in Nat \ {0}, NEW r \in WarmerRecords(1..n),
         NEW stat \in {"computed", "cached", "failed"}
  PROVE  OneMore(n, r, [r EXCEPT ![stat] = @ + 1])
<1> DEFINE c == [r EXCEPT ![stat] = @ + 1]
<1>1. r.computed \in Nat /\ r.cached \in Nat /\ r.failed \in Nat BY DEF WarmerRecords
<1>2. CASE stat = "computed"
  <2>1. c = [r EXCEPT !.computed = @ + 1] BY <1>2
  <2> HIDE DEF c
  <2>2. /\ c \in WarmerRecords(1..n)
        /\ c.st = r.st /\ c.next = r.next /\ c.tries = r.tries /\ c.lane = r.lane
        /\ c.computed = r.computed + 1 /\ c.cached = r.cached /\ c.failed = r.failed
    BY <1>1, <2>1, SMTT(20) DEF WarmerRecords
  <2>3. c.computed + c.cached + c.failed = r.computed + r.cached + r.failed + 1 BY <1>1, <2>2
  <2> QED BY <2>2, <2>3 DEF OneMore, c
<1>3. CASE stat = "cached"
  <2>1. c = [r EXCEPT !.cached = @ + 1] BY <1>3
  <2> HIDE DEF c
  <2>2. /\ c \in WarmerRecords(1..n)
        /\ c.st = r.st /\ c.next = r.next /\ c.tries = r.tries /\ c.lane = r.lane
        /\ c.computed = r.computed /\ c.cached = r.cached + 1 /\ c.failed = r.failed
    BY <1>1, <2>1, SMTT(20) DEF WarmerRecords
  <2>3. c.computed + c.cached + c.failed = r.computed + r.cached + r.failed + 1 BY <1>1, <2>2
  <2> QED BY <2>2, <2>3 DEF OneMore, c
<1>4. CASE stat = "failed"
  <2>1. c = [r EXCEPT !.failed = @ + 1] BY <1>4
  <2> HIDE DEF c
  <2>2. /\ c \in WarmerRecords(1..n)
        /\ c.st = r.st /\ c.next = r.next /\ c.tries = r.tries /\ c.lane = r.lane
        /\ c.computed = r.computed /\ c.cached = r.cached /\ c.failed = r.failed + 1
    BY <1>1, <2>1, SMTT(20) DEF WarmerRecords
  <2>3. c.computed + c.cached + c.failed = r.computed + r.cached + r.failed + 1 BY <1>1, <2>2
  <2> QED BY <2>2, <2>3 DEF OneMore, c
<1> QED BY <1>2, <1>3, <1>4

\* A lane takes the query at the cursor, or is done.
LEMMA TakeNextEffect ==
  ASSUME NEW n \in Nat \ {0}, NEW c \in WarmerRecords(1..n), NEW l \in 1..n
  PROVE  LET t == TakeNext(c, l)
         IN  /\ t \in WarmerRecords(1..n) /\ t.st = c.st
             /\ t.computed = c.computed /\ t.cached = c.cached /\ t.failed = c.failed
             /\ IF c.next <= Size
                THEN /\ t.lane = [c.lane EXCEPT ![l] = c.next] /\ t.next = c.next + 1
                     /\ t.tries = [c.tries EXCEPT ![c.next] = @ + 1]
                ELSE /\ t.lane = [c.lane EXCEPT ![l] = LaneDone]
                     /\ t.next = c.next /\ t.tries = c.tries
<1> DEFINE t == TakeNext(c, l)
<1>1. /\ Size \in Nat /\ c.next \in 1..Size + 1 /\ c.lane \in [1..n -> 0..Size]
      /\ c.tries \in [1..Size -> Nat]
  BY SizeType DEF WarmerRecords
<1>2. CASE c.next <= Size
  <2> DEFINE lane == [c.lane EXCEPT ![l] = c.next]
             tries == [c.tries EXCEPT ![c.next] = @ + 1]
  <2>1. c.next \in 0..Size /\ c.next + 1 \in 1..Size + 1 BY <1>1, <1>2
  <2>2. lane \in [1..n -> 0..Size] BY <1>1, <2>1
  <2>3. tries \in [1..Size -> Nat]
    <3>1. c.next \in 1..Size /\ c.tries[c.next] + 1 \in Nat BY <1>1, <1>2, SMTT(20)
    <3> QED BY <1>1, <3>1
  <2>4. t = [st |-> c.st, id |-> c.id, next |-> c.next + 1, lane |-> lane,
             computed |-> c.computed, cached |-> c.cached, failed |-> c.failed,
             tries |-> tries, code |-> c.code]
    BY <1>2 DEF TakeNext, WarmerRecords
  <2> HIDE DEF lane, tries, t
  <2>5. t \in WarmerRecords(1..n) BY <2>1, <2>2, <2>3, <2>4 DEF WarmerRecords
  <2> QED BY <1>2, <2>4, <2>5 DEF lane, tries, t
<1>3. CASE ~(c.next <= Size)
  <2> DEFINE lane == [c.lane EXCEPT ![l] = LaneDone]
  <2>1. lane \in [1..n -> 0..Size] BY <1>1 DEF LaneDone
  <2>2. t = [st |-> c.st, id |-> c.id, next |-> c.next, lane |-> lane,
             computed |-> c.computed, cached |-> c.cached, failed |-> c.failed,
             tries |-> c.tries, code |-> c.code]
    BY <1>3 DEF TakeNext, WarmerRecords
  <2> HIDE DEF lane, t
  <2>3. t \in WarmerRecords(1..n) BY <2>1, <2>2 DEF WarmerRecords
  <2> QED BY <1>3, <2>2, <2>3 DEF lane, t
<1> QED BY <1>2, <1>3

\* A lane's search ended: its query is counted, and the lane takes the next one
\* or is done.
LEMMA CountedBooks ==
  ASSUME NEW r, Books(r), r.st = "warming", NEW l \in DOMAIN r.lane, r.lane[l] # LaneDone,
         NEW stat \in {"computed", "cached", "failed"}
  PROVE  Books(TakeNext([r EXCEPT ![stat] = @ + 1], l))
<1> DEFINE c == [r EXCEPT ![stat] = @ + 1]
           t == TakeNext(c, l)
<1>1. PICK n \in Nat \ {0} : r \in WarmerRecords(1..n) BY DEF Books, WarmerRecord
<1>2. /\ c \in WarmerRecords(1..n) /\ c.st = "warming"
      /\ c.next = r.next /\ c.tries = r.tries /\ c.lane = r.lane
      /\ c.computed + c.cached + c.failed = r.computed + r.cached + r.failed + 1
  <2>1. OneMore(n, r, c) BY <1>1, CountEffect
  <2> HIDE DEF c
  <2> QED BY <2>1 DEF OneMore
<1>3. /\ Size \in Nat /\ r.next \in 1..Size + 1 /\ l \in 1..n /\ r.lane \in [1..n -> 0..Size]
      /\ r.tries \in [1..Size -> Nat]
      /\ r.computed + r.cached + r.failed \in Nat
  BY <1>1, SizeType, SMTT(20) DEF WarmerRecords
<1>4. IsFiniteSet(BusyLanes(r)) /\ Cardinality(BusyLanes(r)) \in Nat
  BY BusyLanesFinite DEF Books
<1>5. r.computed + r.cached + r.failed + Cardinality(BusyLanes(r)) = r.next - 1
  BY DEF Books, AllCounted
<1>6. \A i \in 1..Size : r.tries[i] = IF i < r.next THEN 1 ELSE 0
  BY DEF Books, TakenOnce
<1> HIDE DEF c
<1>7. /\ t \in WarmerRecords(1..n) /\ t.st = c.st
      /\ t.computed = c.computed /\ t.cached = c.cached /\ t.failed = c.failed
      /\ IF c.next <= Size
         THEN /\ t.lane = [c.lane EXCEPT ![l] = c.next] /\ t.next = c.next + 1
              /\ t.tries = [c.tries EXCEPT ![c.next] = @ + 1]
         ELSE /\ t.lane = [c.lane EXCEPT ![l] = LaneDone]
              /\ t.next = c.next /\ t.tries = c.tries
  BY <1>2, <1>3, TakeNextEffect
<1> HIDE DEF t
<1>8. /\ t.st = "warming"
       /\ t.computed + t.cached + t.failed = r.computed + r.cached + r.failed + 1
  BY <1>2, <1>7
<1>9. CASE r.next <= Size
  <2>0. /\ r.next \in 1..Size /\ r.next # 0
        /\ t.lane = [r.lane EXCEPT ![l] = r.next] /\ t.next = r.next + 1
        /\ t.tries = [r.tries EXCEPT ![r.next] = @ + 1]
    BY <1>2, <1>3, <1>7, <1>9
  <2>1. BusyLanes(t) = BusyLanes(r)
    <3>1. DOMAIN t.lane = DOMAIN r.lane BY <2>0, <1>3
    <3>2. \A k \in DOMAIN r.lane : t.lane[k] # LaneDone <=> r.lane[k] # LaneDone
      BY <1>3, <2>0 DEF LaneDone
    <3> QED BY <3>1, <3>2 DEF BusyLanes
  <2>2. TakenOnce(t)
    <3> SUFFICES ASSUME NEW i \in 1..Size PROVE t.tries[i] = IF i < r.next + 1 THEN 1 ELSE 0
      BY <2>0 DEF TakenOnce
    <3>1. r.tries[i] = IF i < r.next THEN 1 ELSE 0 BY <1>6
    <3>2. t.tries[i] = IF i = r.next THEN r.tries[i] + 1 ELSE r.tries[i] BY <1>3, <2>0
    <3> QED BY <1>3, <3>1, <3>2
  <2>3. AllCounted(t)
    <3> DEFINE x == r.computed + r.cached + r.failed
               y == Cardinality(BusyLanes(r))
    <3>1. t.computed + t.cached + t.failed + Cardinality(BusyLanes(t)) = (x + 1) + y
      BY <1>8, <2>1
    <3>2. x \in Nat /\ y \in Nat /\ x + y = r.next - 1 BY <1>3, <1>4, <1>5
    <3> HIDE DEF x, y
    <3>3. r.next \in Int BY <1>3
    <3>4. (x + 1) + y = (r.next + 1) - 1 BY <3>2, <3>3
    <3> QED BY <2>0, <3>1, <3>4 DEF AllCounted
  <2>4. CursorMoved(t)
    <3>1. \A k \in DOMAIN r.lane : r.lane[k] # LaneDone
      BY <1>3, <2>0 DEF Books, CursorMoved
    <3>2. \A k \in DOMAIN t.lane : t.lane[k] # LaneDone
      BY <1>3, <2>0, <3>1 DEF LaneDone
    <3> QED BY <1>8, <3>2 DEF CursorMoved
  <2> QED BY <1>7, <2>2, <2>3, <2>4 DEF Books, WarmerRecord, c, t
<1>10. CASE ~(r.next <= Size)
  <2>0. /\ t.lane = [r.lane EXCEPT ![l] = LaneDone]
        /\ t.next = r.next /\ t.tries = r.tries /\ r.next = Size + 1
    BY <1>2, <1>3, <1>7, <1>10
  <2>1. BusyLanes(t) = BusyLanes(r) \ {l} /\ l \in BusyLanes(r)
    BY <1>3, <2>0 DEF BusyLanes
  <2>2. Cardinality(BusyLanes(t)) = Cardinality(BusyLanes(r)) - 1
    BY <1>4, <2>1, FS_RemoveElement
  <2>3. TakenOnce(t) BY <1>6, <2>0 DEF TakenOnce
  <2>4. AllCounted(t)
    <3> DEFINE x == r.computed + r.cached + r.failed
               y == Cardinality(BusyLanes(r))
    <3>1. t.computed + t.cached + t.failed + Cardinality(BusyLanes(t)) = (x + 1) + (y - 1)
      BY <1>8, <2>2
    <3>2. x \in Nat /\ y \in Nat /\ x + y = r.next - 1 BY <1>3, <1>4, <1>5
    <3> HIDE DEF x, y
    <3>3. (x + 1) + (y - 1) = r.next - 1 BY <3>2
    <3> QED BY <2>0, <3>1, <3>3 DEF AllCounted
  <2>5. CursorMoved(t)
    BY <1>8, <2>0 DEF CursorMoved
  <2> QED BY <1>7, <2>3, <2>4, <2>5 DEF Books, WarmerRecord, c, t
<1> QED BY <1>9, <1>10

-----------------------------------------------------------------------------
\* A warmer that has not begun has empty books.
LEMMA NewBooks ==
  ASSUME NEW n \in Nat \ {0}
  PROVE  Books(NewWarmer(1..n)) /\ NewWarmer(1..n).st = "creating"
<1> DEFINE r == NewWarmer(1..n)
<1>1. Size \in Nat /\ 1 \in 1..Size + 1 BY SizeType
<1>2. /\ r \in WarmerRecords(1..n) /\ r.st = "creating" /\ r.next = 1
      /\ r.computed = 0 /\ r.cached = 0 /\ r.failed = 0
      /\ r.lane = [l \in 1..n |-> LaneDone] /\ r.tries = [i \in 1..Size |-> 0]
  BY <1>1 DEF NewWarmer, WarmerRecords, WarmerStates, LaneDone
<1> HIDE DEF r
<1>3. BusyLanes(r) = {} BY <1>2 DEF BusyLanes
<1>4. AllCounted(r) BY <1>2, <1>3, FS_EmptySet DEF AllCounted
<1>5. TakenOnce(r) BY <1>1, <1>2 DEF TakenOnce
<1>6. CursorMoved(r) BY <1>2 DEF CursorMoved
<1> QED BY <1>2, <1>4, <1>5, <1>6 DEF Books, WarmerRecord, r

\* Who has the lock starts its lanes: the first ones take a query each.
LEMMA StartedBooks ==
  ASSUME NEW r, Books(r), r.st = "locking"
  PROVE  Books(StartLanes(r))
<1> DEFINE taken == {l \in DOMAIN r.lane : l <= Size}
           t == StartLanes(r)
<1>1. PICK n \in Nat \ {0} : r \in WarmerRecords(1..n) BY DEF Books, WarmerRecord
<1> DEFINE m == IF n <= Size THEN n ELSE Size
<1>2. /\ Size \in Nat /\ DOMAIN r.lane = 1..n /\ m \in Nat /\ m <= Size /\ m + 1 \in 1..Size + 1
      /\ r.computed \in Nat /\ r.cached \in Nat /\ r.failed \in Nat
  BY <1>1, SizeType DEF WarmerRecords
<1>3. taken = 1..m BY <1>2
<1>4. Cardinality(taken) = m /\ IsFiniteSet(taken)
  <2>1. 1 \in Int /\ m \in Int BY <1>2
  <2> HIDE DEF m, taken
  <2>2. IsFiniteSet(1..m) /\ Cardinality(1..m) = IF 1 > m THEN 0 ELSE m - 1 + 1 BY <2>1, FS_Interval
  <2>3. Cardinality(1..m) = m BY <1>2, <2>2
  <2> QED BY <1>3, <2>2, <2>3
<1>5. r.computed = 0 /\ r.cached = 0 /\ r.failed = 0
  <2>1. r.next = 1 BY DEF Books, CursorMoved
  <2>2. r.computed + r.cached + r.failed + Cardinality(BusyLanes(r)) = 0
    BY <2>1 DEF Books, AllCounted
  <2>3. Cardinality(BusyLanes(r)) \in Nat BY BusyLanesFinite DEF Books
  <2> QED BY <1>2, <2>2, <2>3, SMTT(20)
<1> HIDE DEF taken
<1> DEFINE lane == [l \in DOMAIN r.lane |-> IF l \in taken THEN l ELSE LaneDone]
           tries == [i \in 1..Size |-> IF i \in taken THEN 1 ELSE 0]
<1>6. t = [r EXCEPT !.st = "warming", !.next = m + 1, !.lane = lane, !.tries = tries]
  BY <1>4 DEF StartLanes, taken
<1> HIDE DEF m, t
<1>7. lane \in [1..n -> 0..Size] BY <1>2, <1>3 DEF LaneDone
<1>8. tries \in [1..Size -> Nat] OBVIOUS
<1> HIDE DEF lane, tries
<1>9. /\ t \in WarmerRecords(1..n) /\ t.st = "warming" /\ t.next = m + 1 /\ t.lane = lane /\ t.tries = tries
      /\ t.computed = 0 /\ t.cached = 0 /\ t.failed = 0
  BY <1>1, <1>2, <1>5, <1>6, <1>7, <1>8 DEF WarmerRecords, WarmerStates
<1>10. BusyLanes(t) = taken BY <1>2, <1>3, <1>9 DEF BusyLanes, LaneDone, lane, m
<1>11. AllCounted(t) BY <1>2, <1>4, <1>9, <1>10 DEF AllCounted
<1>12. TakenOnce(t)
  <2> SUFFICES ASSUME NEW i \in 1..Size PROVE tries[i] = IF i < m + 1 THEN 1 ELSE 0
    BY <1>9 DEF TakenOnce
  <2> QED BY <1>2, <1>3 DEF tries
<1>13. CursorMoved(t)
  <2>1. ASSUME NEW l \in 1..n, lane[l] = LaneDone PROVE m = Size
    <3>1. l \notin taken BY <1>2, <1>3, <2>1 DEF lane, LaneDone
    <3> QED BY <1>2, <1>3, <3>1 DEF m
  <2>2. DOMAIN t.lane = 1..n BY <1>7, <1>9
  <2> QED BY <1>9, <2>1, <2>2 DEF CursorMoved
<1> QED BY <1>9, <1>11, <1>12, <1>13 DEF Books, WarmerRecord, t

\* Other steps of a warmer set only where it is, its identity or its exit code.
LEMMA MovedOn ==
  ASSUME NEW r, Books(r), NEW st \in WarmerStates, NEW id \in Identities \cup {Default},
         NEW code \in {0, 1, Nothing},
         st \in {"creating", "waiting", "locking"} => r.next = 1,
         st # "warming",
         st \in {"unlocking", "deleting"} /\ r.next > 1 => r.next = Size + 1 /\ BusyLanes(r) = {}
  PROVE  Books([r EXCEPT !.st = st, !.id = id, !.code = code])
<1> DEFINE t == [r EXCEPT !.st = st, !.id = id, !.code = code]
<1>1. PICK n \in Nat \ {0} : r \in WarmerRecords(1..n) BY DEF Books, WarmerRecord
<1>2. /\ t \in WarmerRecords(1..n) /\ t.st = st
      /\ t.next = r.next /\ t.tries = r.tries /\ t.lane = r.lane
      /\ t.computed = r.computed /\ t.cached = r.cached /\ t.failed = r.failed
  BY <1>1 DEF WarmerRecords
<1> HIDE DEF t
<1>3. WarmerRecord(t) BY <1>2 DEF WarmerRecord
<1>4. CursorMoved(t) BY <1>2 DEF CursorMoved, BusyLanes
<1> QED BY <1>2, <1>3, <1>4, MovedBooks DEF t

\* Lanes that are all done have warmed the plan.
LEMMA DoneBooks ==
  ASSUME NEW r, Books(r), r.st = "warming", \A l \in DOMAIN r.lane : r.lane[l] = LaneDone
  PROVE  r.next = Size + 1 /\ BusyLanes(r) = {}
<1>1. PICK n \in Nat \ {0} : r \in WarmerRecords(1..n) BY DEF Books, WarmerRecord
<1>2. 1 \in DOMAIN r.lane BY <1>1 DEF WarmerRecords
<1> QED BY <1>2 DEF Books, CursorMoved, BusyLanes

-----------------------------------------------------------------------------
LEMMA InitBooks == Init => BooksInv
<1> SUFFICES ASSUME NEW c \in Casts, WarmerInit(c.warmers, c.lanes)
             PROVE  BooksInv
  BY DEF Init
<1>1. PICK n \in Nat \ {0} : c.lanes = 1..n
  <2>1. IsFiniteSet(c.lanes) /\ c.lanes # {} /\ c.lanes = 1..Cardinality(c.lanes)
    BY DeploymentAssumption
  <2>2. Cardinality(c.lanes) \in Nat /\ Cardinality(c.lanes) # 0
    BY <2>1, FS_CardinalityType, FS_EmptySet
  <2> QED BY <2>1, <2>2
<1>2. Books(NewWarmer(c.lanes)) /\ Books(Exited(NewWarmer(c.lanes), Nothing))
  BY <1>1, NewBooks, ExitedBooks
<1>3. warmer = [w \in Warmers |-> IF w \in c.warmers THEN NewWarmer(c.lanes)
                                                    ELSE Exited(NewWarmer(c.lanes), Nothing)]
  BY DEF WarmerInit
<1> QED BY <1>2, <1>3 DEF BooksInv

\* A warmer's step keeps the books if the record after it does.
LEMMA TurnBooks ==
  ASSUME BooksInv, NEW w \in Warmers, NEW r, Turn(w, r), Books(r)
  PROVE  BooksInv'
<1>1. /\ warmer' = [v \in Warmers |-> warmer'[v]]
      /\ warmer'[w] = r /\ \A v \in Warmers \ {w} : warmer'[v] = warmer[v]
  BY DEF BooksInv, Turn
<1>2. \A v \in Warmers : Books(warmer'[v]) BY <1>1 DEF BooksInv
<1>3. \A v \in Warmers : Books(warmer[v])'
  BY <1>2 DEF Books, WarmerRecord, TakenOnce, AllCounted, CursorMoved, BusyLanes
<1> QED BY <1>1, <1>3 DEF BooksInv

\* The waits for Redis and an engine, and their end.
LEMMA WaitBooks ==
  ASSUME BooksInv, engine \in [Workers -> Identities \cup {Down}], NEW w \in Warmers,
         BeginWait(w) \/ Connect(w) \/ GiveUp(w)
  PROVE  BooksInv'
<1> DEFINE r == warmer[w]
<1>1. Books(r) /\ r.st \in {"creating", "waiting"} BY DEF BooksInv, BeginWait, Connect, GiveUp
<1>2. Books(Exited(r, 1)) BY <1>1, ExitedBooks
<1>3. CASE GiveUp(w) BY <1>2, <1>3, TurnBooks DEF GiveUp
<1>4. CASE Connect(w)
  <2>1. PICK e \in Running(Workers) :
          Turn(w, IF Fits(engine[e]) THEN [r EXCEPT !.st = "locking", !.id = engine[e]] ELSE Exited(r, 1))
    BY <1>4 DEF Connect
  <2>2. engine[e] \in Identities BY <2>1 DEF Running
  <2> DEFINE t == [r EXCEPT !.st = "locking", !.id = engine[e]]
  <2>3. PICK n \in Nat \ {0} : r \in WarmerRecords(1..n) BY <1>1 DEF Books, WarmerRecord
  <2>4. Books(t)
    <3>1. r.code \in {0, 1, Nothing} /\ r.next = 1
      BY <1>1, <2>3 DEF WarmerRecords, Books, CursorMoved
    <3>2. t = [r EXCEPT !.st = "locking", !.id = engine[e], !.code = r.code]
      BY <2>3 DEF WarmerRecords
    <3>3. "locking" \in WarmerStates BY DEF WarmerStates
    <3> HIDE DEF t, r
    <3> QED BY <1>1, <2>2, <3>1, <3>2, <3>3, MovedOn
  <2> HIDE DEF t
  <2>5. CASE Fits(engine[e]) BY <2>1, <2>4, <2>5, TurnBooks DEF t
  <2>6. CASE ~Fits(engine[e]) BY <1>2, <2>1, <2>6, TurnBooks
  <2> QED BY <2>5, <2>6
<1>5. CASE BeginWait(w)
  <2> DEFINE t == [r EXCEPT !.st = "waiting"]
  <2>1. Turn(w, IF redis = "none" THEN Exited(r, 1) ELSE t) BY <1>5 DEF BeginWait
  <2>2. PICK n \in Nat \ {0} : r \in WarmerRecords(1..n) BY <1>1 DEF Books, WarmerRecord
  <2>3. Books(t)
    <3>1. r.id \in Identities \cup {Default} /\ r.code \in {0, 1, Nothing} /\ r.next = 1
      BY <1>1, <2>2 DEF WarmerRecords, Books, CursorMoved
    <3>2. t = [r EXCEPT !.st = "waiting", !.id = r.id, !.code = r.code]
      BY <2>2 DEF WarmerRecords
    <3>3. "waiting" \in WarmerStates BY DEF WarmerStates
    <3> HIDE DEF t, r
    <3> QED BY <1>1, <3>1, <3>2, <3>3, MovedOn
  <2> HIDE DEF t
  <2>4. CASE redis = "none" BY <1>2, <2>1, <2>4, TurnBooks
  <2>5. CASE redis # "none" BY <2>1, <2>3, <2>5, TurnBooks
  <2> QED BY <2>4, <2>5
<1> QED BY <1>3, <1>4, <1>5

\* The lock, taken or not.
LEMMA LockBooks ==
  ASSUME BooksInv, NEW w \in Warmers, TryLock(w) \/ LockReplyLost(w)
  PROVE  BooksInv'
<1> DEFINE r == warmer[w]
<1>1. Books(r) /\ r.st = "locking" BY DEF BooksInv, TryLock, LockReplyLost
<1>2. Books(Exited(r, 1)) /\ Books(Exited(r, 0)) BY <1>1, ExitedBooks
<1>3. Books(StartLanes(r)) BY <1>1, StartedBooks
<1>4. Books(Unplanned(r))
  <2>1. PICK n \in Nat \ {0} : r \in WarmerRecords(1..n) BY <1>1 DEF Books, WarmerRecord
  <2>2. r.id \in Identities \cup {Default} /\ r.next = 1
    BY <1>1, <2>1 DEF WarmerRecords, Books, CursorMoved
  <2>3. Unplanned(r) = [r EXCEPT !.st = "unlocking", !.id = r.id, !.code = 1]
    BY <2>1 DEF WarmerRecords, Unplanned
  <2>4. "unlocking" \in WarmerStates BY DEF WarmerStates
  <2>5. "unlocking" \notin {"creating", "waiting", "locking", "warming"} /\ ~(r.next > 1) BY <2>2
  <2> HIDE DEF r
  <2>6. Books([r EXCEPT !.st = "unlocking", !.id = r.id, !.code = 1])
    BY <1>1, <2>2, <2>4, <2>5, MovedOn
  <2> QED BY <2>3, <2>6
<1>5. \E t \in {StartLanes(r), Unplanned(r), Exited(r, 0), Exited(r, 1)} : Turn(w, t)
  BY DEF TryLock, LockReplyLost
<1> QED BY <1>2, <1>3, <1>4, <1>5, TurnBooks

\* The lanes' searches, and their end.
LEMMA WarmBooks ==
  ASSUME BooksInv, NEW w \in Warmers, WarmStep(w)
  PROVE  BooksInv'
<1> DEFINE r == warmer[w]
<1>1. Books(r) BY DEF BooksInv
<1>2. ASSUME NEW l \in Laned(w), WarmHit(w, l) \/ WarmComputed(w, l) \/ WarmFails(w, l)
      PROVE  BooksInv'
  <2>1. r.st = "warming" /\ l \in DOMAIN r.lane /\ r.lane[l] # LaneDone
    BY <1>2 DEF WarmHit, WarmComputed, WarmFails, Busy, Laned
  <2>2. PICK stat \in {"computed", "cached", "failed"} : Counted(w, l, stat)
    BY <1>2 DEF WarmHit, WarmComputed, WarmFails
  <2>3. Books(TakeNext([r EXCEPT ![stat] = @ + 1], l)) BY <1>1, <2>1, CountedBooks
  <2> QED BY <2>2, <2>3, TurnBooks DEF Counted
<1>3. CASE Finish(w)
  <2> DEFINE code == IF r.failed > 0 /\ r.failed = Size THEN 1 ELSE 0
             t == [r EXCEPT !.st = "unlocking", !.code = code]
  <2>1. r.st = "warming" /\ (\A l \in DOMAIN r.lane : r.lane[l] = LaneDone) /\ Turn(w, t)
    BY <1>3 DEF Finish, Finished, Laned
  <2>2. r.next = Size + 1 /\ BusyLanes(r) = {} BY <1>1, <2>1, DoneBooks
  <2>3. PICK n \in Nat \ {0} : r \in WarmerRecords(1..n) BY <1>1 DEF Books, WarmerRecord
  <2>4. code \in {0, 1, Nothing} /\ r.id \in Identities \cup {Default} BY <2>3 DEF WarmerRecords
  <2> HIDE DEF code
  <2>5. t = [r EXCEPT !.st = "unlocking", !.id = r.id, !.code = code] BY <2>3 DEF WarmerRecords
  <2>6. "unlocking" \in WarmerStates BY DEF WarmerStates
  <2> HIDE DEF r, t
  <2>7. Books(t) BY <1>1, <2>2, <2>4, <2>5, <2>6, MovedOn
  <2> QED BY <2>1, <2>7, TurnBooks
<1> QED BY <1>2, <1>3 DEF WarmStep

\* What ends a warmer: unlocking, or a kill.
LEMMA EndBooks ==
  ASSUME BooksInv, NEW w \in Warmers, UnlockStep(w) \/ Kill(w)
  PROVE  BooksInv'
<1> DEFINE r == warmer[w]
<1>1. Books(r) BY DEF BooksInv
<1>2. PICK n \in Nat \ {0} : r \in WarmerRecords(1..n) BY <1>1 DEF Books, WarmerRecord
<1>3. r.id \in Identities \cup {Default} /\ r.code \in {0, 1, Nothing} BY <1>2 DEF WarmerRecords
<1>4. [r EXCEPT !.st = "exited"] = [r EXCEPT !.st = "exited", !.id = r.id, !.code = r.code]
  BY <1>2 DEF WarmerRecords
<1>5. "exited" \in WarmerStates /\ "deleting" \in WarmerStates BY DEF WarmerStates
<1>6. Books([r EXCEPT !.st = "exited"])
  <2> HIDE DEF r
  <2>1. Books([r EXCEPT !.st = "exited", !.id = r.id, !.code = r.code]) BY <1>1, <1>3, <1>5, MovedOn
  <2> QED BY <1>4, <2>1
<1>7. CASE UnlockGet(w)
  <2>1. r.st = "unlocking" /\ \E s \in {"deleting", "exited"} : Turn(w, [r EXCEPT !.st = s])
    BY <1>7 DEF UnlockGet
  <2>2. [r EXCEPT !.st = "deleting"] = [r EXCEPT !.st = "deleting", !.id = r.id, !.code = r.code]
    BY <1>2 DEF WarmerRecords
  <2>3. r.next > 1 => r.next = Size + 1 /\ BusyLanes(r) = {} BY <1>1, <2>1 DEF Books, CursorMoved
  <2>4. Books([r EXCEPT !.st = "deleting"])
    <3> HIDE DEF r
    <3>1. Books([r EXCEPT !.st = "deleting", !.id = r.id, !.code = r.code])
      BY <1>1, <1>3, <1>5, <2>3, MovedOn
    <3> QED BY <2>2, <3>1
  <2> QED BY <1>6, <2>1, <2>4, TurnBooks
<1>8. CASE UnlockDel(w) BY <1>6, <1>8, TurnBooks DEF UnlockDel
<1>9. CASE UnlockFails(w) BY <1>6, <1>9, TurnBooks DEF UnlockFails
<1>10. CASE Kill(w)
  <2>1. Books(Exited(r, Nothing)) BY <1>1, ExitedBooks
  <2> QED BY <1>10, <2>1, TurnBooks DEF Kill
<1> QED BY <1>7, <1>8, <1>9, <1>10 DEF UnlockStep

LEMMA NextBooks ==
  ASSUME LockInv, BooksInv, [Next]_vars
  PROVE  BooksInv'
<1>1. CASE UNCHANGED warmer
  BY <1>1 DEF BooksInv, Books, WarmerRecord, TakenOnce, AllCounted, CursorMoved, BusyLanes
<1>2. ASSUME NEW w \in Warmers,
             BeginWait(w) \/ Connect(w) \/ GiveUp(w) \/ TryLock(w) \/ LockReplyLost(w) \/ WarmStep(w)
               \/ UnlockStep(w) \/ Kill(w)
      PROVE  BooksInv'
  BY <1>2, WaitBooks, LockBooks, WarmBooks, EndBooks DEF LockInv
<1>3. ASSUME NEW i \in Identities, Expire(i) PROVE UNCHANGED warmer
  BY <1>3 DEF Expire, warmerVars
<1> QED BY <1>1, <1>2, <1>3 DEF Next, WarmerNext, vars, warmerVars

\* At the end of a run the books say what WarmedOnce says.
LEMMA BooksAtTheEnd == BooksInv => WarmedOnce
<1> SUFFICES ASSUME BooksInv, NEW w \in Warmers, warmer[w].next > 1,
                    Finished(w) \/ warmer[w].st \in {"unlocking", "deleting"}
             PROVE  /\ \A i \in 1..Size : warmer[w].tries[i] = 1
                    /\ warmer[w].computed + warmer[w].cached + warmer[w].failed = Size
  BY DEF WarmedOnce
<1> DEFINE r == warmer[w]
<1>1. Books(r) BY DEF BooksInv
<1>2. r.next = Size + 1 /\ BusyLanes(r) = {}
  <2>1. CASE Finished(w) BY <1>1, <2>1, DoneBooks DEF Finished, Laned
  <2>2. CASE r.st \in {"unlocking", "deleting"} BY <1>1, <2>2 DEF Books, CursorMoved
  <2> QED BY <2>1, <2>2
<1>3. Size \in Nat /\ r.computed \in Nat /\ r.cached \in Nat /\ r.failed \in Nat
  BY <1>1, SizeType DEF Books, WarmerRecord, WarmerRecords
<1>4. \A i \in 1..Size : r.tries[i] = 1 BY <1>1, <1>2, <1>3 DEF Books, TakenOnce
<1>5. r.computed + r.cached + r.failed = Size
  BY <1>1, <1>2, <1>3, FS_EmptySet DEF Books, AllCounted
<1> QED BY <1>4, <1>5

(***************************************************************************)
(* Whatever the plan and the number of lanes, and however their searches   *)
(* interleave and fail, the lanes of a warmer that ended them have warmed  *)
(* every planned query once, and each is in one of the three counts        *)
(* (prewarm.ts:80-107).                                                    *)
(***************************************************************************)
THEOREM PlanIsWarmedOnce == Spec => []WarmedOnce
<1>1. Init => LockInv /\ BooksInv BY InitLockInv, InitBooks
<1>2. LockInv /\ BooksInv /\ [Next]_vars => LockInv' /\ BooksInv' BY NextKeepsLock, NextBooks
<1>3. BooksInv => WarmedOnce BY BooksAtTheEnd
<1> QED BY <1>1, <1>2, <1>3, PTL DEF Spec

-----------------------------------------------------------------------------
(* 3. The processes: what each of them and what the engines and Redis hold. *)

Searches == {Idle} \cup [phase : {"lookup", "computing"}, key : Keys]
Answers  ==
  {NoAnswer, ErrorAnswer}
    \cup [status : {"ok"}, result : {i \in Identities : Fits(i)}, key : Keys, cached : BOOLEAN]
ProcessRecords ==
  [st : {"down", "creating", "starting", "serving", "draining"}, id : Identities \cup {Default}, timer : BOOLEAN,
   list : (SUBSET Workers) \ {{}}, term : BOOLEAN, search : Searches, answer : Answers]

\* A process's answer is rendered from a result of its timetable: in Answers.
ServerInv ==
  /\ BackendsTypeOK
  /\ places \subseteq Procs /\ primary \in {"running", "stopping", "gone"}
  /\ proc \in [Procs -> ProcessRecords]

LEMMA NoProcessType == NoProcess \in ProcessRecords /\ [NoProcess EXCEPT !.st = "creating"] \in ProcessRecords
BY DeploymentAssumption DEF NoProcess, ProcessRecords, Searches, Answers

LEMMA InitServer == Init => ServerInv
<1> SUFFICES ASSUME NEW c \in Casts, BackendsInit(c.engines, c.redis), ServerInit(c.procs)
             PROVE  ServerInv
  BY DEF Init
<1>1. BackendsTypeOK
  <2>1. engine \in [Workers -> Identities \cup {Down}] /\ redis \in {"up", "down", "none"}
    BY DeploymentAssumption DEF BackendsInit
  <2>2. /\ cache \in [Keys -> Identities \cup {Nothing}] /\ lock \in [Identities -> Warmers \cup {Nothing}]
        /\ registry \subseteq Workers /\ flushed \in BOOLEAN
    BY DEF BackendsInit, NoEntries, NoLocks
  <2>3. changes \in 0..MaxChanges BY DeploymentAssumption DEF BackendsInit
  <2> QED BY <2>1, <2>2, <2>3 DEF BackendsTypeOK
<1>2. places \subseteq Procs /\ primary = "running" /\ proc = [p \in Procs |-> NoProcess]
  BY DeploymentAssumption DEF ServerInit
<1> QED BY <1>1, <1>2, NoProcessType DEF ServerInv

\* Operators.
LEMMA BackendsTypes ==
  ASSUME BackendsTypeOK, BackendsChange
  PROVE  BackendsTypeOK'
<1>1. Change => changes' \in 0..MaxChanges
  BY DeploymentAssumption DEF BackendsTypeOK, Change
<1>2. CASE Flush BY <1>1, <1>2 DEF Flush, Emptied, NoEntries, NoLocks, BackendsTypeOK
<1>3. ASSUME NEW e \in Workers, Redeploy(e) PROVE BackendsTypeOK'
  BY <1>1, <1>3 DEF Redeploy, BackendsTypeOK
<1>4. ASSUME NEW ws \in SUBSET Workers, Register(ws) PROVE BackendsTypeOK'
  BY <1>1, <1>4 DEF Register, BackendsTypeOK
<1>5. CASE RedisGone
  <2>1. /\ registry' \subseteq Workers /\ flushed' \in BOOLEAN
        /\ cache' \in [Keys -> Identities \cup {Nothing}] /\ lock' \in [Identities -> Warmers \cup {Nothing}]
    BY <1>5 DEF RedisGone, Emptied, NoEntries, NoLocks, BackendsTypeOK
  <2> QED BY <1>1, <1>5, <2>1 DEF RedisGone, BackendsTypeOK
<1>6. CASE RedisBack BY <1>6 DEF RedisBack, BackendsTypeOK
<1> QED BY <1>2, <1>3, <1>4, <1>5, <1>6 DEF BackendsChange

\* A result that is stored is an identity, and so is one that is found.
LEMMA StoreTypes ==
  ASSUME BackendsTypeOK, NEW e \in Workers, e \in Running(Workers), NEW k, Store(k, engine[e])
  PROVE  cache' \in [Keys -> Identities \cup {Nothing}]
BY DEF BackendsTypeOK, Store, Running

\* The warmers.
LEMMA WarmersTypes ==
  ASSUME BackendsTypeOK, WarmerNext
  PROVE  BackendsTypeOK'
<1>1. ASSUME NEW w \in Warmers,
             UNCHANGED backendVars \/ TryLock(w) \/ LockReplyLost(w) \/ UnlockDel(w)
      PROVE  BackendsTypeOK'
  <2>1. CASE UNCHANGED backendVars BY <2>1 DEF backendVars, BackendsTypeOK
  <2>2. CASE TryLock(w) BY <2>2 DEF TryLock, BackendsTypeOK
  <2>3. CASE LockReplyLost(w) BY <2>3 DEF LockReplyLost, BackendsTypeOK
  <2>4. CASE UnlockDel(w) BY <2>4 DEF UnlockDel, BackendsTypeOK
  <2> QED BY <1>1, <2>1, <2>2, <2>3, <2>4
<1>2. ASSUME NEW w \in Warmers, Kill(w) PROVE BackendsTypeOK'
  BY <1>2, DeploymentAssumption DEF Kill, Change, BackendsTypeOK
<1>3. ASSUME NEW w \in Warmers, WarmStep(w) PROVE BackendsTypeOK'
  <2>1. ASSUME NEW l \in Laned(w), WarmComputed(w, l) PROVE BackendsTypeOK'
    <3>1. cache' \in [Keys -> Identities \cup {Nothing}]
      BY <2>1, StoreTypes DEF WarmComputed, Running
    <3> QED BY <2>1, <3>1 DEF WarmComputed, BackendsTypeOK
  <2>2. WarmStep(w) => UNCHANGED backendVars \/ \E l \in Laned(w) : WarmComputed(w, l)
    BY DEF WarmStep, Finish, WarmHit, WarmFails
  <2> QED BY <1>1, <1>3, <2>1, <2>2
<1>4. ASSUME NEW i \in Identities, Expire(i) PROVE BackendsTypeOK'
  BY <1>4 DEF Expire, BackendsTypeOK
<1>5. ASSUME NEW w \in Warmers, BeginWait(w) \/ Connect(w) \/ GiveUp(w) \/ UnlockGet(w) \/ UnlockFails(w)
      PROVE  UNCHANGED backendVars
  BY <1>5 DEF BeginWait, Connect, GiveUp, UnlockGet, UnlockFails
<1> QED BY <1>1, <1>2, <1>3, <1>4, <1>5 DEF WarmerNext, UnlockStep

-----------------------------------------------------------------------------
LEMMA BecomeTypes ==
  ASSUME ServerInv, NEW p \in Procs, NEW r \in ProcessRecords, Become(p, r),
         UNCHANGED <<places, primary>>, BackendsTypeOK'
  PROVE  ServerInv'
BY DEF ServerInv, Become

\* What asking for the identity may leave, and the list after a look at the registry.
LEMMA IdentifiedTypes ==
  ASSUME ServerInv, NEW p \in Procs
  PROVE  /\ Identified(p) \subseteq ProcessRecords
         /\ \A l \in Members(proc[p].list) : l \in (SUBSET Workers) \ {{}}
<1>1. proc[p] \in ProcessRecords BY DEF ServerInv
<1>2. [proc[p] EXCEPT !.timer = TRUE] \in ProcessRecords BY <1>1 DEF ProcessRecords
<1>3. ASSUME NEW e \in Running(proc[p].list)
      PROVE  [proc[p] EXCEPT !.id = engine[e], !.timer = FALSE] \in ProcessRecords
  <2>1. engine[e] \in Identities BY <1>1 DEF Running, ServerInv, BackendsTypeOK, ProcessRecords
  <2> QED BY <1>1, <2>1 DEF ProcessRecords
<1>4. Identified(p) \subseteq ProcessRecords BY <1>2, <1>3, NoProcessType DEF Identified
<1>5. proc[p].list \in (SUBSET Workers) \ {{}} BY <1>1 DEF ProcessRecords
<1>6. registry \subseteq Workers BY DEF ServerInv, BackendsTypeOK
<1> QED BY <1>4, <1>5, <1>6 DEF Members

\* The life of a process, without its searches.
LEMMA LifeTypes ==
  ASSUME ServerInv, NEW p \in Procs,
         Fork(p) \/ Wire(p) \/ StartUp(p) \/ Refresh(p) \/ Sync(p) \/ Terminate(p) \/ Exit(p) \/ Crash(p)
  PROVE  ServerInv'
<1>1. proc[p] \in ProcessRecords BY DEF ServerInv
<1>2. UNCHANGED <<places, primary>>
  BY DEF Fork, Wire, StartUp, Refresh, Sync, Terminate, Exit, Crash
<1>3. BackendsTypeOK'
  <2>1. CASE UNCHANGED backendVars BY <2>1 DEF backendVars, ServerInv, BackendsTypeOK
  <2>2. CASE Crash(p) BY <2>2, DeploymentAssumption DEF Crash, Change, ServerInv, BackendsTypeOK
  <2> QED BY <2>1, <2>2 DEF Fork, Wire, StartUp, Refresh, Sync, Terminate, Exit
<1>4. \E r \in ProcessRecords : Become(p, r)
  <2>1. CASE Fork(p) \/ Exit(p) \/ Crash(p) BY <2>1, NoProcessType DEF Fork, Exit, Crash
  <2>2. CASE StartUp(p)
    <3>1. PICK r \in Identified(p), l \in Members(proc[p].list) :
            Become(p, IF r.st = "down" THEN r ELSE [r EXCEPT !.st = "serving", !.list = l])
      BY <2>2 DEF StartUp
    <3>2. r \in ProcessRecords /\ l \in (SUBSET Workers) \ {{}} BY <3>1, IdentifiedTypes
    <3>3. [r EXCEPT !.st = "serving", !.list = l] \in ProcessRecords BY <3>2 DEF ProcessRecords
    <3> QED BY <3>1, <3>2, <3>3
  <2>3. CASE Refresh(p) BY <2>3, IdentifiedTypes DEF Refresh
  <2>4. CASE Sync(p)
    <3>1. PICK l \in Members(proc[p].list) : Become(p, [proc[p] EXCEPT !.list = l])
      BY <2>4 DEF Sync
    <3>2. l \in (SUBSET Workers) \ {{}} BY <3>1, IdentifiedTypes
    <3>3. [proc[p] EXCEPT !.list = l] \in ProcessRecords BY <1>1, <3>2 DEF ProcessRecords
    <3> QED BY <3>1, <3>3
  <2>5. CASE Terminate(p)
    <3>1. [proc[p] EXCEPT !.st = "draining", !.term = FALSE] \in ProcessRecords
      BY <1>1 DEF ProcessRecords
    <3> QED BY <2>5, <3>1, NoProcessType DEF Terminate
  <2>6. CASE Wire(p)
    <3>1. [proc[p] EXCEPT !.st = "starting"] \in ProcessRecords BY <1>1 DEF ProcessRecords
    <3> QED BY <2>6, <3>1 DEF Wire
  <2> QED BY <2>1, <2>2, <2>3, <2>4, <2>5, <2>6
<1> QED BY <1>2, <1>3, <1>4, BecomeTypes

\* A result that fits is rendered, another one is an error.
LEMMA ReplyTypes ==
  ASSUME ServerInv, NEW p \in Procs, proc[p].search.phase \in {"lookup", "computing"},
         NEW result \in Identities, NEW cached \in BOOLEAN, Reply(p, result, cached)
  PROVE  \E r \in ProcessRecords : Become(p, r)
<1>1. proc[p] \in ProcessRecords BY DEF ServerInv
<1>2. proc[p].search \in Searches BY <1>1 DEF ProcessRecords
<1>3. proc[p].search.key \in Keys BY <1>2 DEF Searches, Idle
<1> DEFINE a == [status |-> "ok", result |-> result, key |-> proc[p].search.key, cached |-> cached]
<1>4. Fits(result) => a \in Answers BY <1>3 DEF Answers
<1>5. ErrorAnswer \in Answers /\ Idle \in Searches BY DEF Answers, Searches
<1> HIDE DEF a
<1>6. \A x \in Answers : [proc[p] EXCEPT !.search = Idle, !.answer = x] \in ProcessRecords
  BY <1>1, <1>5 DEF ProcessRecords
<1>7. CASE Fits(result) BY <1>4, <1>6, <1>7 DEF Reply, Answer, a
<1>8. CASE ~Fits(result) BY <1>5, <1>6, <1>8 DEF Reply, Answer
<1> QED BY <1>7, <1>8

LEMMA SearchTypes ==
  ASSUME ServerInv, NEW p \in Procs,
         (\E q \in Asked : Receive(p, q)) \/ Refuse(p) \/ Hit(p) \/ Miss(p)
           \/ (\E w \in Workers : Computed(p, w)) \/ Fails(p)
  PROVE  ServerInv'
<1>1. proc[p] \in ProcessRecords BY DEF ServerInv
<1>2. proc[p].search \in Searches /\ proc[p].id \in Identities \cup {Default} /\ proc[p].list \subseteq Workers
  BY <1>1 DEF ProcessRecords
<1>3. ErrorAnswer \in Answers /\ NoAnswer \in Answers /\ Idle \in Searches BY DEF Answers, Searches
<1>4. UNCHANGED <<places, primary>>
  BY DEF Receive, Refuse, Hit, Miss, Computed, Fails
<1>5. BackendsTypeOK'
  <2>1. ASSUME NEW w \in Workers, Computed(p, w) PROVE BackendsTypeOK'
    <3>1. w \in Running(Workers) BY <2>1 DEF Computed, Running
    <3>2. cache' \in [Keys -> Identities \cup {Nothing}]
      BY <2>1, <3>1, StoreTypes DEF Computed, ServerInv
    <3> QED BY <2>1, <3>2 DEF Computed, ServerInv, BackendsTypeOK
  <2>2. CASE UNCHANGED backendVars BY <2>2 DEF backendVars, ServerInv, BackendsTypeOK
  <2> QED BY <2>1, <2>2 DEF Receive, Refuse, Hit, Miss, Fails
<1>6. \E r \in ProcessRecords : Become(p, r)
  <2>1. CASE Refuse(p) \/ Fails(p)
    <3>1. [proc[p] EXCEPT !.search = Idle, !.answer = ErrorAnswer] \in ProcessRecords
      BY <1>1, <1>3 DEF ProcessRecords
    <3> QED BY <2>1, <3>1 DEF Refuse, Fails, Answer
  <2>2. ASSUME NEW q \in Asked, Receive(p, q) PROVE \E r \in ProcessRecords : Become(p, r)
    <3> DEFINE s == [phase |-> "lookup", key |-> <<q, proc[p].id>>]
    <3>1. <<q, proc[p].id>> \in Keys BY <1>2, DeploymentAssumption DEF Keys
    <3>2. s \in Searches BY <3>1 DEF Searches
    <3> HIDE DEF s
    <3>3. [proc[p] EXCEPT !.search = s, !.answer = NoAnswer] \in ProcessRecords
      BY <1>1, <1>3, <3>2 DEF ProcessRecords
    <3> QED BY <2>2, <3>3 DEF Receive, s
  <2>3. CASE Hit(p)
    <3>1. proc[p].search.phase = "lookup" /\ cache[proc[p].search.key] # Nothing
          /\ Reply(p, cache[proc[p].search.key], TRUE)
      BY <2>3 DEF Hit
    <3>2. proc[p].search.key \in Keys BY <1>2, <3>1 DEF Searches, Idle
    <3>3. cache[proc[p].search.key] \in Identities BY <3>1, <3>2 DEF ServerInv, BackendsTypeOK
    <3> QED BY <3>1, <3>3, ReplyTypes
  <2>4. CASE Miss(p)
    <3> DEFINE s == [proc[p].search EXCEPT !.phase = "computing"]
    <3>1. s \in Searches BY <1>2, <2>4 DEF Miss, Searches, Idle
    <3> HIDE DEF s
    <3>2. [proc[p] EXCEPT !.search = s] \in ProcessRecords BY <1>1, <3>1 DEF ProcessRecords
    <3> QED BY <2>4, <3>2 DEF Miss, s
  <2>5. ASSUME NEW w \in Workers, Computed(p, w) PROVE \E r \in ProcessRecords : Become(p, r)
    <3>1. engine[w] \in Identities /\ proc[p].search.phase = "computing" /\ Reply(p, engine[w], FALSE)
      BY <2>5 DEF Computed, Running, ServerInv, BackendsTypeOK
    <3> QED BY <3>1, ReplyTypes
  <2> QED BY <2>1, <2>2, <2>3, <2>4, <2>5
<1> QED BY <1>4, <1>5, <1>6, BecomeTypes

LEMMA ServerTypes ==
  ASSUME ServerInv, ServerNext
  PROVE  ServerInv'
<1>1. CASE Stop
  <2>1. \A p \in Procs : [proc[p] EXCEPT !.term = Alive(p)] \in ProcessRecords
    BY DEF ServerInv, ProcessRecords, Alive
  <2> QED BY <1>1, <2>1 DEF Stop, ServerInv, BackendsTypeOK, backendVars
<1>2. CASE PrimaryExit BY <1>2 DEF PrimaryExit, ServerInv, BackendsTypeOK, backendVars
<1>3. ASSUME NEW p \in Procs, ProcessStep(p) PROVE ServerInv'
  BY <1>3, LifeTypes, SearchTypes DEF ProcessStep
<1> QED BY <1>1, <1>2, <1>3 DEF ServerNext

LEMMA NextServer ==
  ASSUME ServerInv, [Next]_vars
  PROVE  ServerInv'
<1>1. CASE BackendsChange /\ UNCHANGED <<serverVars, warmerVars>>
  BY <1>1, BackendsTypes DEF ServerInv, serverVars
<1>2. CASE ServerNext BY <1>2, ServerTypes
<1>3. CASE WarmerNext /\ UNCHANGED serverVars
  BY <1>3, WarmersTypes DEF ServerInv, serverVars
<1>4. CASE UNCHANGED vars
  BY <1>4 DEF vars, serverVars, backendVars, ServerInv, BackendsTypeOK
<1> QED BY <1>1, <1>2, <1>3, <1>4 DEF Next

(***************************************************************************)
(* Every variable of the deployment stays in its type.                     *)
(***************************************************************************)
THEOREM DeploymentTypes == Spec => []TypeOK
<1>1. Init => LockInv /\ BooksInv /\ ServerInv BY InitLockInv, InitBooks, InitServer
<1>2. LockInv /\ BooksInv /\ ServerInv /\ [Next]_vars => LockInv' /\ BooksInv' /\ ServerInv'
  BY NextKeepsLock, NextBooks, NextServer
<1>3. BooksInv /\ ServerInv => TypeOK
  <2> SUFFICES ASSUME BooksInv, ServerInv PROVE TypeOK
    OBVIOUS
  <2>1. WarmerTypeOK
    <3> SUFFICES ASSUME NEW w \in Warmers
                 PROVE  /\ warmer[w].st \in WarmerStates
                        /\ warmer[w].id \in Identities \cup {Default}
                        /\ warmer[w].next \in 1..Size + 1
                        /\ \A l \in Laned(w) : warmer[w].lane[l] \in 0..Size
                        /\ warmer[w].code \in {0, 1, Nothing}
      BY DEF WarmerTypeOK, WarmerStates
    <3>1. PICK n \in Nat \ {0} : warmer[w] \in WarmerRecords(1..n) BY DEF BooksInv, Books, WarmerRecord
    <3> QED BY <3>1 DEF WarmerRecords, Laned
  <2>2. ServerTypeOK
    <3>1. \A p \in Procs : proc[p] \in ProcessRecords BY DEF ServerInv
    <3>2. \A s \in Searches : s.phase \in {"none", "lookup", "computing"} BY DEF Searches, Idle
    <3> QED BY <3>1, <3>2 DEF ServerInv, ServerTypeOK, ProcessRecords
  <2> QED BY <2>1, <2>2 DEF TypeOK, ServerInv
<1> QED BY <1>1, <1>2, <1>3, PTL DEF Spec

(***************************************************************************)
(* Whatever the engines, the cache and the supervisor do, a process        *)
(* renders only results of its own timetable (routeService.ts:112-121,     *)
(* README.md:601).                                                         *)
(***************************************************************************)
THEOREM OnlyOwnTimetableIsRendered == Spec => []RendersOwnTimetable
<1>1. Init => ServerInv BY InitServer
<1>2. ServerInv /\ [Next]_vars => ServerInv' BY NextServer
<1>3. ServerInv => RendersOwnTimetable
  <2> SUFFICES ASSUME ServerInv, NEW p \in Procs, proc[p].answer.status = "ok"
               PROVE  Fits(proc[p].answer.result)
    BY DEF RendersOwnTimetable
  <2>1. proc[p].answer \in Answers BY DEF ServerInv, ProcessRecords
  <2> QED BY <2>1 DEF Answers, NoAnswer, ErrorAnswer
<1> QED BY <1>1, <1>2, <1>3, PTL DEF Spec
=============================================================================
