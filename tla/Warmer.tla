------------------------------- MODULE Warmer -------------------------------
(***************************************************************************)
(* The cache-warmers, warmer.ts and runPrewarm of services/prewarm.ts:     *)
(* each creates its services, waits for an engine (and for Redis, should   *)
(* the connection be lost again), takes the lock of its identity, computes *)
(* the planned searches in a few lanes and exits.                          *)
(***************************************************************************)
EXTENDS Backends, Sequences

CONSTANT Plan      \* the planned queries, without repetition (PrewarmPlan)

VARIABLES
  warmer,
  lease            \* TRUE when PREWARM_LOCK_MS is longer than any warm-up

warmerVars == <<warmer, lease>>

LaneDone == 0
Size     == Len(Plan)

(***************************************************************************)
(* A warmer: where it is, the identity in its keys, the shared cursor      *)
(* [next], the query each lane awaits, the stats, how often each query was *)
(* tried (history), and the exit code.                                     *)
(***************************************************************************)
NewWarmer(lanes) ==
  [st |-> "creating", id |-> Default, next |-> 1, lane |-> [l \in lanes |-> LaneDone],
   computed |-> 0, cached |-> 0, failed |-> 0, tries |-> [i \in 1..Size |-> 0], code |-> Nothing]

Laned(w) == DOMAIN warmer[w].lane

WarmerTypeOK ==
  \A w \in Warmers :
    /\ warmer[w].st \in {"creating", "waiting", "locking", "warming", "unlocking", "deleting", "exited"}
    /\ warmer[w].id \in Identities \cup {Default}
    /\ warmer[w].next \in 1..Size + 1
    /\ \A l \in Laned(w) : warmer[w].lane[l] \in 0..Size
    /\ warmer[w].code \in {0, 1, Nothing}

Exited(r, code) == [r EXCEPT !.st = "exited", !.code = code]

(* The warmers of ws are started, with PREWARM_CONCURRENCY lanes; of the others nothing is seen. *)
WarmerInit(ws, lanes) ==
  /\ warmer = [w \in Warmers |->
                 IF w \in ws THEN NewWarmer(lanes) ELSE Exited(NewWarmer(lanes), Nothing)]
  /\ lease \in IF ws = {} THEN {TRUE} ELSE BOOLEAN

Turn(w, r) == warmer' = [warmer EXCEPT ![w] = r]
Holds(w)   == warmer[w].st \in {"warming", "unlocking", "deleting"}

(* createServices, and then the deadline is set.  Without Redis there is nothing to warm. *)
BeginWait(w) ==
  /\ warmer[w].st = "creating" /\ CreatesServices
  /\ Turn(w, IF redis = "none" THEN Exited(warmer[w], 1) ELSE [warmer[w] EXCEPT !.st = "waiting"])
  /\ UNCHANGED <<backendVars, lease>>

(* Redis is ready and a worker of the static list says who it is. *)
Connect(w) ==
  /\ warmer[w].st = "waiting" /\ redis = "up"
  /\ \E e \in Running(Workers) :
       Turn(w, IF Fits(engine[e]) THEN [warmer[w] EXCEPT !.st = "locking", !.id = engine[e]]
                                  ELSE Exited(warmer[w], 1))
  /\ UNCHANGED <<backendVars, lease>>

\* Fault: the deadline is not looked at.
GiveUpNever(w) == FALSE /\ UNCHANGED <<backendVars, warmerVars>>

(* WARMER_WAIT_MS are over, counted from the end of createServices. *)
GiveUp(w) ==
  /\ warmer[w].st = "waiting"
  /\ Turn(w, Exited(warmer[w], 1))
  /\ UNCHANGED <<backendVars, lease>>

-----------------------------------------------------------------------------
\* Fault: the last query is never taken.
TakeNextShort(r, l) ==
  IF r.next < Size
    THEN [r EXCEPT !.lane[l] = r.next, !.tries[r.next] = @ + 1, !.next = @ + 1]
    ELSE [r EXCEPT !.lane[l] = LaneDone]

(***************************************************************************)
(* A lane takes the query at the cursor and moves the cursor, without an   *)
(* await between the two: r is the warmer before.                          *)
(***************************************************************************)
TakeNext(r, l) ==
  IF r.next <= Size
    THEN [r EXCEPT !.lane[l] = r.next, !.tries[r.next] = @ + 1, !.next = @ + 1]
    ELSE [r EXCEPT !.lane[l] = LaneDone]

(***************************************************************************)
(* Promise.all starts the lanes 1, 2, ... one after the other, and each    *)
(* takes a query, if one is left, before the next lane starts.             *)
(***************************************************************************)
StartLanes(r) ==
  LET taken == {l \in DOMAIN r.lane : l <= Size}
  IN [r EXCEPT !.st = "warming", !.next = Cardinality(taken) + 1,
               !.lane = [l \in DOMAIN r.lane |-> IF l \in taken THEN l ELSE LaneDone],
               !.tries = [i \in 1..Size |-> IF i \in taken THEN 1 ELSE 0]]

(* PREWARM_FILE cannot be read or parsed: main throws with the lock taken. *)
Unplanned(r) == [r EXCEPT !.st = "unlocking", !.code = 1]

\* Fault: SET without NX.
TryLockPlain(w) ==
  /\ warmer[w].st = "locking" /\ redis = "up"
  /\ lock' = [lock EXCEPT ![warmer[w].id] = w] /\ Turn(w, StartLanes(warmer[w]))
  /\ UNCHANGED <<engine, redis, registry, cache, flushed, changes, lease>>

(***************************************************************************)
(* tryLock: SET NX, then GET if it was not set; the token is the warmer's  *)
(* own, so GET finds it only if this warmer has the lock.  Who has it      *)
(* plans the searches without an await, and starts the lanes.              *)
(***************************************************************************)
TryLock(w) ==
  /\ warmer[w].st = "locking" /\ redis = "up"
  /\ IF lock[warmer[w].id] = Nothing
       THEN /\ lock' = [lock EXCEPT ![warmer[w].id] = w]
            /\ \E r \in {StartLanes(warmer[w]), Unplanned(warmer[w])} : Turn(w, r)
       ELSE lock' = lock /\ Turn(w, Exited(warmer[w], 0))
  /\ UNCHANGED <<engine, redis, registry, cache, flushed, changes, lease>>

(* No reply: main throws, and the lock may have been taken if Redis could be reached. *)
LockReplyLost(w) ==
  /\ warmer[w].st = "locking"
  /\ \/ lock' = lock
     \/ redis = "up" /\ lock' = [lock EXCEPT ![warmer[w].id] = IF @ = Nothing THEN w ELSE @]
  /\ Turn(w, Exited(warmer[w], 1))
  /\ UNCHANGED <<engine, redis, registry, cache, flushed, changes, lease>>

KeyOf(w, l) == <<Plan[warmer[w].lane[l]], warmer[w].id>>

(* The lane's search ended: it is counted, and the lane takes the next one. *)
Counted(w, l, stat) == Turn(w, TakeNext([warmer[w] EXCEPT ![stat] = @ + 1], l))

Busy(w, l) == warmer[w].st = "warming" /\ warmer[w].lane[l] # LaneDone

WarmHit(w, l) ==
  /\ Busy(w, l) /\ redis = "up" /\ cache[KeyOf(w, l)] # Nothing
  /\ Counted(w, l, "cached")
  /\ UNCHANGED <<backendVars, lease>>

WarmComputed(w, l) ==
  /\ Busy(w, l)
  /\ \E e \in Running(Workers) : Store(KeyOf(w, l), engine[e])
  /\ Counted(w, l, "computed")
  /\ UNCHANGED <<engine, redis, registry, lock, flushed, changes, lease>>

WarmFails(w, l) ==
  /\ Busy(w, l)
  /\ Counted(w, l, "failed")
  /\ UNCHANGED <<backendVars, lease>>

Finished(w) == warmer[w].st = "warming" /\ \A l \in Laned(w) : warmer[w].lane[l] = LaneDone

Finish(w) ==
  /\ Finished(w)
  /\ LET allFailed == warmer[w].failed > 0 /\ warmer[w].failed = Size
     IN Turn(w, [warmer[w] EXCEPT !.st = "unlocking", !.code = IF allFailed THEN 1 ELSE 0])
  /\ UNCHANGED <<backendVars, lease>>

-----------------------------------------------------------------------------
(* unlock: GET, and DEL if the token is this warmer's; an error is ignored. *)
UnlockGet(w) ==
  /\ warmer[w].st = "unlocking" /\ redis = "up"
  /\ Turn(w, [warmer[w] EXCEPT !.st = IF lock[warmer[w].id] = w THEN "deleting" ELSE "exited"])
  /\ UNCHANGED <<backendVars, lease>>

UnlockDel(w) ==
  /\ warmer[w].st = "deleting" /\ redis = "up"
  /\ lock' = [lock EXCEPT ![warmer[w].id] = Nothing]
  /\ Turn(w, [warmer[w] EXCEPT !.st = "exited"])
  /\ UNCHANGED <<engine, redis, registry, cache, flushed, changes, lease>>

UnlockFails(w) ==
  /\ warmer[w].st \in {"unlocking", "deleting"}
  /\ Turn(w, [warmer[w] EXCEPT !.st = "exited"])
  /\ UNCHANGED <<backendVars, lease>>

Kill(w) ==
  /\ warmer[w].st # "exited" /\ Change
  /\ Turn(w, Exited(warmer[w], Nothing))
  /\ UNCHANGED <<engine, redis, registry, cache, lock, flushed, lease>>

(* A long lease outlives the run that took it. *)
Expire(i) ==
  /\ lock[i] # Nothing
  /\ lease => ~Holds(lock[i])
  /\ lock' = [lock EXCEPT ![i] = Nothing]
  /\ UNCHANGED <<engine, redis, registry, cache, flushed, changes, warmerVars>>

WarmStep(w) == Finish(w) \/ \E l \in Laned(w) : WarmHit(w, l) \/ WarmComputed(w, l) \/ WarmFails(w, l)
UnlockStep(w) == UnlockGet(w) \/ UnlockDel(w) \/ UnlockFails(w)

WarmerNext ==
  \/ \E w \in Warmers :
       \/ BeginWait(w) \/ Connect(w) \/ GiveUp(w) \/ TryLock(w) \/ LockReplyLost(w)
       \/ WarmStep(w) \/ UnlockStep(w) \/ Kill(w)
  \/ \E i \in Identities : Expire(i)

(***************************************************************************)
(* Once the services are created every call has a timeout and the wait a   *)
(* deadline, and the lock has a TTL.  Before, the first connection is made *)
(* if Redis stays there to be reached.                                     *)
(***************************************************************************)
WarmerFairness ==
  /\ \A w \in Warmers :
       /\ WF_warmerVars(BeginWait(w)) /\ WF_warmerVars(GiveUp(w))
       /\ WF_warmerVars(TryLock(w) \/ LockReplyLost(w))
       /\ WF_warmerVars(WarmStep(w)) /\ WF_warmerVars(UnlockStep(w))
  /\ \A i \in Identities : WF_backendVars(Expire(i))
=============================================================================
