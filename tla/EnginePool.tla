------------------------------ MODULE EnginePool ------------------------------
(***************************************************************************)
(* The dispatcher of api/src/services/enginePool.ts: admission control,    *)
(* one semaphore per engine worker, retries on other workers, hedged       *)
(* duplicates, ejection and readmission of workers, and a worker list that *)
(* changes while requests are running.                                     *)
(*                                                                         *)
(* Granularity: the code runs on one JavaScript thread, so an action is    *)
(* one external event (a request arrives, an engine call ends, a timer     *)
(* fires, a health check ends, the worker list changes) together with all  *)
(* the promise continuations that the event sets off.                      *)
(*                                                                         *)
(* A worker OBJECT is an element of Workers; Url says which URL it serves. *)
(* A URL that leaves and comes back gets a new object (setWorkers), while  *)
(* calls still running on the old object keep using that one.  No worker   *)
(* object is tried twice by a request, so <<r, w>> names a call.           *)
(***************************************************************************)
EXTENDS Semaphore

CONSTANTS
  Requests,        \* searches that reach the pool
  Workers,         \* worker objects, those of the initial list and later ones
  Url,             \* Url[w]: the base URL of a worker object
  InitialPool,     \* the objects made by the constructor
  RetryMax,        \* RETRY_MAX: extra attempts after the first
  Hedging,         \* TRUE iff HEDGE_AFTER_MS > 0
  MaxQueue,        \* MAX_QUEUE: AutoQueue, -1 (no limit) or a number
  AutoQueue,       \* the value "auto" of MAX_QUEUE
  FailThreshold,   \* FAIL_THRESHOLD
  NewLists         \* the sets of URLs that the registry may list later

ASSUME PoolAssumption ==
  /\ IsFiniteSet(Requests) /\ IsFiniteSet(Workers)
  /\ InitialPool \subseteq Workers /\ InitialPool # {}
  /\ RetryMax \in Nat /\ Hedging \in BOOLEAN /\ FailThreshold \in Nat \ {0}
  /\ MaxQueue = AutoQueue \/ MaxQueue \in Int
  /\ {} \notin NewLists   \* apiProcess.ts ignores an empty list

Calls == Requests \X Workers

VARIABLES
  pool,         \* this.workers, as a set of objects
  joined,       \* the objects created so far
  sem,          \* Worker.slots
  outstanding,  \* Worker.outstanding
  healthy,      \* Worker.healthy
  failures,     \* Worker.failures (consecutive)
  inFlight,     \* this.inFlight
  req,          \* the local state of each route() call
  aborted       \* why the AbortSignal of each call has aborted, if it has

poolVars == <<pool, joined>>
workerVars == <<sem, outstanding, healthy, failures>>
vars == <<poolVars, workerVars, inFlight, req, aborted>>

Trying == "trying"
Settled == {"ok", "invalid", "unavailable", "overloaded"}
RequestStates ==
  [st : {"new", Trying} \union Settled, tried : SUBSET Workers, attempt : Nat,
   timedOut : BOOLEAN, timer : BOOLEAN]
NewRequest ==
  [st |-> "new", tried |-> {}, attempt |-> 0, timedOut |-> FALSE, timer |-> FALSE]

Init ==
  /\ pool = InitialPool
  /\ joined = InitialPool
  /\ sem = [w \in Workers |-> NewSemaphore]
  /\ outstanding = [w \in Workers |-> 0]
  /\ healthy = [w \in Workers |-> TRUE]
  /\ failures = [w \in Workers |-> 0]
  /\ inFlight = 0
  /\ req = [r \in Requests |-> NewRequest]
  /\ aborted = [c \in Calls |-> "no"]

-----------------------------------------------------------------------------
\* The workers on which r has a call that is queued or running.
Live(r) == {w \in Workers : Present(sem[w], <<r, w>>)}

CapacityOf(p) == Cardinality(p) * Concurrency
AdmissionLimit(p) ==
  CapacityOf(p) + (IF MaxQueue = AutoQueue THEN CapacityOf(p) ELSE MaxQueue)
Limited == IF MaxQueue = AutoQueue THEN TRUE ELSE MaxQueue >= 0
Overloaded == Limited /\ inFlight >= AdmissionLimit(pool)

\* pick: whatever the strategy, one of the healthy workers the request has not
\* tried, or, if none of those is healthy, any worker it has not tried.
Candidates(tried, h) ==
  LET untried == pool \ tried
  IN  IF \E w \in untried : h[w] THEN {w \in untried : h[w]} ELSE untried

\* tryOnce up to its first await: pick a worker, note it as tried, arm the
\* hedge timer, and queue the call on the worker's semaphore (attempt).  The
\* arguments are the state that the event has produced so far.
StartTry(r, rq, s, o, h) ==
  \E w \in Candidates(rq.tried, h) :
    /\ req' = [req EXCEPT ![r] =
                 [rq EXCEPT !.st = Trying, !.tried = @ \union {w}, !.timer = Hedging]]
    /\ sem' = [s EXCEPT ![w] = Acquire(@, <<r, w>>)]
    /\ outstanding' = [o EXCEPT ![w] = @ + 1]

\* route() ends: the request has its answer and leaves the in-flight count.
\* (Fault: a path out of route() that skips the decrement.)
SettleUncounted(r, st) ==
  /\ req' = [req EXCEPT ![r].st = st, ![r].timer = FALSE]
  /\ UNCHANGED inFlight
Settle(r, st) ==
  /\ req' = [req EXCEPT ![r].st = st, ![r].timer = FALSE]
  /\ inFlight' = inFlight - 1

-----------------------------------------------------------------------------
\* route(): admission control refuses the request with a 429 ...
Reject(r) ==
  /\ req[r].st = "new"
  /\ Overloaded
  /\ req' = [req EXCEPT ![r].st = "overloaded"]
  /\ UNCHANGED <<poolVars, workerVars, inFlight, aborted>>

\* ... or admits it and starts the first try.
Admit(r) ==
  /\ req[r].st = "new"
  /\ ~Overloaded
  /\ inFlight' = inFlight + 1
  /\ StartTry(r, req[r], sem, outstanding, healthy)
  /\ UNCHANGED <<poolVars, healthy, failures, aborted>>

\* The effect on a call of r's that its signal, by aborting, has: a queued call
\* leaves its queue and its attempt is over; a running one is only told to stop.
\* (Faults: the count drops for a running call too; the losing signals are never
\* aborted.)
SemAfterAbort(r, w) == CancelWait(sem[w], <<r, w>>)
OutstandingUncounted(r, w) == outstanding[w] - 1
OutstandingAfterAbort(r, w) ==
  outstanding[w] - (IF Waiting(sem[w], <<r, w>>) THEN 1 ELSE 0)
AbortsNothing(r, losers, reason) == aborted
AbortedCalls(r, losers, reason) ==
  [c \in Calls |-> IF c[1] = r /\ c[2] \in losers /\ aborted[c] = "no"
                      /\ Holding(sem[c[2]], c) THEN reason ELSE aborted[c]]

\* An engine call returns a result.  The first result of a request settles it
\* and aborts the other call of the hedged pair; a later one is dropped.
Losers(r, w) == IF req[r].st = Trying THEN Workers \ {w} ELSE {}

CallSucceeds(r, w) ==
  LET losers == Losers(r, w)
  IN  /\ Holding(sem[w], <<r, w>>)
      /\ failures' = [failures EXCEPT ![w] = 0]
      /\ sem' = [v \in Workers |->
                   IF v = w THEN Release(sem[w], <<r, w>>)
                   ELSE IF v \in losers THEN SemAfterAbort(r, v) ELSE sem[v]]
      /\ outstanding' = [v \in Workers |->
                   IF v = w THEN outstanding[w] - 1
                   ELSE IF v \in losers THEN OutstandingAfterAbort(r, v)
                   ELSE outstanding[v]]
      /\ aborted' = AbortedCalls(r, losers, "hedgeLost")
      /\ IF req[r].st = Trying THEN Settle(r, "ok") ELSE UNCHANGED <<req, inFlight>>
      /\ UNCHANGED <<poolVars, healthy>>

\* A failed call counts against its worker unless the pool itself aborted it
\* because the other call of a hedged pair had won.  (Fault: every failure counts.)
CountsAlways(r, w) == TRUE
CountsAgainstWorker(r, w) == aborted[<<r, w>>] # "hedgeLost"

FailuresAfter(r, w, kind) ==
  IF CountsAgainstWorker(r, w) /\ kind = "unavailable"
  THEN [failures EXCEPT ![w] = @ + 1] ELSE failures
HealthyAfter(r, w, kind) ==
  IF CountsAgainstWorker(r, w) /\ kind = "unavailable" /\ failures[w] + 1 >= FailThreshold
  THEN [healthy EXCEPT ![w] = FALSE] ELSE healthy

\* route(): may a failed try be repeated?  (Fault: the timeout is not looked at.)
RetryEvenAborted(r, kind) ==
  /\ kind = "unavailable" /\ req[r].attempt < RetryMax
  /\ Cardinality(req[r].tried) < Cardinality(pool)
Retryable(r, kind) ==
  /\ kind = "unavailable" /\ ~req[r].timedOut
  /\ req[r].attempt < RetryMax
  /\ Cardinality(req[r].tried) < Cardinality(pool)

\* The failure of a call decides its try only if the request has no answer yet
\* and no other call pending ("--pending > 0 || settled").  (Fault: the second
\* half of the test is missing.)
DecidesAlways(r, w) == req[r].st = Trying
Decides(r, w) == req[r].st = Trying /\ Live(r) = {w}

\* An engine call fails: a 400 ("invalid"), or anything else, an abort included
\* ("unavailable").  If it decides the try, it leads to a retry or ends the
\* request.
CallFails(r, w, kind) ==
  LET released == [sem EXCEPT ![w] = Release(@, <<r, w>>)]
      left     == [outstanding EXCEPT ![w] = @ - 1]
  IN  /\ Holding(sem[w], <<r, w>>)
      /\ aborted[<<r, w>>] # "no" => kind = "unavailable"
      /\ failures' = FailuresAfter(r, w, kind)
      /\ healthy' = HealthyAfter(r, w, kind)
      /\ \/ /\ Decides(r, w) /\ Retryable(r, kind)
            /\ StartTry(r, [req[r] EXCEPT !.attempt = @ + 1], released, left, healthy')
            /\ UNCHANGED inFlight
         \/ /\ Decides(r, w) /\ ~Retryable(r, kind)
            /\ sem' = released /\ outstanding' = left
            /\ Settle(r, kind)
         \/ /\ ~Decides(r, w)
            /\ sem' = released /\ outstanding' = left
            /\ UNCHANGED <<req, inFlight>>
      /\ UNCHANGED <<poolVars, aborted>>

\* The hedge timer fires before the try has settled: a duplicate of the call
\* goes to a second worker, if there is one.  If the request has already timed
\* out, the duplicate's signal is aborted from the start and its acquire()
\* rejects at once.
Hedge(r) ==
  /\ req[r].st = Trying
  /\ req[r].timer
  /\ LET others == Candidates(req[r].tried, healthy)
     IN  \/ /\ others = {}
            /\ req' = [req EXCEPT ![r].timer = FALSE]
            /\ UNCHANGED <<sem, outstanding>>
         \/ \E w \in others :
              /\ req' = [req EXCEPT ![r].timer = FALSE, ![r].tried = @ \union {w}]
              /\ IF req[r].timedOut
                 THEN UNCHANGED <<sem, outstanding>>
                 ELSE /\ sem' = [sem EXCEPT ![w] = Acquire(@, <<r, w>>)]
                      /\ outstanding' = [outstanding EXCEPT ![w] = @ + 1]
  /\ UNCHANGED <<poolVars, healthy, failures, inFlight, aborted>>

\* The request's timeout fires: its queued calls fail at once, its running
\* calls are told to stop; with no running call left the request has failed.
Timeout(r) ==
  /\ req[r].st = Trying
  /\ ~req[r].timedOut
  /\ sem' = [w \in Workers |-> SemAfterAbort(r, w)]
  /\ outstanding' = [w \in Workers |-> OutstandingAfterAbort(r, w)]
  /\ aborted' = AbortedCalls(r, Workers, "timeout")
  /\ IF \E w \in Workers : Holding(sem[w], <<r, w>>)
     THEN /\ req' = [req EXCEPT ![r].timedOut = TRUE]
          /\ UNCHANGED inFlight
     ELSE /\ req' = [req EXCEPT ![r].timedOut = TRUE, ![r].st = "unavailable",
                                ![r].timer = FALSE]
          /\ inFlight' = inFlight - 1
  /\ UNCHANGED <<poolVars, healthy, failures>>

-----------------------------------------------------------------------------
\* checkHealth: the result of one worker's check.
HealthPass(w) ==
  /\ w \in pool
  /\ failures' = [failures EXCEPT ![w] = IF healthy[w] THEN @ ELSE 0]
  /\ healthy' = [healthy EXCEPT ![w] = TRUE]
  /\ UNCHANGED <<poolVars, sem, outstanding, inFlight, req, aborted>>

HealthFail(w) ==
  /\ w \in pool
  /\ healthy' = [healthy EXCEPT ![w] = FALSE]
  /\ UNCHANGED <<poolVars, sem, outstanding, failures, inFlight, req, aborted>>

\* setWorkers: keep the objects of the URLs that stay, make new ones for the
\* URLs that join (or come back).
SetWorkers(urls) ==
  LET kept == {w \in pool : Url[w] \in urls}
      missing == urls \ {Url[w] : w \in kept}
  IN  /\ urls # {Url[w] : w \in pool}
      /\ \E fresh \in SUBSET (Workers \ joined) :
           /\ {Url[w] : w \in fresh} = missing
           /\ \A v, w \in fresh : Url[v] = Url[w] => v = w
           /\ pool' = kept \union fresh
           /\ joined' = joined \union fresh
      /\ UNCHANGED <<workerVars, inFlight, req, aborted>>

-----------------------------------------------------------------------------
Next ==
  \/ \E r \in Requests : Reject(r) \/ Admit(r) \/ Hedge(r) \/ Timeout(r)
  \/ \E r \in Requests, w \in Workers :
       \/ CallSucceeds(r, w)
       \/ \E kind \in {"invalid", "unavailable"} : CallFails(r, w, kind)
  \/ \E w \in Workers : HealthPass(w) \/ HealthFail(w)
  \/ \E urls \in NewLists : SetWorkers(urls)

\* What the runtime guarantees: the timer of a request fires unless the request
\* settles first, and an aborted fetch rejects (or has already been answered).
\* An engine that was not told to stop may keep a call for ever.
AbortedCallEnds(r, w) ==
  /\ aborted[<<r, w>>] # "no"
  /\ CallFails(r, w, "unavailable") \/ CallSucceeds(r, w)

Fairness ==
  /\ \A r \in Requests : WF_vars(Timeout(r))
  /\ \A r \in Requests, w \in Workers : WF_vars(AbortedCallEnds(r, w))

Spec == Init /\ [][Next]_vars
FairSpec == Spec /\ Fairness

-----------------------------------------------------------------------------
\* The types of the variables.
TypeOK ==
  /\ pool \in SUBSET Workers /\ joined \in SUBSET Workers /\ pool \subseteq joined
  /\ sem \in [Workers -> Semaphores(Calls)]
  /\ outstanding \in [Workers -> Nat]
  /\ healthy \in [Workers -> BOOLEAN]
  /\ failures \in [Workers -> Nat]
  /\ inFlight \in Nat
  /\ req \in [Requests -> RequestStates]
  /\ aborted \in [Calls -> {"no", "timeout", "hedgeLost"}]

\* No slot of a worker is ever lost or made twice, whatever mix of answers,
\* failures, retries, timeouts and lost hedges its calls meet, and no call
\* queues behind a free slot (attempt's two finally blocks, Semaphore).
SlotsOK == \A w \in Workers : SlotsConserved(sem[w])

\* The load figure that the strategies and the metrics read is the number of
\* calls queued or running on the worker: it drifts neither way (attempt).
OutstandingExact ==
  \A w \in Workers : outstanding[w] = Load(sem[w])

\* The in-flight count that admission control reads is the number of admitted
\* requests that have no answer yet; no path out of route() skips the decrement.
InFlightExact == inFlight = Cardinality({r \in Requests : req[r].st = Trying})

\* An admitted request without an answer always has a call that can still give
\* it one: a hedge or an abort never leaves a promise that nothing settles.
NobodyForgotten == \A r \in Requests : req[r].st = Trying => Live(r) # {}

\* A request that has its answer keeps no work of its own going: none of its
\* calls waits for a slot, and one still running has lost the race and been told
\* to stop.  A request that failed has none left, so the failure of one call of a
\* hedged pair never hides the other's answer.
NoOrphanCalls ==
  \A r \in Requests, w \in Workers :
    req[r].st \in Settled /\ w \in Live(r) =>
      /\ req[r].st = "ok"
      /\ Holding(sem[w], <<r, w>>)
      /\ aborted[<<r, w>>] # "no"

\* Losing a hedge race is not held against a worker: the end of a call that the
\* pool aborted for that reason never raises a failure count or ejects anyone.
HedgeLoserBlameless ==
  [][\A r \in Requests, w \in Workers :
       /\ Holding(sem[w], <<r, w>>) /\ aborted[<<r, w>>] = "hedgeLost"
       /\ ~Holding(sem'[w], <<r, w>>)
       => /\ failures'[w] <= failures[w]
          /\ healthy'[w] = healthy[w]]_vars

\* After its timeout a request starts no further engine call.
NothingStartsAfterTimeout ==
  [][\A r \in Requests, w \in Workers :
       req[r].timedOut /\ ~Present(sem[w], <<r, w>>) => ~Present(sem'[w], <<r, w>>)]_vars

\* Every admitted request is answered, even when engines never reply.
EveryRequestAnswered ==
  \A r \in Requests : req[r].st = Trying ~> req[r].st \in Settled

\* Every call leaves its worker again, so no slot is held for ever.
EveryCallEnds ==
  \A r \in Requests, w \in Workers :
    Present(sem[w], <<r, w>>) ~> ~Present(sem[w], <<r, w>>)

\* The pool keeps its promise to the workers (WorkerSlots), whatever becomes of
\* the requests: "free" and the waiter queue implement the sets of that promise.
Slots == INSTANCE WorkerSlots WITH
           running <- [w \in Workers |-> sem[w].held],
           waiting <- [w \in Workers |-> ToSet(sem[w].waiters)]
SlotsPromise == Slots!Spec

\* README.md:898 "Maximum in-flight engine calls per worker, per API process":
\* the calls that run at one worker's URL never exceed ENGINE_CONCURRENCY.
PerWorkerCap ==
  \A w \in Workers :
    Cardinality({c \in Calls : /\ Url[c[2]] = Url[w]
                               /\ Holding(sem[c[2]], c)}) <= Concurrency
=============================================================================
