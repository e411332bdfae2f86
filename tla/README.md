# A formal model of the railway journey planner

TLA+ modules for the parts of this repository where order, concurrency, failure,
pruning or arithmetic decide whether the program is right: the engine pool of the
API, its route cache, the K-best search of the routing engine, API processes and
cache-warmers over engines that are redeployed, the search page, the load-test
controller, and the programs that prepare data, plan a deployment, render
an answer and analyse a test. TLC checks them on small instances; TLAPS proves the
most important safety properties for every value of the constants.

Paths are relative to the repository's root; `x.ts:10` is a line.

    tlc -workers 2 -config EnginePool_hedge.cfg MCEnginePool.tla
    tlapm EnginePoolProofs.tla

## 1. The system

| Part | State it keeps | Operations | Talks to |
|---|---|---|---|
| Frontend (`frontend/`) | one page's form, search, answer, filters, URL; two station pickers | search, filter, sort, page, look up stations, restore from the URL | API, over HTTP |
| Supervisor (`api/src/server.ts`) | forked processes, stopping or not | fork, fork again after an exit, stop all | API processes |
| API process (`apiProcess.ts`, `bootstrap.ts`, `app.ts`) | engine identity, worker list, services | serve `/routes` and `/stations`, follow the registry every second, shut down | everything below |
| Route service (`routeService.ts`, `filters.ts`, `journeyRenderer.ts`, `stationService.ts`) | `configHash`; otherwise stateless | search = cache, check, filter, page, render | cache, pool |
| Route cache (`routeCache.ts`) | promises in flight, by key | `getOrCompute` | Redis, and the pool through `compute` |
| Redis store (`redisStore.ts`) | values and locks, both expiring; the registry set | get, set, lock, tryLock, unlock, members | Redis |
| Engine pool (`enginePool.ts`) | worker list; per worker a semaphore, outstanding calls, health, failures; requests in flight | `route`, `checkHealth`, `setWorkers` | engines, through `postRoute` |
| Semaphore (`engineClient.ts`) | free slots, FIFO of waiters | acquire (abortable), release | the pool |
| Cache warmer (`warmer.ts`, `prewarm.ts`) | a named lock, a cursor over the plan | lock, run in lanes, unlock | cache, pool, Redis |
| Engine server (`routing-engine/src/server.cpp`) | draining flag, counts | `/route`, `/health`, drain on SIGTERM | router |
| Timetable (`timetable.cpp`) | trains, stops, departure index | parse, finalize | router |
| Router (`router.cpp`) | weekday patterns; per query bounds, labels and queue | `route` | timetable |
| Preprocessing (`scripts/`) | files | validate and merge records; geocode | - |
| Deployment (`deploy/`) | files | hosts and settings to compose files and plan | - |
| Load tests (`loadtest/`) | recorded repeats (`meta.json`) | run variants with faults; analyse | deployment over ssh, k6, Prometheus |

A search goes: page, proxy, API process, route service, cache; on a miss the pool,
a worker's semaphore, an engine, its router; and back through the cache.

What is hard in it, and what has to hold (PROJECT.json lists the hazards at
their lines):

- **Pool.** A request is one to `2 * (RETRY_MAX + 1)` calls whose answers,
  failures, aborts and timers come in any order, on workers that are ejected,
  readmitted, removed and replaced meanwhile. Slots and counters must not drift,
  the request must get exactly one answer, no call may be left running for it.
- **Cache.** Processes compute the same key at the same time; Redis commands
  fail, time out, or run after their caller gave up; the holder of a lock may
  throw or die. No caller may fail or hang because of that, a process must load
  a key once, and the lock must prevent a stampede when it can.
- **Router.** The answer is right only if the bound is admissible, the keys
  never decrease along a journey, the pruning rules remove only what another
  valid journey justifies, and cutting the search short keeps a prefix.
- **API processes and warmers.** The identity in the cache keys is resolved once
  while engines change; results are cached before they are checked; Redis may
  lose everything or be out of reach, also while a process starts; processes refuse
  to start, crash, and are forked again; a lock's reply is lost, its holder killed. No
  journey may be rendered with another timetable, one warmer may run at a time, every
  process must come to serve, and every warmer must end.
- **Page.** Answers and lookups arrive late or not at all while the user types,
  filters, swaps and reloads. What is shown, what is in the URL and what is
  selected must keep belonging together.
- **Load tests.** ssh commands fail singly, k6 ends before its faults do, the
  controller dies. Faults must not leak into the next repeat, a run must be
  measured on the set-up it names, exit code 0 must mean that all was measured.
- **Programs without state.** Absent and placeholder times, copies, wrong
  coordinates, ports shared under host networking, counters that restart, waits
  across midnight, bisection edges.

## 2. Modules

    Semaphore <- EnginePool <- MCEnginePool          Timetable <- Journeys <- Router <- MCRouter
                     |  INSTANCE WorkerSlots              ^                    |  ^
                     ^                                    |                    |  RouterProofs <- RouterComplete
              EnginePoolProofs                            |     INSTANCE BestFirst   | INSTANCE
                                                          |              BestFirst
    RouteCache <- RouteCacheProofs, MCRouteCache      Preprocess \
                                                      Geocode     |
    Backends <- ApiServer \                           Rollout      > Algorithms <- MCAlgorithms
             <- Warmer     > Deployment <- MCDeployment,   Analysis    |          <- AlgorithmsProofs
                                       DeploymentProofs    Reply       |
                                                          PrewarmPlan /

    JourneyList <- SearchPage <- Frontend <- MCFrontend, FrontendProofs
                                     |  INSTANCE StationPicker
    Study <- StudyProofs, MCStudy

| Module | Models |
|---|---|
| `Semaphore` | the class `Semaphore` of `engineClient.ts`, as operators on a record |
| `EnginePool` | `enginePool.ts`: one action per external event |
| `WorkerSlots` | what the pool promises its workers; `EnginePool` implements it |
| `RouteCache` | `routeCache.ts` over `redisStore.ts`, for one key |
| `Timetable` | `timetable.cpp`, and `build_pattern` and `for_each_departure` of `router.cpp` |
| `Journeys` | the reference for the search: all valid journeys, their rank, which are pointless |
| `Router` | `Router::route`: one action per connection scanned or label popped |
| `BestFirst` | what a best-first enumeration promises; `Router` implements it |
| `Backends` | the engines, the registry and the Redis that processes and warmers share |
| `ApiServer` | `server.ts`, `apiProcess.ts`, and a search through `app.ts` and `routeService.ts` |
| `Warmer` | `warmer.ts` and `runPrewarm`, with `tryLock` and `unlock` |
| `Deployment` | the composition of the three |
| `StationPicker` | `StationPicker.tsx` |
| `JourneyList` | filters, orders, highlights, pages and URL parameters of the result list |
| `SearchPage` | `app/page.tsx` with the form and the list's controls |
| `Frontend` | the page with one picker in full detail |
| `Study` | `loadtest/run.ts`: repeats, set-up, timeline, restore, records, restarts |
| `Preprocess`, `Geocode` | `scripts/preprocess.ts`, `lib/normalize.ts`, `geocode.ts`, `lib/geocode.ts` |
| `Rollout` | `deploy/render.ts` with `inventory.ts` |
| `Analysis` | counters, capacity and recovery of `loadtest/analyze.ts` |
| `Reply` | `journeyRenderer.ts`, filters and pages of an answer, `stationService.ts` |
| `PrewarmPlan` | `localDate`, `busiestPairs` and `planPrewarm` of `prewarm.ts` |
| `Algorithms` | a behaviour takes a job and does it with one of these six |
| `MC*` | instances for TLC |
| `*Proofs`, `RouterComplete` | theorems |

### EnginePool and Semaphore

JavaScript runs one callback at a time, so an action is one external event with
every promise continuation it sets off. `attempt`'s two `finally` blocks, the
handlers in `tryOnce` and the loop in `route` are therefore parts of
`CallSucceeds`, `CallFails` and `Timeout`, not steps of their own.

| Action | Code | Note |
|---|---|---|
| `Admit`, `Reject` | `route` 328-341 | `Admit` includes the first `tryOnce` and `attempt` up to the semaphore |
| `CallSucceeds` | 256-304 | release, statistics, first answer settles, the other calls are aborted |
| `CallFails` | 266-278, 305-312, 342-346 | ejection, then retry, end or nothing |
| `Hedge` | 315-322 | the duplicate's signal may be aborted from the start |
| `Timeout` | 336, `engineClient.ts` 128-131 | queued calls end at once; running ones are told to stop |
| `AbortedCallEnds` | `engineClient.ts` 146-164 | an aborted `fetch` rejects, or its answer was there already |
| `HealthPass`, `HealthFail` | 353-366 | |
| `SetWorkers` | 144-156 | |

`pick` is any of its candidates, whatever the strategy: the six strategies
differ in nothing that the properties tell apart. A worker is an *object*, not a
URL, because `setWorkers` makes a new one when a URL comes back; `Url` maps
objects to URLs. `held` is not a field of the class: it is the set of
calls between the two lines of `attempt` that acquire and release. An aborted
running call may still return its answer; if it fails, it fails as unavailable.

### RouteCache

Callers are `getOrCompute` calls; `pc` follows a caller through `load`. `late`
holds commands that `withTimeout` gave up on and that Redis may still run. `lock`
remembers whose `SET NX` made the lock, which Redis does not; only `PollEnds`
and `LockExpires` read it. Two facts about time are in the guards. A poll loop
lasts as long as the lock it saw lives, so it ends after that lock is gone
(`PollEnds`). A value lives longer than a lock, so one that is stored while a
caller polls is still there when that loop ends (`EntryExpires`; dropped where Redis fails,
because the caller may then have missed an older value). A *setting* says what
may happen in a behaviour: coalescing, the lock, Redis failures, throwing
computations, locks that expire too early, and dying processes.

### Timetable, Journeys and Router

A query date is day 0, so times are minutes from its 00:00. A label is the
partial journey it stands for instead of a chain of parent indices. The bloom
filter and the epoch marks are membership tests on stations and trains, and
are modelled as such. A bound `lex(arr, tr)` is the pair `<<arr, tr>>`; its
eight-bit saturation is kept. Ties in the queue are broken by the label's index,
as in the code. `Journeys` enumerates: it shares with `Router` the timetable's
instances and nothing of the search. That no station is touched twice is
`TouchesOnce`, over the calls of the journey. `leaves_train_early` and `boards_train_late`
collect the stations of a journey with one leg in the place of others (`Splice`), sort
them and look for equal neighbours (`router.cpp:213-214`): the same test, on the spliced journey.
`Timetables` holds what `finalize()` accepts and the comments of `timetable.h` promise:
only a train's first stop lacks an arrival (`Timed`).

### Backends, ApiServer, Warmer, Deployment

A result is represented by the *identity* (routing configuration and timetable
hash) of the engine that computed it; `Fits` is the comparison of the timetable hash
that `JourneyRenderer.check` and `resolveEngineIdentity` make. A cache key is
a query with the identity its process had when the search came in.

| Actions | Code |
|---|---|
| `Fork`, `Stop`, `PrimaryExit` | `server.ts` 11-37 |
| `Wire` | `apiProcess.ts` 15, `bootstrap.ts` 59-66: services are there once Redis was connected to, or is not used |
| `StartUp`, `Refresh` | `apiProcess.ts` 18-72: then, identity or not, the process listens; a timer asks again |
| `Sync` | 30-46: the registry, unless empty, replaces the list |
| `Terminate`, `Exit` | 74-82; a SIGTERM before the handler is set ends the process |
| `Receive`, `Refuse`, `Hit`, `Miss`, `Computed`, `Fails` | `app.ts` 117-165, `routeService.ts` 50-98; `Computed` stores first, then checks |
| `BeginWait` | `warmer.ts` 19-26: services as above, then the deadline is set; without Redis the warmer ends with 1 |
| `Connect`, `GiveUp`, `TryLock`, `LockReplyLost` | `warmer.ts` 27-47, `redisStore.ts` 68-75; `TryLock` includes the plan, or a `PREWARM_FILE` that cannot be read |
| `WarmHit`, `WarmComputed`, `WarmFails`, `Finish` | `prewarm.ts` 78-93: a lane takes the next query without an await between test and increment |
| `UnlockGet`, `UnlockDel`, `UnlockFails` | `redisStore.ts` 77-80: two commands |
| `Redeploy`, `Register`, `Flush`, `RedisGone`, `Crash`, `Kill` | operators and accidents, at most `MaxChanges` of them |
| `RedisBack` | an outage of Redis ends; it need not |

The pool and the cache are modelled on their own; here a search hits or misses,
and a computation ends on some running worker of the process's list or fails. Redis
is up, down (its data kept or lost), or not used at all; while it is down, no command
that changes it succeeds and every read of it fails, so a search misses and the registry
is not followed. `creating` is a process or warmer inside `createServices`, which waits
for the first connection: the client tries again for ever (`redisStore.ts:32`) and
the wait has no timeout (`bootstrap.ts:65`). A
warmer's `lease` says whether `PREWARM_LOCK_MS` outlasts its runs.

### StationPicker, JourneyList, SearchPage, Frontend

A step is one browser event with the state updates of its handler and the React
effects they set off, which run before the next event. `StationPicker!Settle` is
the two effects of the picker (text follows value; abort, and ask anew);
`ListEffects` and `UrlEffect` are those of the page. `calls` are the searches
under way; `Answered(i)` takes any of them, as the code does. `Reload` drops
everything but the URL. In `Frontend` the origin's picker has its full state and its
value is the form's; the destination's is the choice of a station, as the same component
would only multiply states.

### Study

| Actions | Code in `loadtest/run.ts` |
|---|---|
| `Skip`, `Begin`, `End` | `main` 430-450 |
| `Deployed`, `DeployFails`, `SmokePasses`, `SmokeFails` | 311-327, 437-445 |
| `StartAct`, `CommandEnds`, `CommandFails` | set-up and restore, 329-351: one action after the other, its commands at once |
| `Measure`, `K6Ends`, `Finish` | 353-391, 302-309 |
| `StartFault`, `FaultEnds`, `FaultFails` | the timeline beside k6, 359-371 |
| `Restore` | 375-379: after the timeline |
| `StrayEnds` | commands left under way by a `Promise.all` that failed, 183-191 |
| `Restart` | the controller dies or has ended, and is started again |

`meta` is what outlives the controller. `trouble` and `strayed` are history: they
say that something could not be undone, and that a command outlived its action.

### Preprocess, Geocode, Rollout, Analysis, Reply, PrewarmPlan

Pure operators: one per function of the source, from an input to an output.
They are checked by `Algorithms`, whose behaviours pick a job and do it, against
reference definitions (`SoundTimetable`, `SoundPages` ...) that state the result
without computing it the same way.

### Fault variants

Some definitions come with a variant that contains a plausible mistake, named in
the comment above the pair (`ReleaseAndFree` for `Release`, `SeenOnlyWhenLast`
for `Seen`). No specification uses a variant. Put in the place of the original, it makes TLC
find the property violated that PROJECT.json names beside it, which shows that
the property can fail and that the instance is large enough to notice.

## 3. Runs

| Run | Instance | Shows |
|---|---|---|
| `pool_hedge` | 3 requests, 2 workers of 1 slot, hedging, 1 retry, threshold 2, `MAX_QUEUE` 0; 217,125 states | counters, slots, hedge pairs, no orphaned or forgotten request, nothing after the timeout |
| `pool_live` | 2 requests, 2 workers, a list that shrinks, fairness; 49,266 states | the pool implements `WorkerSlots`; every request is answered, every call ends |
| `cache` | 3 calls, 2 processes, four settings, fairness; 21,348 states | one load per process, shared loads settle, only a computation fails a call, no stampede in the calm settings (where commands fail, a late `MULTI` may delete another caller's lock, and two may compute), every call returns |
| `router` | all 1,001 timetables of 4 out of 14 trains under 3 limits; 119,283 states | admissible bound, refinement of `BestFirst`, complete and ordered answers, prefixes under a budget |
| `page` | 2 stations, 2 dates, 4 links, answers of 3 and of 0 journeys; 365,165 states | the last search is shown, the URL restores it, page, selection, badges and pins agree, the picker's text, list and lookup agree |
| `deployment` | 2 processes; 2 warmers; one of each with 1 or 2 lanes; 2 workers, 1 change; Redis up, down or unused at first; fairness; 370,739 states | only results of the own timetable are rendered, one warmer at a time, each query warmed once, processes come to serve, stopping and warming end, each unless it still waits for its first connection to Redis |
| `algorithms` | 185,348 states: every job before and after | timetables, coordinates, rollout plans, counts, capacities, recoveries, answers, lookups and prewarm plans against reference definitions |
| `study` | 3 variants, 4 repeats, 2 workers, 1 failed command, 1 restart, fairness; 531,917 states | faults undone, measured as planned, honest exit code, the study ends |
| `pool_cap`, `router_loop`, `deployment_identity`, `deployment_redis` | violations | section 4 |

**Bounds.** *Pool.* Three requests on two single-slot workers give every pair of
queue positions, a waiter behind a waiter, a hedge that queues, and with
`MAX_QUEUE` 0 a request that is refused. One retry and one hedge already make a
call's failure decide a try, or not. `failures` needs no bound, as a request
makes at most one call on an object. Requests and workers are symmetric where no
fairness is used.

*Cache.* Two calls of one process and one of another give a
leader, a follower and a competitor; without coalescing all three compete.

*Router.* Five stations, a ten-minute day, trains with skips, an unnamed point, an
overnight run, a train that does not run on the query's weekday; two transfers,
a horizon into the next day. The three limits are: all journeys of up to two
transfers; three journeys of at most one transfer, with 20 labels (some searches
are cut short); and `k_node` 1. The numeric parameters of the program (1440
minutes, 50 journeys) enter the algorithm only by comparison.

*Page.* Two cards to a page and three journeys make a second page; one journey is
direct, two share a train, the shortest is not the earliest, so each filter and
order changes page and selection. The links are: none, one with a station the
API does not know, one with a filter and an order, one with an order that means
nothing.

*Deployment.* `MaxChanges` bounds what operators and accidents do: one worker
that stops, starts or is replaced, one registry change, one flush of Redis, one outage
of Redis, one crash or kill; each together with any order of everything else. The end of
an outage does not count. Engines start all down, one up or both up with different
timetables, and Redis within reach or not, which gives by itself what a second change
would: an outage that began before the first process started, say, and then a crash.

*Study.* One variant kills and restarts workers, one does so with Redis, one sets
up a smaller registry that a worker joins during the run: the shapes of the
catalogue's fault experiments. Two actions at the same time, an action listed
before an earlier one, and a variant with two repeats are in. One failed command
and one restart reach every error path.

*Algorithms.* Every combination of absent, equal, backward and next-day times,
absent and repeated sequence numbers, missing distances and placeholder codes in
one record of three stops, under each policy; all triples of sixteen records that
share numbers, names and timetables, or lack a number; five stations in a line with one at
a wrong place, a little or far off, or all right, and up to two unknown; the default roles of three to six hosts and two inventories with
mixed roles, under every setting; all ramps of up to four
steps, all runs of seven samples; journeys whose trains start on different days; all subsets of
five stations whose codes and names are prefixes of each other. For the plan of a
warmer a day has four hours, three or five when clocks change, and one station is
taken beyond the square root (24 and 10 in the code, where they only scale): up to
five stations, up to nine pairs, every hour of the first day, one to three days,
times in order, out of order, repeated and none, extras that are planned anyway,
repeated, unknown or from a station to itself.

**Deadlock** is checked in the pool's runs and the page's. The others switch
it off because there all calls may have returned, a search, a program, a warmer or
the study ends, and a deployment may be stopped.

**Fairness.**

- `EnginePool`: a request's timer fires unless the request ends first,
  and an aborted `fetch` rejects or has already been answered. Both are
  promised by the runtime. An engine that was not told to stop may stay silent for
  ever, and retries, hedges and health checks are never forced.
- `RouteCache`: every Redis command answers or times out (`withTimeout`), the
  computation ends (this is `EveryRequestAnswered` of the pool), the poll loop is
  bounded, and Redis expires locks. Late commands and expiring values are not forced.
- `Deployment`: an exit of a process reaches the supervisor, `createServices` ends if
  Redis *stays* within reach or is not used (`WF` of `Wire` and `BeginWait`, whose guard
  is `CreatesServices`), after it start-ups and the 5 s timer run, a signal arrives, a
  draining process ends by its 10 s timer; after `createServices` a warmer's wait has
  a deadline, its calls have timeouts, its lock a TTL. That Redis comes back,
  searches, the registry poll and everything operators do are not forced.
- `Study`: what the controller waits for ends. For k6 and `deploy.sh` that is their
  own duration; for an ssh command it is an assumption: only connecting has a
  timeout (`run.ts:138`), so a host that accepts a connection and then hangs
  stops the study. A restart is not forced.

## 4. What the violations show

1. `pool_cap`: a URL that drops out of the registry for one poll comes back with
   a fresh semaphore while calls on the old one run, so a process has more than
   `ENGINE_CONCURRENCY` calls there (`enginePool.ts:149`, against README.md:898).
2. `router_loop`: the stay-on ceiling checks the rest of the train against the
   chain but not against itself. A train that passes a station twice thus prunes
   by a ride that the search itself refuses; in the run no journey is found
   where one exists (`router.cpp:411-422`, against README.md:348).
3. `deployment_identity`: after the first answer the identity is never resolved
   again. An engine deployed with another configuration computes results that are
   stored under the old identity, and served from there, also to processes whose
   engines have the old configuration (`apiProcess.ts:22`, against
   `apiProcess.ts:18-19`). `RendersOwnTimetable` holds all the same: the check
   before rendering catches another *timetable*, at the price of errors for that
   query until the entry expires, because the result is cached before it is
   checked (`routeService.ts:55-58`).
4. `deployment_redis`: `createServices` awaits `redis.connect()` (`bootstrap.ts:65`), and
   the client tries for ever (`redisStore.ts:32`), so the promise neither resolves nor
   rejects while Redis cannot be reached and the `catch` never runs. A process
   forked meanwhile does not ask for its identity and does not listen, so the API is
   smaller by each process that crashed during an outage, against `bootstrap.ts:64`
   ("Not fatal"). A warmer computes its deadline only afterwards (`warmer.ts:20` and
   26), so it never ends, against `warmer.ts:4-5`. On its first start
   `docker-compose.yml:96` and `:126` hold the API and the warmer back until Redis is
   healthy; nothing does so for a fork, or a warmer's rerun, during an outage. `AllServe` and `WarmersEnd` state what is left: who still waits for its
   first connection is excepted, and only while Redis is out of reach.

Smaller disagreements met while reading, without a run of their own:

- `enginePool.ts:344` compares the size of `tried`, which may hold workers that
  left the list, with the list: a request can fail with a retry left and a listed
  worker untried (README.md:811).
- `routeCache.ts:89`: who gets the lock does not look for the value again, so a
  caller whose GET missed before the winner's SET computes it a second time
  (`routeCache.ts:7-8`).
- `router.cpp:67`: journeys equal in arrival, departure, transfers and waiting
  come in the order their labels were made, not by signature (`router.h:6-7`).
- `preprocess.ts:95-107`: a train is compared only with the first of its timetable,
  so of three trains named A, B, B with one timetable the second B, a copy, stays
  (comment on line 85).
- `render.ts:290-292`: the phase of a host is its latest role's, so with Redis on
  an API or nginx host Redis is not deployed first; and the API does not refuse to
  start without an engine, it listens and asks again (`apiProcess.ts:22`).
- `prewarm.ts:27`: the date of the n-th day is that of the instant n * 24 hours from
  now. In a zone that changes its clocks, a plan made in the last hour before a
  23-hour day leaves that day out, and one made in the first hour of a 25-hour day
  has that date twice and one date too few (`config.ts:71`, "today plus days-1
  following dates"). Asia/Kolkata, the default, does not change its clocks.
  `ChoiceSound` asks for the following dates only where no clock is changed, and for
  no repetition everywhere.
- `StationPicker.tsx:113`: the first keystroke over a chosen station drops the value,
  and the effect that is to "keep the text in sync when the value changes from outside"
  (line 26) then sets the text to that of no station: the keystroke is lost and the
  input is empty. `TextAfter` in `StationPicker` is this effect.
- `StationPicker.tsx:48`: a lookup that is aborted leaves `loading` set until the
  next one ends.

## 5. Proofs

| Theorem | Says |
|---|---|
| `EnginePoolProofs!TypeCorrect` | `Spec => []TypeOK` |
| `EnginePoolProofs!SlotsNeverLeak` | `Spec => []SlotsOK` |
| `EnginePoolProofs!OutstandingNeverDrifts` | `Spec => []OutstandingExact` |
| `EnginePoolProofs!InFlightNeverDrifts` | `Spec => []InFlightExact` |
| `EnginePoolProofs!NobodyIsForgotten` | `Spec => []NobodyForgotten` |
| `EnginePoolProofs!NoWorkIsOrphaned` | `Spec => []NoOrphanCalls` |
| `EnginePoolProofs!LosersAreBlameless` | `Spec => HedgeLoserBlameless`, an action property |
| `EnginePoolProofs!TimeoutIsFinal` | `Spec => NothingStartsAfterTimeout`, an action property |
| `EnginePoolProofs!PoolImplementsSlots` | `Spec => SlotsPromise`: every worker of the pool refines `WorkerSlots` |
| `EnginePoolProofs!ReleaseCorrect`, `CancelWaitCorrect` | what release and cancel do to one semaphore |
| `RouterProofs!BoundsAreAdmissible` | `Spec => []BoundAdmissible` |
| `RouterProofs!SearchIsBestFirst` | `Spec => EnumerationPromise`: the search refines `BestFirst` |
| `RouterProofs!EmittedInOrder` | `EnumerationPromise => []Enumeration!InOrder` |
| `RouterProofs!AnswersAreJourneys` | `Spec => []AnswerValid` |
| `RouterProofs!AnswersInRankOrder` | `Spec => []AnswerInOrder` |
| `RouterComplete!AnswersAreShown` | `Spec => []AnswerOrdered`: all that is returned is worth showing, and in order |
| `RouterComplete!NoJourneyIsMissed` | `Spec => [](LoopFree(tt) => AnswerComplete)` |
| `RouterComplete!AnswersAreTheBest` | `Spec => [](LoopFree(tt) => AnswerSound)`: the answer is a prefix of the ranking |
| `RouterComplete!PruningIsSound` | `Spec => [](LoopFree(tt) /\ KNode = 0 => DominanceSound)` |
| `RouterComplete!DominatedIsPointless` | on every valid journey, the code's two tests are the definition of `Pointless` |
| `RouteCacheProofs!LoadsAreCoalesced` | `Spec => []Coalesced` |
| `RouteCacheProofs!RemoteFailsOpen` | `Spec => []FailsOnlyByCompute` |
| `RouteCacheProofs!LockPreventsStampede` | `Spec => []NoStampede` |
| `FrontendProofs!LastSearchShown` | `Spec => []ShownIsLastSearch` |
| `FrontendProofs!UrlIsShareable` | `Spec => []UrlShareable` |
| `FrontendProofs!ViewIsConsistent` | `Spec => []ViewConsistent` |
| `FrontendProofs!PickerIsSound` | `Spec => []PickerSound` |
| `FrontendProofs!FrontendTypes` | `Spec => []TypeOK` |
| `StudyProofs!ExitCodeIsHonest` | `Spec => []ExitHonest` |
| `StudyProofs!FaultsStayInside` | `Spec => []FaultsUndone` |
| `StudyProofs!MeasuredWhatWasPlanned` | `Spec => []MeasuredAsPlanned` |
| `DeploymentProofs!OneWarmerAtATime` | `Spec => []OneWarmer` |
| `DeploymentProofs!PlanIsWarmedOnce` | `Spec => []WarmedOnce` |
| `DeploymentProofs!OnlyOwnTimetableIsRendered` | `Spec => []RendersOwnTimetable` |
| `DeploymentProofs!DeploymentTypes` | `Spec => []TypeOK` |
| `AlgorithmsProofs!AnalysisIsSound` | `Spec => []AnalysisSound` |
| `AlgorithmsProofs!RolloutIsDeployable` | `Spec => []RolloutSound` |
| `AlgorithmsProofs!RepliesAreRight` | `Spec => []ReplySound` |

They hold for every value of the constants that meets the named assumptions of the
modules: `ConcurrencyAssumption` and `PoolAssumption`, `TimetableAssumption`,
`QueryAssumption`, `RouterAssumption` and `HorizonAssumption`, `CacheAssumption`,
`FrontendAssumption`, `StudyAssumption`, `DeploymentAssumption`, `GoodForAssumption`,
`PortsAssumption`, `JobsAssumption`. TLC evaluates each of them in a passing run.

**Pool.** The theorems share the inductive invariant
`IInv == TypeOK /\ InFlightExact /\ Balanced /\ Covered`. `Balanced` is `SlotsOK` with
`OutstandingExact`, in the form the semaphore lemmas need. `Covered` says that a
worker on which a request has a call is one the request has tried. None of the properties
is inductive without it: `pick` avoids the workers in `tried`, so only `Covered` tells
that the call it starts is not on that semaphore already, and only then does
`Acquire` keep the semaphore well formed. Every action acts on a semaphore by one
of the three operations, so each action's step is the matching lemma at the
workers it touches, and a step about the counter. `InFlightExact` counts a set
of requests, of which each action adds or removes at most one.

The second half of `EnginePoolProofs` needs to know *which* calls a worker has, not how many. Its
invariant `PInv` adds `Answerable(r)`: nothing was done for a request that is not
admitted; one that is tried has a call; one that is settled has only calls of a lost
race. An action is described by the calls of *its* request that join, leave or stop
waiting; every other request is a `Bystander`, to which it does nothing, save that a
waiting call may get a slot. `NobodyForgotten` and `NoOrphanCalls` follow, and so do the
action properties, which hold of each step by its guards and the calls it starts. For
the refinement, `SlotStep` states the steps of `WorkerSlots` of one semaphore's
before and after; each of the three operations is such a step, an action touches a
semaphore with one of them, and the worker's held and waiting calls then
move as `WorkerSlots!Next` allows, or stay.

**Search.** The proof has six layers, the last two in `RouterComplete`.

*Bounds.* `ScanInv` says what the scan has established of the connections behind
it. On board before a scanned connection the bound is no worse than that of riding on,
and, where the connection ends at the destination within the horizon, than arriving there,
and elsewhere than what the station's profile gives from arrival plus `TR` on, one
transfer more. A profile has its departures in falling order with bounds that do not
rise (`EvalKept`), so its value at a time covers every scanned departure from
then on; a later connection does not disturb that, because it departs no later. Once
nothing is left to scan, these facts hold of all connections, and an induction
backwards along a journey, from its last stop to its first, gives
`BoundsAreAdmissible`.

*Keys.* `SearchInv` says of each label that its key is the bound at its event or
station, with its departure, transfers and waiting so far (`KeySound`). So the labels that a
step pushes have keys no smaller than the key of the label taken (`Succeeds`): riding on and
changing by the facts about the bounds, boarding because waiting only grows; and the key of a
label at the destination *is* its rank. With the ceiling, the pruning rules and `k_node`
fewer labels are pushed, which the argument does not mind. This is the step simulation of `BestFirst`, so `SearchIsBestFirst` needs no
assumption about pruning.

*Journeys.* The chain of a label is a journey as far as it goes (`ChainSound`): its legs
meet with time to change, its calls are at stations the chain has not, its trains
differ. `Ridden` and `Boarded` test one station and one train against the chain;
`OneCallMore` shows that this is enough. What is completed is then in the set that
`Journeys` enumerates leg by leg (`CompletedIsJourney`, `AnswersAreJourneys`).

*Order.* `EmittedInOrder` says of any enumeration that what it emits is in order: no key of
the frontier is below an emitted one. Through the refinement it holds of the ranks of the
answer; `Seen` keeps the signatures apart.

*Dominance.* `Pointless` says that a valid journey with one leg in the place of others is
better; the code tests that leg on a completed journey without asking whether
the result is valid. `LeavingEarlyIsPointless` and `BoardingLateIsPointless` show, by what a
splice is leg by leg (`SpliceFacts`, `SpliceIsBetter`), that whatever passes the code's
tests is a valid journey that arrives no later, departs no earlier and changes less;
`StayingOnIsFound` and `BoardingEarlierIsFound` show that the tests miss none, though the code
looks only at the train's first call at a station. Together they are
`DominatedIsPointless`, for any timetable.

*Completeness.* The danger is in what is never completed. `CompleteInv` says of every journey
worth showing that its itinerary is in the answer or a label that waits is a part of it
(`Covered`, `OnWay`); that each ceiling is the arrival of a train that a leg of the label has
left, which goes on to the destination (`StaysOn`); that whatever ranks before an answer is
in the answer before it (`Ranked`); that answers are worth showing, and the search ends full,
truncated, or with nothing waiting. Taking a label keeps it: each journey the label is
on the way to has a successor on its way (`RidingCovers`, `AlightingCovers`,
`BoardingCovers`), as the promise of the bounds keeps its key below the horizon
(`PromiseKept`) and its ceiling above (`CeilingIsLate`). The last rests on `LateIsPointless`:
a journey that arrives no earlier than a train it left could have stayed on it, unless
that train calls somewhere twice. `Ranked` needs `KeyBelow`, that a label on the way
to a journey has a key no greater than the journey's rank, so when an answer is taken
nothing on the way to an earlier one still waits.

The hypothesis `LoopFree` is the condition under which the ceiling is sound, and no more: with
the stay-on rule on, a train that goes on to the destination has not called at a station twice
before. Such trains are in the data (README.md:143), and `router_loop` (section 4) has the journey that is lost with
one. `AnswersAreShown` needs no hypothesis, so with loops, the cap or the budget something
may be missing, but nothing shown is invalid, pointless or out of order.

Two assumptions come from outside `router.cpp`. `Timed`: an arrival is missing at the
first stop only. `finalize()` does not check it, and with such a stop the scan would read -1
as an arrival; `timetable.h:24` says it, and the preparation fills the
time in (`normalize.ts:200-204`) or rejects the train. `HorizonAssumption`: times stay below
the code's `INF`, as the constructor clamps the horizon to 30 days (`router.cpp:229`).

**Cache.** `Inv == Sharing /\ LockIsWork`. `Sharing` says that a process's map of
promises holds exactly its running loads (`LoadsOffered`, `OffersLoad`), that who
waits, waits for a running load of its process, and who does not, leads itself.
`Coalesced` is not inductive without the map: `Start` looks there and nowhere
else. In the calm settings `LockIsWork` adds that the holder of the lock is
exactly the call that computes or stores, and that a poller sees that lock
until the value is there, so the end of the poll loop never lets it compute
beside the holder.

**Page.** `PageInv` has four parts. `DataInv`: at most one call is under way, it is the
last search, the page is loading meanwhile, and there is none before the page is ready.
The page itself takes any answer, so that the results shown are the last search's rests
on the disabled button. `ListInv`: the page number lies in the pages of the list *as it
is filtered now*, and the selection is listed. `UrlInv`: once something was searched the
URL is that of the search, the filters and the order. `FormInv` keeps the map's pins with
the form. `UrlShareable` then is a fact about the two conversions, proved as a lemma:
what `FiltersToParams` writes, `FiltersFromParams` reads back, absent
parameters and defaults included. `ViewConsistent` needs that the sorted list exists
and has the filtered journeys exactly, so the proof shows that any finite set with a
strict total order has its sequence, by induction on the size of the set, and
that the four orders are such, since the API's ranks differ. A picker lookup under way is for the
text shown, and a chosen station's text is its label (`PickerInv`); each key, timer,
answer and swap keeps both. `FrontendAssumption` says what the code takes
from elsewhere: labels are not empty, a lookup returns stations, ranks of
one answer differ, links carry trains that may exist.

**Study.** `ExitInv == Place /\ Accounted /\ ExitHonest`: if this start has no
failed repeat, every repeat behind the loop's position is recorded as ok. For the faults,
`FaultInv` says that what differs from a whole deployment is always of a kind
that the phase allows: those of the variant's actions during set-up and
measurement, those of the undo actions left during restore, none outside; and,
while the workers are started again, that those not up are still being started.
`RestoreUndoes` is the lemma that the undo list covers the kinds of the variant.
`MeasuredAsPlanned` rests on both and on `PlanInv`: during the set-up the infrastructure
is what the actions done so far make of a fresh deployment (`AfterEach`, a recursive
function), with the commands of the current action that have ended (`HalfDone`),
in whatever order they do. That a function with this recursion exists is itself
proved, by induction over its length.

**Deployment.** Redis may go and come back in any of these theorems. `LockInv` strengthens `OneWarmer` to: while leases suffice and Redis
has lost nothing, every warmer that runs has the lock of its identity. Two that
run with one identity would both have it. `BooksInv` is the accounting behind
`WarmedOnce`: every planned search before the cursor was taken once, none after it, each
taken one is in a lane or in one of the three counts, and a lane is done only when the
cursor has passed the plan. `ServerInv` says of each process that what it holds (its
identity, list, search and answer) is of the kinds the program knows; an `ok` answer among them
has a result that fits. Each is kept by the steps of the other two
parts because they leave its variables alone.

**Analysis.** A behaviour of `Algorithms` only does its job once, so the invariant
(`Done`) says that a finished job has the output of its function, and the work is in
the functions. `counterDelta` is a loop over samples; its invariant is `Behind`: with
`gap` for what happened so far less what was counted, `prev` for the last sample seen and `v`
for the counter now, either `gap >= v`, or the counter has only grown past `prev` and
`gap >= v - prev`. The first alternative is that of a restart which the samples do not show
because the counter had passed its old value again; what happened before is then missed, and
never counted twice. Without restarts the gap is `v - prev` exactly, so that the
last sample closes it. For the capacity, the knee of a ramp that did break is at the same
step in any longer ramp, and of one that did not it lies behind all its steps; the
largest rate held before it can only grow with it. A recovery is the least sample of its kind, so
that the last bad sample before it has nothing bad after it up to the recovery's end. The
three are about sequences of any length, with any number of restarts and failed scrapes.

**Rollout.** By the same invariant, the theorem is about `Render`. `Lists(L, S)` says that a
sequence has the members of a set, each once; `Only` does this for the hosts with a role, by induction over the
inventory, and `API_HOSTS` keeps an inventory an inventory. In the closed form of `AllSlots` two positions
with one host and one slot are one position (`Slots`), by the uniqueness of quotient and
remainder; spread, every first slot comes before any second (`FirstSlotsFirst`), so where a host has
two engines, every other has one, whatever prefix `WORKERS` takes. The services are then known by name: a name
and a host determine the service, a port the name (`NameAt`), unless the engines' ports
are ports of others, which `PortsAssumption` excludes. So no port is wanted twice. Each part of
a list of addresses has ports of its own, and so the joined list repeats none. Counts are bijections with the
positions of a list.

**Reply.** `JobsAssumption` has the engine's side: trains that `finalize()` accepts with all their
arrivals (`Loaded`), and journeys of rides that meet (`Rides`, which `RouterProofs` shows of the search),
with its figures. For the pages, the filter keeps the ranks that pass in their order (`Ascending`, by induction over
the journeys), page p begins behind `(p - 1) * limit` of them (`PageBounds`, by the facts about
quotients), and each rank is on the page that its quotient names. For a route, the waits are the time that the
rides leave, by induction over the legs (`RidesAndWaits`), so `travel + waiting`, which the engine computes
by subtraction, agrees with the waits that the API computes one by one; and the stops of a segment go
forward because those of an accepted train do. Sums and kept ranks are recursive functions, as loops of this kind are
everywhere in the modules with theorems.

**What the proofs changed.** Stating the theorems for every constant found places where the
models were wrong or said too little, though no run did. `kill-workers` with count 0
kills every worker, as `slice(-0)` is `slice(0)` (`run.ts:181-182`); the model killed
none. A fleet of no workers is refused by `render.ts:108`, so a theorem about any
fleet has to leave it out. In the types of the API processes `SUBSET Workers \ {{}}`
read as the subsets of a difference, which allows an empty list. Filters, orders and URL
parameters of the list are now stated for any trains and journeys, the order by what it
is instead of by a library sort. For the search, stating the bounds for any timetable
showed that `finalize()` accepts one whose missing arrival the scan would read as a time
(`Timed`), and that bounds are only ordered while times stay below `INF`. And the tests
on a completed journey compared stations along it in a form of their own; they are now stated on the
spliced journey, like the code, which collects its stations and sorts them. `counterDelta`
was a sum over pairs of neighbouring samples; it is now the loop of the code, with its two variables.
`render.ts` accepts an `ENGINE_PORT_BASE` at which an engine takes the port of another service (3000, say, is Grafana's),
and nothing is deployable then; that the configured 7070 is clear of them is now an assumption. Slots and
hosts of a role were folds and filters of the library; they are now a closed form and a recursive function. The pages
are stated by their ranks instead of a flattened sequence, and the stops of a segment by pairs instead of a
filtered sequence of moments.

## 6. Only model-checked

- Liveness, everywhere: `EveryRequestAnswered`, `EveryCallReturns`, that processes come
  to serve, that warming and studies end. ENABLED is out of the prover's reach.
- Of `Router`, nothing for timetables without loop trains. With them
  `AnswerComplete` and the first part of `AnswerSound` are false for some timetables (section 4,
  `Router_loop`), so of these only the run's own timetables are known to have them.
- The operators of `Algorithms` other than those of `Analysis`, `Rollout` and the replies
  (`TimetableSound`, `CoordinatesSound`, `ChoiceSound`): what their folds,
  sorts and recursive definitions compute.
  The library's induction theorems take an operator as a parameter, which the installed
  provers cannot instantiate, and folds, `SortSeq` and `@@` are opaque to them. Where a
  theorem above needed an induction, the models use a recursive function or a
  definition by its property, and the proof uses a minimal element
  of a set of numbers instead (`SetInduction`).
- That each cap on a worker's calls holds across the worker objects of a URL, and the other
  claims of section 4: they are false.

## 7. Not modelled

- The engine server: a thin layer over its HTTP library whose threads and queue
  are the library's; what callers see of it (answers, errors, silence, health,
  restarts) is in `EnginePool` and `Backends`. Encoding of answers, the calendar.
- The pool's reported load, hash ring, name resolution, statistics and `health()`.
- The cache without a store (a plain call of `compute`), compression and counters.
  Keys share nothing, so one key is enough.
- Mongo, metrics, health endpoints, rate limits, headers and configuration of the API;
  how the cluster module spreads connections.
- The map, hovering, the switch between list and map, details of a card.
- Parsing of raw files and operating days, names and types of trains, the
  report of the preparation, seeding.
- The compose files beyond services, hosts and ports; the reports and tables of
  the analysis; the catalogue of experiments beyond the shapes of its faults.
- In the controller: a missing or truncated file, which ends it with 2 (also a
  `meta.json` cut short by a crash, at every later start); a manifest line lost between the two writes of
  `finish`; a summary of an earlier attempt that makes a run with exit code 99
  count; and a `docker start` that fails inside a script that goes on.
- Instances by calendar date: `Timetable` follows `build_pattern`, and `Journeys`
  uses the same instances, so an error in the day offsets would not show.

## 8. What could follow

1. A reference for `Instances` by calendar date, over all small spans, weekdays
   and horizons.
2. `EngineServer`: the drain flag and the grace period against the pool's health
   checks, with the HTTP library as an environment.
3. The tables of the analysis.
