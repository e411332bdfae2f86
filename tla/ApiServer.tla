------------------------------ MODULE ApiServer ------------------------------
(***************************************************************************)
(* The API: the supervisor of server.ts, the processes of apiProcess.ts    *)
(* with the identity that goes into their cache keys, and a search through *)
(* app.ts and routeService.ts.  The pool and the cache are modelled in     *)
(* EnginePool and RouteCache; here a search misses or hits, and a          *)
(* computation ends on some running worker or fails.                       *)
(***************************************************************************)
EXTENDS Backends

CONSTANTS
  Procs,           \* places for processes
  Asked            \* the queries clients ask, a subset of Queries

VARIABLES
  places,          \* the NODE_CLUSTER of them that are used
  primary,         \* "running", "stopping" (SIGTERM came), "gone"
  proc

serverVars == <<places, primary, proc>>

Idle == [phase |-> "none", key |-> Nothing]
NoAnswer == [status |-> "none", result |-> Nothing, key |-> Nothing, cached |-> FALSE]

(***************************************************************************)
(* A process: its state, the identity in its keys (configHash), whether    *)
(* the 5 s timer that asks again for the identity is set, the workers of   *)
(* its pool, whether a SIGTERM is on its way, the search it runs and the   *)
(* last answer it gave.                                                    *)
(***************************************************************************)
NoProcess ==
  [st |-> "down", id |-> Default, timer |-> FALSE, list |-> Workers, term |-> FALSE,
   search |-> Idle, answer |-> NoAnswer]

ServerTypeOK ==
  /\ places \subseteq Procs
  /\ primary \in {"running", "stopping", "gone"}
  /\ \A p \in Procs :
       /\ proc[p].st \in {"down", "creating", "starting", "serving", "draining"}
       /\ proc[p].id \in Identities \cup {Default}
       /\ proc[p].list \in (SUBSET Workers) \ {{}}
       /\ proc[p].search.phase \in {"none", "lookup", "computing"}

ServerInit(ps) == places = ps /\ primary = "running" /\ proc = [p \in Procs |-> NoProcess]

Alive(p)   == proc[p].st # "down"
Serving(p) == proc[p].st \in {"serving", "draining"}
Become(p, r) == proc' = [proc EXCEPT ![p] = r]

-----------------------------------------------------------------------------
(* The supervisor. *)

\* Fault: a process is forked again although the supervisor stops.
ForkAlways(p) ==
  /\ p \in places
  /\ primary # "gone" /\ ~Alive(p)
  /\ Become(p, [NoProcess EXCEPT !.st = "creating"])
  /\ UNCHANGED <<backendVars, places, primary>>

(* At the start, and whenever a worker process exits. *)
Fork(p) ==
  /\ p \in places
  /\ primary = "running" /\ ~Alive(p)
  /\ Become(p, [NoProcess EXCEPT !.st = "creating"])
  /\ UNCHANGED <<backendVars, places, primary>>

Stop ==
  /\ primary = "running"
  /\ primary' = "stopping"
  /\ proc' = [p \in Procs |-> [proc[p] EXCEPT !.term = Alive(p)]]
  /\ UNCHANGED <<backendVars, places>>

PrimaryExit ==
  /\ primary = "stopping" /\ \A p \in Procs : ~Alive(p)
  /\ primary' = "gone"
  /\ UNCHANGED <<backendVars, places, proc>>

-----------------------------------------------------------------------------
(* A process. *)

(* createServices, awaited before anything else. *)
Wire(p) ==
  /\ proc[p].st = "creating" /\ CreatesServices
  /\ Become(p, [proc[p] EXCEPT !.st = "starting"])
  /\ UNCHANGED <<backendVars, places, primary>>

\* Fault: the timer is not set.
IdentifiedOnce(p) ==
  IF Running(proc[p].list) = {}
    THEN {proc[p]}
    ELSE {IF Fits(engine[w]) THEN [proc[p] EXCEPT !.id = engine[w], !.timer = FALSE] ELSE NoProcess :
            w \in Running(proc[p].list)}

(***************************************************************************)
(* refreshEngineIdentity asks the workers one after the other, so any      *)
(* running one may answer.  Nobody answers: again in 5 s.  Another         *)
(* timetable: the process exits.                                           *)
(***************************************************************************)
Identified(p) ==
  IF Running(proc[p].list) = {}
    THEN {[proc[p] EXCEPT !.timer = TRUE]}
    ELSE {IF Fits(engine[w]) THEN [proc[p] EXCEPT !.id = engine[w], !.timer = FALSE] ELSE NoProcess :
            w \in Running(proc[p].list)}

\* Fault: an empty registry empties the list.
MembersRaw(list) == {list, registry}

(* The registry as SMEMBERS gave it; an empty one, or none, leaves the list. *)
Members(list) == {list, IF redis # "up" \/ registry = {} THEN list ELSE registry}

(* From the services to listening: identity or not, the process listens. *)
StartUp(p) ==
  /\ proc[p].st = "starting"
  /\ \E r \in Identified(p), l \in Members(proc[p].list) :
       Become(p, IF r.st = "down" THEN r ELSE [r EXCEPT !.st = "serving", !.list = l])
  /\ UNCHANGED <<backendVars, places, primary>>

Refresh(p) ==
  /\ Serving(p) /\ proc[p].timer /\ Running(proc[p].list) # {}
  /\ \E r \in Identified(p) : Become(p, r)
  /\ UNCHANGED <<backendVars, places, primary>>

(* Once a second. *)
Sync(p) ==
  /\ Serving(p)
  /\ \E l \in Members(proc[p].list) \ {proc[p].list} : Become(p, [proc[p] EXCEPT !.list = l])
  /\ UNCHANGED <<backendVars, places, primary>>

(* While it starts there is no handler, and SIGTERM ends it. *)
Terminate(p) ==
  /\ proc[p].term
  /\ Become(p, IF Serving(p) THEN [proc[p] EXCEPT !.st = "draining", !.term = FALSE] ELSE NoProcess)
  /\ UNCHANGED <<backendVars, places, primary>>

(* server.close() waits for the searches under way, 10 s at most. *)
Exit(p) ==
  /\ proc[p].st = "draining"
  /\ Become(p, NoProcess)
  /\ UNCHANGED <<backendVars, places, primary>>

Crash(p) ==
  /\ Alive(p) /\ Change
  /\ Become(p, NoProcess)
  /\ UNCHANGED <<engine, redis, registry, cache, lock, flushed, places, primary>>

-----------------------------------------------------------------------------
(* A search. *)

Answer(p, a) == Become(p, [proc[p] EXCEPT !.search = Idle, !.answer = a])

(* 400, 429, 500 or 503 with the code of the error: the next search is not affected by which. *)
ErrorAnswer == [NoAnswer EXCEPT !.status = "error"]

\* Fault: only fresh results are checked.
ReplyTrustingCache(p, result, cached) ==
  Answer(p, IF cached \/ Fits(result)
              THEN [status |-> "ok", result |-> result, key |-> proc[p].search.key, cached |-> cached]
              ELSE ErrorAnswer)

(* Each result, cached or not, is checked before it is rendered. *)
Reply(p, result, cached) ==
  Answer(p, IF Fits(result)
              THEN [status |-> "ok", result |-> result, key |-> proc[p].search.key, cached |-> cached]
              ELSE ErrorAnswer)

(* The key is made of the query and the identity the process has now. *)
Receive(p, q) ==
  /\ proc[p].st = "serving" /\ proc[p].search = Idle
  /\ Become(p, [proc[p] EXCEPT !.search = [phase |-> "lookup", key |-> <<q, proc[p].id>>],
                               !.answer = NoAnswer])
  /\ UNCHANGED <<backendVars, places, primary>>

(* A body that is not JSON, breaks the schema, or names an unknown station. *)
Refuse(p) ==
  /\ proc[p].st = "serving" /\ proc[p].search = Idle /\ proc[p].answer # ErrorAnswer
  /\ Answer(p, ErrorAnswer)
  /\ UNCHANGED <<backendVars, places, primary>>

Hit(p) ==
  /\ proc[p].search.phase = "lookup" /\ redis = "up" /\ cache[proc[p].search.key] # Nothing
  /\ Reply(p, cache[proc[p].search.key], TRUE)
  /\ UNCHANGED <<backendVars, places, primary>>

(* Not there, Redis does not answer, or there is no Redis. *)
Miss(p) ==
  /\ proc[p].search.phase = "lookup"
  /\ Become(p, [proc[p] EXCEPT !.search.phase = "computing"])
  /\ UNCHANGED <<backendVars, places, primary>>

(* The result is stored under the key and then checked. *)
Computed(p, w) ==
  /\ proc[p].search.phase = "computing" /\ w \in Running(proc[p].list)
  /\ Store(proc[p].search.key, engine[w])
  /\ Reply(p, engine[w], FALSE)
  /\ UNCHANGED <<engine, redis, registry, lock, flushed, changes, places, primary>>

(* EngineError: invalid, overloaded, unavailable. *)
Fails(p) ==
  /\ proc[p].search.phase = "computing"
  /\ Answer(p, ErrorAnswer)
  /\ UNCHANGED <<backendVars, places, primary>>

ProcessStep(p) ==
  \/ Fork(p) \/ Wire(p) \/ StartUp(p) \/ Refresh(p) \/ Sync(p) \/ Terminate(p) \/ Exit(p) \/ Crash(p)
  \/ (\E q \in Asked : Receive(p, q)) \/ Refuse(p)
  \/ Hit(p) \/ Miss(p) \/ (\E w \in Workers : Computed(p, w)) \/ Fails(p)

ServerNext == Stop \/ PrimaryExit \/ \E p \in Procs : ProcessStep(p)

(***************************************************************************)
(* Forks, timers and signals are sure to come; so is the end of a process  *)
(* that drains, by its own 10 s timer.  The first connection to Redis is   *)
(* made if Redis stays there to be reached, as the client tries again and  *)
(* again; what follows it has timeouts.                                    *)
(***************************************************************************)
ServerFairness ==
  /\ WF_serverVars(PrimaryExit)
  /\ \A p \in Procs :
       /\ WF_serverVars(Fork(p)) /\ WF_serverVars(Wire(p)) /\ WF_serverVars(StartUp(p))
       /\ WF_serverVars(Refresh(p)) /\ WF_serverVars(Terminate(p)) /\ WF_serverVars(Exit(p))
=============================================================================
