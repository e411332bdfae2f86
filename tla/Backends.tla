------------------------------ MODULE Backends ------------------------------
(***************************************************************************)
(* What the API processes and the cache-warmers share: the engine workers, *)
(* and Redis with the set that lists them, the cached results and the      *)
(* warm-up lock.  They are external; operators may change them at any      *)
(* time, MaxChanges times in a behaviour.                                  *)
(*                                                                         *)
(* A result is represented by the identity (routing configuration and      *)
(* timetable hash) of the worker that computed it.                         *)
(***************************************************************************)
EXTENDS Integers, FiniteSets

CONSTANTS
  Workers,         \* engine URLs: the static list, ENGINE_URLS
  Identities,
  TimetableOf,     \* the timetable hash in an identity
  OwnTimetable,    \* the hash of the timetable.json of the API image
  Default,         \* the identity in the cache keys of a process that has none yet
  Down, Nothing,
  Queries, Warmers,
  MaxChanges       \* bound: changes by operators, and crashes

VARIABLES
  engine,          \* the identity each worker runs with, or Down
  redis,           \* "up", "down" (it cannot be reached), "none" (no REDIS_URL)
  registry,        \* the set under ENGINE_REGISTRY_KEY
  cache,           \* the result under each key, or Nothing
  lock,            \* lock:prewarm:<identity> : the warmer whose token it holds, or Nothing
  flushed,         \* Redis lost its data (history)
  changes

backendVars == <<engine, redis, registry, cache, lock, flushed, changes>>

Keys == Queries \X (Identities \cup {Default})
NoEntries == [k \in Keys |-> Nothing]
NoLocks   == [i \in Identities |-> Nothing]

BackendsTypeOK ==
  /\ engine \in [Workers -> Identities \cup {Down}]
  /\ redis \in {"up", "down", "none"}
  /\ registry \subseteq Workers
  /\ cache \in [Keys -> Identities \cup {Nothing}]
  /\ lock \in [Identities -> Warmers \cup {Nothing}]
  /\ flushed \in BOOLEAN
  /\ changes \in 0..MaxChanges

BackendsInit(es, rs) ==
  /\ engine \in es /\ redis \in rs
  /\ registry = {}
  /\ cache = NoEntries /\ lock = NoLocks /\ flushed = FALSE
  /\ changes = 0

Running(ws) == {w \in ws : engine[w] # Down}
Fits(i)     == TimetableOf[i] = OwnTimetable

Change == changes < MaxChanges /\ changes' = changes + 1

(* A worker stops, starts, or is deployed with another configuration or timetable. *)
Redeploy(w) ==
  /\ Change
  /\ \E i \in (Identities \cup {Down}) \ {engine[w]} : engine' = [engine EXCEPT ![w] = i]
  /\ UNCHANGED <<redis, registry, cache, lock, flushed>>

Register(ws) ==
  /\ Change /\ redis = "up" /\ ws # registry
  /\ registry' = ws
  /\ UNCHANGED <<engine, redis, cache, lock, flushed>>

Emptied == registry' = {} /\ cache' = NoEntries /\ lock' = NoLocks /\ flushed' = TRUE

(* FLUSHALL of a deployment. *)
Flush == Change /\ redis = "up" /\ Emptied /\ UNCHANGED <<engine, redis>>

(* Redis stops, and without persistence forgets everything, or the network to it fails. *)
RedisGone ==
  /\ Change /\ redis = "up" /\ redis' = "down"
  /\ Emptied \/ UNCHANGED <<registry, cache, lock, flushed>>
  /\ UNCHANGED engine

(* No bound is needed: there is one return for each outage, and one for a late start. *)
RedisBack ==
  /\ redis = "down" /\ redis' = "up"
  /\ UNCHANGED <<engine, registry, cache, lock, flushed, changes>>

BackendsChange ==
  \/ Flush \/ RedisGone \/ RedisBack
  \/ (\E w \in Workers : Redeploy(w)) \/ \E ws \in SUBSET Workers : Register(ws)

(***************************************************************************)
(* createServices awaits the first connection to Redis, if there is one to *)
(* connect to; the client tries for ever, and the wait has no timeout.     *)
(***************************************************************************)
CreatesServices == redis # "down"

(* The SET of a result may be lost: the caller answers all the same. *)
Store(key, result) == cache' = cache \/ (redis = "up" /\ cache' = [cache EXCEPT ![key] = result])
=============================================================================
