-------------------------------- MODULE Study --------------------------------
(***************************************************************************)
(* The controller of the load tests, loadtest/run.ts: for every repeat of  *)
(* every variant it deploys, smokes, sets up faults, runs k6 with timed    *)
(* faults on the side, undoes them and records the outcome; a repeat that  *)
(* is recorded as ok is skipped when the study is started again.           *)
(*                                                                         *)
(* A fault action is one command per host over ssh, all at once            *)
(* (Promise.all): it fails as soon as one of them does, and the others     *)
(* then go on by themselves (stray).                                       *)
(***************************************************************************)
EXTENDS Integers, Sequences, FiniteSets

CONSTANTS
  Variants,        \* a sequence of [setup, during, repeats]; during: [at, action]
  Fleet,           \* the plan has workers 1..Fleet, one on each host
  MaxFailures,     \* bound: ssh commands that fail
  MaxRestarts      \* bound: the controller dies and is started again

ActionKinds == {"kill-workers", "start-workers", "kill-redis", "start-redis", "registry-set"}
Action      == [kind : ActionKinds, count : 0..Fleet]     \* of the workers in the plan; 0: all
Timed       == [at : Nat, action : Action]

ASSUME StudyAssumption ==
  /\ Fleet \in Nat \ {0}
  /\ Variants \in Seq([setup : Seq(Action), during : Seq(Timed), repeats : Nat \ {0}])

VARIABLES
  infra,           \* what runs: [up: workers, redis, registry]
  phase, v, r,     \* of repeat r of variant v
  acts,            \* setup or restore actions still to do, the first perhaps under way
  flying,          \* commands of the first of acts, under way
  timeline,        \* timed actions not yet started, as indexes
  faults,          \* commands of the timed action under way
  stray,           \* commands whose action has failed already
  running,         \* k6 runs
  outcome,         \* the status the repeat will have
  meta,            \* status recorded in meta.json, which outlives the controller
  force,           \* --force
  failed,          \* repeats of this start that failed
  code,            \* exit code
  failures, restarts,
  trouble,         \* history: something of this repeat could not be undone
  strayed          \* history: an action failed with other commands of it under way

vars == <<infra, phase, v, r, acts, flying, timeline, faults, stray, running, outcome, meta, force,
          failed, code, failures, restarts, trouble, strayed>>
sshVars == <<infra, flying, faults, stray, failures, strayed>>
runVars == <<timeline, running, outcome>>
mainVars == <<v, r, meta, force, failed, code, restarts>>

All     == 1..Fleet
Unset   == {}
Whole   == [up |-> All, redis |-> TRUE, registry |-> Unset]
Repeats == UNION {{<<i, j>> : j \in 1..Variants[i].repeats} : i \in DOMAIN Variants}

Init ==
  /\ infra = Whole
  /\ phase = "next" /\ v = 1 /\ r = 1
  /\ acts = <<>> /\ flying = {} /\ timeline = {} /\ faults = {} /\ stray = {}
  /\ running = FALSE /\ outcome = "none"
  /\ meta = [p \in Repeats |-> "none"] /\ force \in BOOLEAN
  /\ failed = {} /\ code = 0 /\ failures = 0 /\ restarts = 0
  /\ trouble = FALSE /\ strayed = FALSE

-----------------------------------------------------------------------------
(* Actions and the commands they are made of. *)

Cmd(k, x) == [kind |-> k, arg |-> x]

(* slice(-0) is slice(0): a count of 0 kills every worker, as "all" lists every one. *)
Counted(a) == IF a.count = 0 THEN Fleet ELSE a.count

Victims(a) == (Fleet - Counted(a) + 1)..Fleet

Commands(a) ==
  CASE a.kind = "kill-workers"  -> {Cmd("kill", w) : w \in Victims(a)}
    [] a.kind = "start-workers" -> {Cmd("start", w) : w \in All}
    [] a.kind = "kill-redis"    -> {Cmd("kill-redis", 0)}
    [] a.kind = "start-redis"   -> {Cmd("start-redis", 0)}
    [] a.kind = "registry-set"  -> {Cmd("registry", Counted(a))}

(* Redis saves nothing: with it goes the registry.  A registry of 0 is "all". *)
Apply(i, c) ==
  CASE c.kind = "kill"        -> [i EXCEPT !.up = @ \ {c.arg}]
    [] c.kind = "start"       -> [i EXCEPT !.up = @ \cup {c.arg}]
    [] c.kind = "kill-redis"  -> [i EXCEPT !.redis = FALSE, !.registry = Unset]
    [] c.kind = "start-redis" -> [i EXCEPT !.redis = TRUE]
    [] c.kind = "registry"    -> [i EXCEPT !.registry = 1..c.arg]

(* redis-cli needs the container. *)
Can(i, c) == c.kind = "registry" => i.redis

Kinds(s) == {s[k].kind : k \in DOMAIN s}
Undo(kind, count) == [kind |-> kind, count |-> count]
Faults(i) == Variants[i].setup \o [k \in DOMAIN Variants[i].during |-> Variants[i].during[k].action]

(* What the actions of the variant call for: workers, then Redis, then the registry. *)
RestoreActs(i) ==
  LET kinds == Kinds(Faults(i))
  IN (IF kinds \cap {"kill-workers", "start-workers"} # {} THEN <<Undo("start-workers", 0)>> ELSE <<>>)
     \o (IF kinds \cap {"kill-redis", "start-redis"} # {} THEN <<Undo("start-redis", 0)>> ELSE <<>>)
     \o (IF "registry-set" \in kinds THEN <<Undo("registry-set", 0)>> ELSE <<>>)

(* The timeline goes by time, and those of the same time come in their order. *)
ComesFirst(i, k) ==
  LET d == Variants[i].during
  IN \A m \in timeline : d[k].at < d[m].at \/ (d[k].at = d[m].at /\ k <= m)

-----------------------------------------------------------------------------
(* main: the next repeat. *)

Over == v > Len(Variants)

\* Fault: whatever was recorded counts as done.
DoneIfRecorded == ~force /\ meta[<<v, r>>] # "none"

Done == ~force /\ meta[<<v, r>>] = "ok"

(* The position after repeat r. *)
Advance ==
  IF r = Variants[v].repeats THEN v' = v + 1 /\ r' = 1 ELSE v' = v /\ r' = r + 1

Skip ==
  /\ phase = "next" /\ ~Over /\ Done
  /\ Advance
  /\ UNCHANGED <<sshVars, runVars, phase, acts, meta, force, failed, code, restarts, trouble>>

Begin ==
  /\ phase = "next" /\ ~Over /\ ~Done
  /\ phase' = "deploy"
  /\ UNCHANGED <<sshVars, runVars, mainVars, acts, trouble>>

End ==
  /\ phase = "next" /\ Over
  /\ phase' = "exited" /\ code' = IF failed = {} THEN 0 ELSE 1
  /\ UNCHANGED <<sshVars, runVars, v, r, acts, meta, force, failed, restarts, trouble>>

Record(status) == meta' = [meta EXCEPT ![<<v, r>>] = status]

(* deploy.sh recreates every container and empties Redis, or fails half way. *)
Deployed ==
  /\ phase = "deploy"
  /\ infra' = Whole /\ trouble' = FALSE
  /\ phase' = "smoke"
  /\ UNCHANGED <<flying, faults, stray, failures, strayed, runVars, mainVars, acts>>

DeployFails ==
  /\ phase = "deploy"
  /\ infra' \in {infra, [Whole EXCEPT !.up = {}]} /\ trouble' = TRUE
  /\ Record("deploy-failed")
  /\ phase' = "exited" /\ code' = 1
  /\ UNCHANGED <<flying, faults, stray, failures, strayed, runVars, acts, v, r, force, failed, restarts>>

SmokePasses ==
  /\ phase = "smoke"
  /\ phase' = "setup" /\ acts' = Variants[v].setup
  /\ UNCHANGED <<sshVars, runVars, mainVars, trouble>>

\* Fault: a repeat whose smoke test failed is tried again at once.
SmokeFailsRetried ==
  /\ phase = "smoke"
  /\ Record("smoke-failed") /\ failed' = failed \cup {<<v, r>>}
  /\ phase' = "next"
  /\ UNCHANGED <<sshVars, runVars, acts, v, r, force, code, restarts, trouble>>

(* The other repeats of the variant are left out. *)
SmokeFails ==
  /\ phase = "smoke"
  /\ Record("smoke-failed") /\ failed' = failed \cup {<<v, r>>}
  /\ phase' = "next" /\ v' = v + 1 /\ r' = 1
  /\ UNCHANGED <<sshVars, runVars, acts, force, code, restarts, trouble>>

-----------------------------------------------------------------------------
(* Setup and restore: one action after the other. *)

StartAct ==
  /\ phase \in {"setup", "restore"} /\ acts # <<>> /\ flying = {}
  /\ flying' = Commands(Head(acts))
  /\ UNCHANGED <<infra, faults, stray, failures, strayed, runVars, mainVars, phase, acts, trouble>>

(* A command ends; the last one ends its action. *)
CommandEnds(c) ==
  /\ c \in flying /\ Can(infra, c)
  /\ infra' = Apply(infra, c)
  /\ flying' = flying \ {c}
  /\ acts' = IF flying = {c} THEN Tail(acts) ELSE acts
  /\ UNCHANGED <<faults, stray, failures, strayed, runVars, mainVars, phase, trouble>>

Fails(c) == IF Can(infra, c) THEN failures < MaxFailures /\ failures' = failures + 1 ELSE failures' = failures

\* Fault: a failed setup action is logged and the repeat goes on.
CommandFailsLogged(c) ==
  /\ c \in flying /\ Fails(c)
  /\ flying' = {} /\ stray' = stray \cup (flying \ {c})
  /\ strayed' = (strayed \/ flying # {c})
  /\ acts' = Tail(acts) /\ trouble' = (phase = "restore")
  /\ UNCHANGED <<infra, phase, outcome, faults, timeline, running, mainVars>>

(* A failed setup ends the repeat; a failed restore is only logged. *)
CommandFails(c) ==
  /\ c \in flying /\ Fails(c)
  /\ infra' \in {infra} \cup (IF Can(infra, c) THEN {Apply(infra, c)} ELSE {})
  /\ flying' = {} /\ stray' = stray \cup (flying \ {c})
  /\ strayed' = (strayed \/ flying # {c})
  /\ IF phase = "setup"
       THEN /\ phase' = "restore" /\ acts' = RestoreActs(v) /\ outcome' = "setup-failed"
            /\ UNCHANGED trouble
       ELSE acts' = Tail(acts) /\ trouble' = TRUE /\ UNCHANGED <<phase, outcome>>
  /\ UNCHANGED <<faults, timeline, running, mainVars>>

StrayEnds(c) ==
  /\ c \in stray
  /\ infra' = (IF Can(infra, c) THEN Apply(infra, c) ELSE infra) /\ stray' = stray \ {c}
  /\ UNCHANGED <<flying, faults, failures, strayed, runVars, mainVars, phase, acts, trouble>>

-----------------------------------------------------------------------------
(* The measured run, with the timeline on the side. *)

Measure ==
  /\ phase = "setup" /\ acts = <<>>
  /\ phase' = "measure"
  /\ running' = TRUE /\ timeline' = DOMAIN Variants[v].during
  /\ UNCHANGED <<sshVars, mainVars, acts, outcome, trouble>>

(* k6 ends by itself, by a crossed threshold (99, with or without its summary), or badly. *)
K6Ends ==
  /\ phase = "measure" /\ running
  /\ running' = FALSE /\ phase' = "await"
  /\ outcome' \in {"ok", "k6-failed"}
  /\ UNCHANGED <<sshVars, mainVars, timeline, acts, trouble>>

(* Its time has come: an action starts, unless the run has ended. *)
StartFault ==
  /\ phase \in {"measure", "await"} /\ faults = {}
  /\ \E k \in timeline :
       /\ ComesFirst(v, k)
       /\ IF running THEN faults' = Commands(Variants[v].during[k].action) /\ timeline' = timeline \ {k}
                     ELSE faults' = {} /\ timeline' = {}
  /\ UNCHANGED <<infra, flying, stray, failures, strayed, running, outcome, mainVars, phase, acts, trouble>>

FaultEnds(c) ==
  /\ c \in faults /\ Can(infra, c)
  /\ infra' = Apply(infra, c)
  /\ faults' = faults \ {c}
  /\ UNCHANGED <<flying, stray, failures, strayed, runVars, mainVars, phase, acts, trouble>>

(* The failure goes into the events, and the timeline on to the next action. *)
FaultFails(c) ==
  /\ c \in faults /\ Fails(c)
  /\ infra' \in {infra} \cup (IF Can(infra, c) THEN {Apply(infra, c)} ELSE {})
  /\ faults' = {} /\ stray' = stray \cup (faults \ {c})
  /\ strayed' = (strayed \/ faults # {c})
  /\ UNCHANGED <<flying, runVars, mainVars, phase, acts, trouble>>

TimelineOver == timeline = {} /\ faults = {}

\* Fault: the restore does not wait for the timeline.
RestoreAtOnce ==
  /\ phase = "await"
  /\ phase' = "restore" /\ acts' = RestoreActs(v)
  /\ UNCHANGED <<sshVars, runVars, mainVars, trouble>>

Restore ==
  /\ phase = "await" /\ TimelineOver
  /\ phase' = "restore" /\ acts' = RestoreActs(v)
  /\ UNCHANGED <<sshVars, runVars, mainVars, trouble>>

(* Evidence is collected as far as it can be, and the outcome written down. *)
Finish ==
  /\ phase = "restore" /\ acts = <<>>
  /\ Record(outcome)
  /\ failed' = IF outcome = "ok" THEN failed ELSE failed \cup {<<v, r>>}
  /\ phase' = "next" /\ Advance
  /\ outcome' = "none"
  /\ UNCHANGED <<sshVars, timeline, running, acts, force, code, restarts, trouble>>

(* The controller dies, or has ended, and the study is started again without --force. *)
Restart ==
  /\ restarts < MaxRestarts /\ restarts' = restarts + 1
  /\ phase' = "next" /\ v' = 1 /\ r' = 1 /\ force' = FALSE /\ failed' = {} /\ code' = 0
  /\ acts' = <<>> /\ flying' = {} /\ timeline' = {} /\ faults' = {} /\ running' = FALSE /\ outcome' = "none"
  /\ stray' = stray \cup flying \cup faults
  /\ strayed' = (strayed \/ flying \cup faults # {})
  /\ trouble' = (trouble \/ phase \notin {"next", "exited"})
  /\ UNCHANGED <<infra, meta, failures>>

Progress ==
  \/ Skip \/ Begin \/ End \/ Deployed \/ DeployFails \/ SmokePasses \/ SmokeFails
  \/ StartAct \/ Measure \/ K6Ends \/ StartFault \/ Restore \/ Finish
  \/ \E c \in flying : CommandEnds(c) \/ CommandFails(c)
  \/ \E c \in faults : FaultEnds(c) \/ FaultFails(c)

Next == Progress \/ Restart \/ \E c \in stray : StrayEnds(c)

(* Every program and command the controller waits for ends. *)
Spec == Init /\ [][Next]_vars /\ WF_vars(Progress)

-----------------------------------------------------------------------------
(***************************************************************************)
(* Faults stay inside their repeat (run.ts:329-339, 376): once a repeat is *)
(* over every worker and Redis run and the registry, if set, lists every   *)
(* worker, whatever part of the setup failed and whenever k6 ended - unless*)
(* a command of restore failed, the controller died, or a command outlived *)
(* its failed action.                                                      *)
(***************************************************************************)
FaultsUndone ==
  phase \in {"next", "exited"} /\ ~trouble /\ ~strayed =>
    infra.up = All /\ infra.redis /\ infra.registry \in {Unset, All}

(***************************************************************************)
(* A run is measured on what its variant says (run.ts:341-356): when it    *)
(* starts, what runs is a fresh deployment with exactly the setup applied, *)
(* each of its actions in turn doing what it is for (After).               *)
(***************************************************************************)
After(i, a) ==
  CASE a.kind = "kill-workers"  -> [i EXCEPT !.up = @ \ Victims(a)]
    [] a.kind = "start-workers" -> [i EXCEPT !.up = All]
    [] a.kind = "kill-redis"    -> [i EXCEPT !.redis = FALSE, !.registry = Unset]
    [] a.kind = "start-redis"   -> [i EXCEPT !.redis = TRUE]
    [] a.kind = "registry-set"  -> [i EXCEPT !.registry = 1..Counted(a)]

(* What runs after each of the actions s, done in turn. *)
AfterEach(s) ==
  LET after[n \in 0..Len(s)] == IF n = 0 THEN Whole ELSE After(after[n - 1], s[n])
  IN  after

MeasuredAsPlanned ==
  phase = "measure" /\ running /\ timeline = DOMAIN Variants[v].during /\ faults = {} /\ ~strayed =>
    infra = LET s == Variants[v].setup IN AfterEach(s)[Len(s)]

(***************************************************************************)
(* Exit code 0 means that every repeat of the study has been measured      *)
(* (run.ts:430-449), by this start or an earlier one.                      *)
(***************************************************************************)
ExitHonest == phase = "exited" /\ code = 0 => \A p \in Repeats : meta[p] = "ok"

(* The controller always ends, whatever fails (run.ts:430-449). *)
StudyEnds == <>[](phase = "exited")
=============================================================================
