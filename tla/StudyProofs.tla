----------------------------- MODULE StudyProofs -----------------------------
(***************************************************************************)
(* The controller of the load tests for any study and fleet: its exit code *)
(* is honest, faults stay inside their repeat, and what is measured is     *)
(* what was planned.                                                       *)
(***************************************************************************)
EXTENDS Study, TLAPS, SequenceTheorems, WellFoundedInduction

Statuses == {"none", "ok", "deploy-failed", "smoke-failed", "setup-failed", "k6-failed"}

Place ==
  /\ v \in Nat \ {0} /\ r \in Nat \ {0}
  /\ ~Over => r \in 1..Variants[v].repeats
  /\ phase \notin {"next", "exited"} => ~Over
  /\ meta \in [Repeats -> Statuses] /\ outcome \in Statuses

\* The repeats the loop has left behind.
Behind(p) == p[1] < v \/ (p[1] = v /\ p[2] < r)

Accounted == failed = {} /\ phase # "exited" => \A p \in Repeats : Behind(p) => meta[p] = "ok"

ExitInv == Place /\ Accounted /\ ExitHonest

-----------------------------------------------------------------------------
LEMMA VariantsShape ==
  /\ Len(Variants) \in Nat /\ DOMAIN Variants = 1..Len(Variants)
  /\ \A i \in 1..Len(Variants) :
       /\ Variants[i].setup \in Seq(Action) /\ Variants[i].during \in Seq(Timed)
       /\ Variants[i].repeats \in Nat \ {0}
<1> DEFINE V == [setup : Seq(Action), during : Seq(Timed), repeats : Nat \ {0}]
<1>1. Variants \in Seq(V)
  BY StudyAssumption
<1>2. \A x \in V : x.setup \in Seq(Action) /\ x.during \in Seq(Timed) /\ x.repeats \in Nat \ {0}
  OBVIOUS
<1> HIDE DEF V
<1>3. /\ Len(Variants) \in Nat /\ DOMAIN Variants = 1..Len(Variants)
      /\ \A i \in 1..Len(Variants) : Variants[i] \in V
  BY <1>1, LenProperties, ElementOfSeq
<1> QED BY <1>2, <1>3

LEMMA RepeatsShape ==
  /\ \A p \in Repeats : /\ p = <<p[1], p[2]>>
                        /\ p[1] \in 1..Len(Variants) /\ p[2] \in 1..Variants[p[1]].repeats
  /\ \A i \in 1..Len(Variants) : \A j \in 1..Variants[i].repeats : <<i, j>> \in Repeats
  BY VariantsShape DEF Repeats

\* The loop moves from one repeat to the next and leaves none out.
LEMMA AdvanceLeavesNoneOut ==
  ASSUME Place, ~Over, Advance
  PROVE  /\ v' \in Nat \ {0} /\ r' \in Nat \ {0} /\ (~Over' => r' \in 1..Variants[v'].repeats)
         /\ <<v, r>> \in Repeats
         /\ \A p \in Repeats : Behind(p)' => Behind(p) \/ p = <<v, r>>
<1>1. v \in 1..Len(Variants) /\ r \in 1..Variants[v].repeats /\ Variants[v].repeats \in Nat \ {0}
  BY VariantsShape DEF Place, Over
<1>2. <<v, r>> \in Repeats
  BY <1>1, RepeatsShape
<1>3. CASE r = Variants[v].repeats
  <2>1. v' = v + 1 /\ r' = 1
    BY <1>3 DEF Advance
  <2>2. \A p \in Repeats : Behind(p)' => Behind(p) \/ p = <<v, r>>
    <3> SUFFICES ASSUME NEW p \in Repeats, Behind(p)' PROVE Behind(p) \/ p = <<v, r>>
      OBVIOUS
    <3>1. p = <<p[1], p[2]>> /\ p[1] \in Nat /\ p[2] \in 1..Variants[p[1]].repeats
      BY RepeatsShape, VariantsShape
    <3>2. p[2] \in Nat \ {0}
      BY <3>1, RepeatsShape, VariantsShape
    <3>3. p[1] < v \/ p[1] = v
      BY <1>1, <2>1, <3>1, <3>2 DEF Behind
    <3>4. CASE p[1] = v
      <4>1. p[2] < r \/ p[2] = r
        BY <1>1, <1>3, <3>1, <3>4
      <4> QED BY <3>1, <3>4, <4>1 DEF Behind
    <3> QED BY <3>3, <3>4 DEF Behind
  <2>3. ~Over' => 1 \in 1..Variants[v'].repeats
    BY <1>1, <2>1, VariantsShape DEF Over
  <2> QED BY <1>1, <1>2, <2>1, <2>2, <2>3
<1>4. CASE r # Variants[v].repeats
  <2>1. v' = v /\ r' = r + 1
    BY <1>4 DEF Advance
  <2>2. \A p \in Repeats : Behind(p)' => Behind(p) \/ p = <<v, r>>
    <3> SUFFICES ASSUME NEW p \in Repeats, Behind(p)' PROVE Behind(p) \/ p = <<v, r>>
      OBVIOUS
    <3>1. p = <<p[1], p[2]>> /\ p[1] \in Nat
      BY RepeatsShape, VariantsShape
    <3>2. p[2] \in Nat
      BY RepeatsShape, VariantsShape
    <3> QED BY <1>1, <2>1, <3>1, <3>2 DEF Behind
  <2> QED BY <1>1, <1>2, <1>4, <2>1, <2>2
<1> QED BY <1>3, <1>4

\* What stays inside a repeat.
LEMMA InsideKeepsExit ==
  ASSUME ExitInv, UNCHANGED mainVars, phase' # "exited", phase \notin {"next", "exited"} \/ phase' = phase,
         phase # "exited" \/ phase' = phase, outcome' \in Statuses
  PROVE  ExitInv'
<1>1. UNCHANGED <<v, r, meta, failed, code>>
  BY DEF mainVars
<1>2. Place' /\ phase # "exited"
  BY <1>1 DEF ExitInv, Place, Over
<1>3. Accounted'
  BY <1>1, <1>2 DEF ExitInv, Accounted, Behind
<1>4. ExitHonest'
  BY DEF ExitHonest
<1> QED BY <1>2, <1>3, <1>4 DEF ExitInv

LEMMA StepKeepsExit ==
  ASSUME ExitInv, [Next]_vars
  PROVE  ExitInv'
<1> USE DEF sshVars, runVars, mainVars
<1>0. outcome \in Statuses /\ "next" # "exited"
  BY DEF ExitInv, Place
<1>1. CASE Skip
  <2>1. ~Over /\ phase = "next" /\ phase' = "next" /\ meta[<<v, r>>] = "ok" /\ Advance
        /\ UNCHANGED <<meta, outcome, failed>>
    BY <1>1 DEF Skip, Done
  <2>2. Place' /\ Accounted'
    BY <2>1, AdvanceLeavesNoneOut DEF ExitInv, Place, Accounted
  <2> QED BY <2>1, <2>2 DEF ExitInv, ExitHonest
<1>2. CASE Begin
  <2>1. /\ ~Over /\ UNCHANGED <<v, r, meta, failed, code, outcome>> /\ phase = "next" /\ phase' = "deploy"
    BY <1>2 DEF Begin
  <2> QED BY <2>1 DEF ExitInv, Place, Over, Accounted, Behind, ExitHonest
<1>3. CASE End
  <2>1. /\ Over /\ phase = "next" /\ phase' = "exited" /\ code' = IF failed = {} THEN 0 ELSE 1
        /\ UNCHANGED <<v, r, meta, failed, outcome>>
    BY <1>3 DEF End
  <2>2. \A p \in Repeats : Behind(p)
    BY <2>1, RepeatsShape, VariantsShape DEF Over, Behind, ExitInv, Place
  <2>3. code' = 0 => \A p \in Repeats : meta[p] = "ok"
    BY <2>1, <2>2 DEF ExitInv, Accounted
  <2> QED BY <2>1, <2>3 DEF ExitInv, Place, Over, Accounted, ExitHonest
<1>4. CASE DeployFails
  <2>1. /\ phase' = "exited" /\ code' = 1 /\ meta' = [meta EXCEPT ![<<v, r>>] = "deploy-failed"]
        /\ UNCHANGED <<v, r, failed, outcome>>
    BY <1>4 DEF DeployFails, Record
  <2>2. meta' \in [Repeats -> Statuses]
    BY <2>1 DEF ExitInv, Place, Statuses
  <2>3. Place'
    BY <2>1, <2>2 DEF ExitInv, Place, Over
  <2> QED BY <2>1, <2>3 DEF ExitInv, Accounted, ExitHonest
<1>5. CASE SmokeFails
  <2>1. /\ phase = "smoke" /\ phase' = "next" /\ meta' = [meta EXCEPT ![<<v, r>>] = "smoke-failed"]
        /\ failed' # {} /\ v' = v + 1 /\ r' = 1 /\ UNCHANGED outcome
    BY <1>5 DEF SmokeFails, Record
  <2>2. meta' \in [Repeats -> Statuses]
    BY <2>1 DEF ExitInv, Place, Statuses
  <2>3. v' \in Nat \ {0} /\ (~Over' => r' \in 1..Variants[v'].repeats)
    BY <2>1, VariantsShape DEF ExitInv, Place, Over
  <2>4. Place'
    BY <2>1, <2>2, <2>3 DEF ExitInv, Place
  <2> QED BY <2>1, <2>4 DEF ExitInv, Accounted, ExitHonest
<1>6. CASE Finish
  <2>1. /\ phase = "restore" /\ phase' = "next" /\ meta' = [meta EXCEPT ![<<v, r>>] = outcome]
        /\ failed' = (IF outcome = "ok" THEN failed ELSE failed \cup {<<v, r>>})
        /\ Advance /\ outcome' = "none"
    BY <1>6 DEF Finish, Record
  <2>2. ~Over /\ meta \in [Repeats -> Statuses]
    BY <2>1 DEF ExitInv, Place
  <2>3. Place'
    BY <2>1, <2>2, AdvanceLeavesNoneOut DEF ExitInv, Place, Statuses
  <2>4. Accounted'
    <3> SUFFICES ASSUME failed' = {}, NEW p \in Repeats, Behind(p)' PROVE meta'[p] = "ok"
      BY DEF Accounted
    <3>1. outcome = "ok" /\ failed = {}
      BY <2>1
    <3>2. Behind(p) \/ p = <<v, r>>
      BY <2>1, <2>2, AdvanceLeavesNoneOut DEF ExitInv
    <3>3. CASE p = <<v, r>>
      BY <2>1, <2>2, <3>1, <3>3
    <3>4. CASE Behind(p) /\ p # <<v, r>>
      BY <2>1, <2>2, <3>1, <3>4 DEF ExitInv, Accounted
    <3> QED BY <3>2, <3>3, <3>4
  <2> QED BY <2>1, <2>3, <2>4 DEF ExitInv, ExitHonest
<1>7. CASE Restart
  <2>1. /\ phase' = "next" /\ v' = 1 /\ r' = 1 /\ failed' = {} /\ outcome' = "none" /\ UNCHANGED meta
    BY <1>7 DEF Restart
  <2>2. Place'
    BY <2>1, VariantsShape DEF ExitInv, Place, Over, Statuses
  <2>3. \A p \in Repeats : ~Behind(p)'
    BY <2>1, RepeatsShape, VariantsShape DEF Behind
  <2> QED BY <2>1, <2>2, <2>3 DEF ExitInv, Accounted, ExitHonest
<1>8. CASE Deployed \/ SmokePasses \/ StartAct \/ Measure \/ K6Ends \/ StartFault \/ Restore
  BY <1>0, <1>8, InsideKeepsExit
  DEF Deployed, SmokePasses, StartAct, Measure, K6Ends, StartFault, Restore, Statuses
<1>9. ASSUME NEW c, CommandEnds(c) \/ CommandFails(c) \/ FaultEnds(c) \/ FaultFails(c) \/ StrayEnds(c)
      PROVE  ExitInv'
  <2>1. UNCHANGED mainVars
    BY <1>9 DEF CommandEnds, CommandFails, FaultEnds, FaultFails, StrayEnds
  <2>2. phase' = phase \/ (phase = "setup" /\ phase' = "restore")
    BY <1>9 DEF CommandEnds, CommandFails, FaultEnds, FaultFails, StrayEnds
  <2>3. outcome' \in Statuses
    BY <1>0, <1>9 DEF CommandEnds, CommandFails, FaultEnds, FaultFails, StrayEnds, Statuses
  <2>4. Place' /\ Accounted' /\ ExitHonest'
    BY <2>1, <2>2, <2>3 DEF ExitInv, Place, Over, Accounted, Behind, ExitHonest
  <2> QED BY <2>4 DEF ExitInv
<1>10. CASE UNCHANGED vars
  BY <1>10 DEF vars, ExitInv, Place, Over, Accounted, Behind, ExitHonest
<1> QED
  BY <1>1, <1>2, <1>3, <1>4, <1>5, <1>6, <1>7, <1>8, <1>9, <1>10 DEF Next, Progress

LEMMA ExitInvariance == Spec => []ExitInv
<1>1. Init => ExitInv
  <2> SUFFICES ASSUME Init PROVE ExitInv
    OBVIOUS
  <2>1. /\ v = 1 /\ r = 1 /\ phase = "next" /\ meta = [p \in Repeats |-> "none"] /\ outcome = "none"
    BY DEF Init
  <2>2. Place
    BY <2>1, VariantsShape DEF Place, Over, Statuses
  <2>3. \A p \in Repeats : ~Behind(p)
    BY <2>1, RepeatsShape, VariantsShape DEF Behind
  <2> QED BY <2>1, <2>2, <2>3 DEF ExitInv, Accounted, ExitHonest
<1> QED BY <1>1, StepKeepsExit, PTL DEF Spec

\* Exit code 0 of a study (run.ts:430-449) means that every repeat of every variant was
\* measured, whatever failed, was skipped or was done by an earlier start.
THEOREM ExitCodeIsHonest == Spec => []ExitHonest
<1>1. ExitInv => ExitHonest
  BY DEF ExitInv
<1> QED BY <1>1, ExitInvariance, PTL

-----------------------------------------------------------------------------
(***************************************************************************)
(* Faults.  What differs from a whole deployment is always of the kinds    *)
(* that the actions allow: those of the variant during setup and           *)
(* measurement, those still to be undone during restore, none outside.     *)
(***************************************************************************)
Undos == {Undo("start-workers", 0), Undo("start-redis", 0), Undo("registry-set", 0)}

Within(i, kinds) ==
  /\ i \in [up : SUBSET All, redis : BOOLEAN, registry : SUBSET All]
  /\ i.up # All => kinds \cap {"kill-workers", "start-workers"} # {}
  /\ ~i.redis => kinds \cap {"kill-redis", "start-redis"} # {}
  /\ i.registry \notin {Unset, All} => "registry-set" \in kinds

Allowed ==
  IF phase = "restore" THEN Kinds(acts)
  ELSE IF phase \in {"setup", "measure", "await"} THEN Kinds(Faults(v)) ELSE {}

\* What is to be done, and what is under way, belongs to the variant and the phase.
Work ==
  /\ acts \in Seq(Action)
  /\ phase \notin {"setup", "restore"} => acts = <<>> /\ flying = {}
  /\ phase \notin {"measure", "await"} => timeline = {} /\ faults = {}
  /\ phase = "setup" => Kinds(acts) \subseteq Kinds(Faults(v))
  /\ phase = "restore" => \A k \in DOMAIN acts : acts[k] \in Undos
  /\ flying # {} => acts # <<>> /\ flying \subseteq Commands(Head(acts))
  /\ timeline \subseteq DOMAIN Variants[v].during
  /\ \A c \in faults : \E k \in DOMAIN Variants[v].during : c \in Commands(Variants[v].during[k].action)
  /\ ~strayed => stray = {}

\* While the workers are started, those that are not up yet are still being started.
HalfStarted ==
  phase = "restore" /\ flying # {} /\ Head(acts).kind = "start-workers" =>
    \A w \in All \ infra.up : Cmd("start", w) \in flying

FaultInv == Work /\ (~trouble /\ ~strayed => Within(infra, Allowed) /\ HalfStarted)

LEMMA KindsOfConcat ==
  ASSUME NEW S, NEW s \in Seq(S), NEW t \in Seq(S)
  PROVE  Kinds(s \o t) = Kinds(s) \cup Kinds(t)
<1>1. /\ Len(s) \in Nat /\ Len(t) \in Nat /\ DOMAIN s = 1..Len(s) /\ DOMAIN t = 1..Len(t)
      /\ DOMAIN (s \o t) = 1..Len(s) + Len(t)
      /\ \A k \in 1..Len(s) + Len(t) : (s \o t)[k] = IF k <= Len(s) THEN s[k] ELSE t[k - Len(s)]
  BY ConcatProperties, LenProperties
<1>2. Kinds(s \o t) \subseteq Kinds(s) \cup Kinds(t)
  BY <1>1 DEF Kinds
<1>3. Kinds(s) \subseteq Kinds(s \o t)
  BY <1>1 DEF Kinds
<1>4. Kinds(t) \subseteq Kinds(s \o t)
  <2> SUFFICES ASSUME NEW k \in 1..Len(t) PROVE t[k].kind \in Kinds(s \o t)
    BY <1>1 DEF Kinds
  <2>1. k + Len(s) \in 1..Len(s) + Len(t) /\ (s \o t)[k + Len(s)] = t[k]
    BY <1>1
  <2> QED BY <1>1, <2>1 DEF Kinds
<1> QED BY <1>2, <1>3, <1>4

LEMMA KindsOfTail ==
  ASSUME NEW S, NEW s \in Seq(S), s # <<>>
  PROVE  /\ Kinds(s) = Kinds(Tail(s)) \cup {Head(s).kind}
         /\ Tail(s) \in Seq(S) /\ Head(s) \in S /\ Head(s) = s[1] /\ 1 \in DOMAIN s
         /\ \A k \in DOMAIN Tail(s) : k + 1 \in DOMAIN s /\ Tail(s)[k] = s[k + 1]
<1>1. /\ Len(s) \in Nat \ {0} /\ DOMAIN s = 1..Len(s) /\ Tail(s) \in Seq(S) /\ Len(Tail(s)) = Len(s) - 1
      /\ Head(s) = s[1] /\ \A k \in 1..Len(s) - 1 : Tail(s)[k] = s[k + 1]
      /\ DOMAIN Tail(s) = 1..Len(s) - 1
  BY HeadTailProperties, LenProperties, EmptySeq
<1>2. Kinds(s) \subseteq Kinds(Tail(s)) \cup {Head(s).kind}
  <2> SUFFICES ASSUME NEW k \in 1..Len(s), k # 1 PROVE s[k].kind \in Kinds(Tail(s))
    BY <1>1 DEF Kinds
  <2>1. k - 1 \in 1..Len(s) - 1 /\ Tail(s)[k - 1] = s[k]
    BY <1>1
  <2> QED BY <1>1, <2>1 DEF Kinds
<1>3. Kinds(Tail(s)) \cup {Head(s).kind} \subseteq Kinds(s)
  BY <1>1 DEF Kinds
<1> QED BY <1>1, <1>2, <1>3, ElementOfSeq

\* The kinds of a variant's faults are those of its setup and of its timeline.
LEMMA FaultsOfVariant ==
  ASSUME NEW i \in 1..Len(Variants)
  PROVE  /\ Faults(i) \in Seq(Action)
         /\ Variants[i].setup \in Seq(Action) /\ Kinds(Variants[i].setup) \subseteq Kinds(Faults(i))
         /\ \A k \in DOMAIN Variants[i].during :
              /\ Variants[i].during[k].action \in Action
              /\ Variants[i].during[k].action.kind \in Kinds(Faults(i))
<1> DEFINE d == Variants[i].during
           t == [k \in DOMAIN d |-> d[k].action]
<1>1. Variants[i].setup \in Seq(Action) /\ d \in Seq(Timed)
  BY VariantsShape
<1>2. Len(d) \in Nat /\ DOMAIN d = 1..Len(d) /\ \A k \in 1..Len(d) : d[k] \in Timed
  BY <1>1, LenProperties, ElementOfSeq
<1>3. \A k \in DOMAIN d : d[k].action \in Action
  BY <1>2 DEF Timed
<1>4. t \in Seq(Action)
  BY <1>2, <1>3, IsASeq
<1>5. Faults(i) = Variants[i].setup \o t
  BY DEF Faults
<1> HIDE DEF t, d
<1>6. Faults(i) \in Seq(Action) /\ Kinds(Faults(i)) = Kinds(Variants[i].setup) \cup Kinds(t)
  BY <1>1, <1>4, <1>5, KindsOfConcat, ConcatProperties
<1>7. \A k \in DOMAIN d : d[k].action.kind \in Kinds(t)
  BY DEF Kinds, t
<1> QED BY <1>1, <1>3, <1>6, <1>7 DEF d

LEMMA OneOrNone ==
  ASSUME NEW S, NEW x \in S, NEW P \in BOOLEAN, NEW s, s = IF P THEN <<x>> ELSE <<>>
  PROVE  s \in Seq(S) /\ (P => x.kind \in Kinds(s))
<1>1. CASE P
  <2>1. s = <<x>> /\ 1 \in DOMAIN s /\ s[1] = x
    BY <1>1
  <2> QED BY <2>1 DEF Kinds
<1>2. CASE ~P
  BY <1>2
<1> QED BY <1>1, <1>2

\* Restore undoes every kind of fault that the variant has.
LEMMA RestoreUndoes ==
  ASSUME NEW i \in 1..Len(Variants), NEW f, Within(f, Kinds(Faults(i)))
  PROVE  /\ RestoreActs(i) \in Seq(Action) /\ \A k \in DOMAIN RestoreActs(i) : RestoreActs(i)[k] \in Undos
         /\ Within(f, Kinds(RestoreActs(i)))
<1> DEFINE kinds == Kinds(Faults(i))
           W == kinds \cap {"kill-workers", "start-workers"} # {}
           D == kinds \cap {"kill-redis", "start-redis"} # {}
           G == "registry-set" \in kinds
           w == IF W THEN <<Undo("start-workers", 0)>> ELSE <<>>
           d == IF D THEN <<Undo("start-redis", 0)>> ELSE <<>>
           g == IF G THEN <<Undo("registry-set", 0)>> ELSE <<>>
<1>1. /\ Undo("start-workers", 0) \in Undos /\ Undo("start-redis", 0) \in Undos /\ Undo("registry-set", 0) \in Undos
      /\ Undo("start-workers", 0).kind = "start-workers" /\ Undo("start-redis", 0).kind = "start-redis"
      /\ Undo("registry-set", 0).kind = "registry-set"
      /\ Undos \subseteq Action
  BY StudyAssumption DEF Undos, Undo, Action, ActionKinds
<1>2. /\ w \in Seq(Undos) /\ (W => "start-workers" \in Kinds(w))
      /\ d \in Seq(Undos) /\ (D => "start-redis" \in Kinds(d))
      /\ g \in Seq(Undos) /\ (G => "registry-set" \in Kinds(g))
  <2>1. w \in Seq(Undos) /\ (W => "start-workers" \in Kinds(w))
    BY <1>1, OneOrNone
  <2>2. d \in Seq(Undos) /\ (D => "start-redis" \in Kinds(d))
    BY <1>1, OneOrNone
  <2>3. g \in Seq(Undos) /\ (G => "registry-set" \in Kinds(g))
    BY <1>1, OneOrNone
  <2> QED BY <2>1, <2>2, <2>3
<1>3. RestoreActs(i) = w \o d \o g
  BY DEF RestoreActs
<1> HIDE DEF w, d, g
<1>4. w \o d \in Seq(Undos) /\ Kinds(w \o d) = Kinds(w) \cup Kinds(d)
  BY <1>2, KindsOfConcat, ConcatProperties
<1>5. RestoreActs(i) \in Seq(Undos) /\ Kinds(RestoreActs(i)) = Kinds(w) \cup Kinds(d) \cup Kinds(g)
  <2> DEFINE wd == w \o d
  <2>1. wd \in Seq(Undos) /\ RestoreActs(i) = wd \o g
    BY <1>3, <1>4
  <2> HIDE DEF wd
  <2>2. wd \o g \in Seq(Undos) /\ Kinds(wd \o g) = Kinds(wd) \cup Kinds(g)
    BY <1>2, <2>1, KindsOfConcat, ConcatProperties
  <2> QED BY <1>4, <2>1, <2>2 DEF wd
<1>6. /\ RestoreActs(i) \in Seq(Action)
      /\ \A k \in DOMAIN RestoreActs(i) : RestoreActs(i)[k] \in Undos
  <2>1. \A k \in DOMAIN RestoreActs(i) : RestoreActs(i)[k] \in Undos
    BY <1>5, LenProperties, ElementOfSeq
  <2>2. Len(RestoreActs(i)) \in Nat /\ RestoreActs(i) \in [1..Len(RestoreActs(i)) -> Action]
    BY <1>1, <1>5, <2>1, LenProperties
  <2> QED BY <2>1, <2>2, SeqDef
<1> QED BY <1>2, <1>5, <1>6 DEF Within

LEMMA CommandsOfAction ==
  ASSUME NEW a \in Action, NEW c \in Commands(a)
  PROVE  \/ a.kind = "kill-workers" /\ \E w \in All : c = Cmd("kill", w)
         \/ a.kind = "start-workers" /\ \E w \in All : c = Cmd("start", w)
         \/ a.kind = "kill-redis" /\ c = Cmd("kill-redis", 0)
         \/ a.kind = "start-redis" /\ c = Cmd("start-redis", 0)
         \/ a.kind = "registry-set" /\ \E n \in 0..Fleet : c = Cmd("registry", n) /\ (a.count = 0 => n = Fleet)
<1>1. Fleet \in Nat /\ a.kind \in ActionKinds /\ a.count \in 0..Fleet /\ Counted(a) \in 0..Fleet
      /\ (a.count = 0 => Counted(a) = Fleet)
  BY StudyAssumption DEF Action, Counted
<1>2. CASE a.kind = "kill-workers"
  <2>1. PICK w \in Victims(a) : c = Cmd("kill", w)
    BY <1>2 DEF Commands
  <2> QED BY <1>1, <1>2, <2>1 DEF All, Victims
<1>3. CASE a.kind = "start-workers"
  BY <1>3 DEF Commands
<1>4. CASE a.kind = "kill-redis"
  BY <1>4 DEF Commands
<1>5. CASE a.kind = "start-redis"
  BY <1>5 DEF Commands
<1>6. CASE a.kind = "registry-set"
  <2>1. c = Cmd("registry", Counted(a))
    BY <1>6 DEF Commands
  <2> QED BY <1>1, <1>6, <2>1
<1> QED BY <1>1, <1>2, <1>3, <1>4, <1>5, <1>6 DEF ActionKinds

LEMMA AppliedCommand ==
  ASSUME NEW i \in [up : SUBSET All, redis : BOOLEAN, registry : SUBSET All], NEW n
  PROVE  /\ Apply(i, Cmd("kill", n)) = [i EXCEPT !.up = i.up \ {n}]
         /\ Apply(i, Cmd("start", n)) = [i EXCEPT !.up = i.up \cup {n}]
         /\ Apply(i, Cmd("kill-redis", n)) = [i EXCEPT !.redis = FALSE, !.registry = Unset]
         /\ Apply(i, Cmd("start-redis", n)) = [i EXCEPT !.redis = TRUE]
         /\ Apply(i, Cmd("registry", n)) = [i EXCEPT !.registry = 1..n]
  BY DEF Apply, Cmd

\* A command of an allowed kind leaves what runs within what is allowed.
LEMMA ApplyStaysWithin ==
  ASSUME NEW kinds, NEW i, Within(i, kinds), NEW a \in Action, a.kind \in kinds, NEW c \in Commands(a)
  PROVE  Within(Apply(i, c), kinds)
<1>1. i \in [up : SUBSET All, redis : BOOLEAN, registry : SUBSET All] /\ Fleet \in Nat
  BY StudyAssumption DEF Within
<1>2. CASE a.kind = "kill-workers" \/ a.kind = "start-workers"
  <2>1. PICK w \in All : c = Cmd("kill", w) \/ c = Cmd("start", w)
    BY <1>2, CommandsOfAction
  <2>2. Apply(i, c) = [i EXCEPT !.up = i.up \ {w}] \/ Apply(i, c) = [i EXCEPT !.up = i.up \cup {w}]
    BY <1>1, <2>1, AppliedCommand
  <2> QED BY <1>1, <1>2, <2>2 DEF Within
<1>3. CASE a.kind = "kill-redis"
  <2>1. c = Cmd("kill-redis", 0)
    BY <1>3, CommandsOfAction
  <2>2. Apply(i, c) = [i EXCEPT !.redis = FALSE, !.registry = Unset]
    BY <1>1, <2>1, AppliedCommand
  <2> QED BY <1>1, <1>3, <2>2 DEF Within, Unset
<1>4. CASE a.kind = "start-redis"
  <2>1. c = Cmd("start-redis", 0)
    BY <1>4, CommandsOfAction
  <2>2. Apply(i, c) = [i EXCEPT !.redis = TRUE]
    BY <1>1, <2>1, AppliedCommand
  <2> QED BY <1>1, <1>4, <2>2 DEF Within
<1>5. CASE a.kind = "registry-set"
  <2>1. PICK n \in 0..Fleet : c = Cmd("registry", n)
    BY <1>5, CommandsOfAction
  <2>2. Apply(i, c) = [i EXCEPT !.registry = 1..n]
    BY <1>1, <2>1, AppliedCommand
  <2>3. 1..n \subseteq All
    BY <1>1 DEF All
  <2> QED BY <1>1, <1>5, <2>2, <2>3 DEF Within
<1> QED BY <1>2, <1>3, <1>4, <1>5 DEF Action, ActionKinds

LEMMA WholeIsWithin == Within(Whole, {})
  BY DEF Within, Whole, All, Unset

LEMMA WithinGrows ==
  ASSUME NEW i, NEW few, NEW many, Within(i, few), few \subseteq many
  PROVE  Within(i, many)
  BY DEF Within

\* An undoing action that has ended has undone all faults of its kind.
LEMMA UndoneForGood ==
  ASSUME Work, phase = "restore", Within(infra, Kinds(acts)), HalfStarted, NEW c, flying = {c}
  PROVE  Within(Apply(infra, c), Kinds(Tail(acts)))
<1>1. /\ acts \in Seq(Action) /\ acts # <<>> /\ acts[1] \in Undos /\ acts[1] = Head(acts)
      /\ c \in Commands(Head(acts)) /\ Head(acts) \in Action
      /\ Kinds(acts) = Kinds(Tail(acts)) \cup {Head(acts).kind}
  BY KindsOfTail DEF Work
<1>2. infra \in [up : SUBSET All, redis : BOOLEAN, registry : SUBSET All] /\ Fleet \in Nat
  BY StudyAssumption DEF Within
<1>3. CASE Head(acts) = Undo("start-workers", 0)
  <2>1. Head(acts).kind = "start-workers"
    BY <1>3 DEF Undo
  <2>2. PICK w \in All : c = Cmd("start", w)
    BY <1>1, <2>1, CommandsOfAction
  <2>3. \A x \in All \ infra.up : x = w
    BY <2>1, <2>2 DEF HalfStarted, Cmd
  <2>4. Apply(infra, c) = [infra EXCEPT !.up = infra.up \cup {w}] /\ infra.up \cup {w} = All
    BY <1>2, <2>2, <2>3, AppliedCommand
  <2> QED BY <1>1, <1>2, <2>1, <2>4 DEF Within
<1>4. CASE Head(acts) = Undo("start-redis", 0)
  <2>1. Head(acts).kind = "start-redis"
    BY <1>4 DEF Undo
  <2>2. c = Cmd("start-redis", 0)
    BY <1>1, <2>1, CommandsOfAction
  <2>3. Apply(infra, c) = [infra EXCEPT !.redis = TRUE]
    BY <1>2, <2>2, AppliedCommand
  <2> QED BY <1>1, <1>2, <2>1, <2>3 DEF Within
<1>5. CASE Head(acts) = Undo("registry-set", 0)
  <2>1. Head(acts).kind = "registry-set" /\ Head(acts).count = 0
    BY <1>5 DEF Undo
  <2>2. c = Cmd("registry", Fleet)
    BY <1>1, <2>1, CommandsOfAction
  <2>3. Apply(infra, c) = [infra EXCEPT !.registry = All]
    BY <1>2, <2>2, AppliedCommand DEF All
  <2> QED BY <1>1, <1>2, <2>1, <2>3 DEF Within
<1> QED BY <1>1, <1>3, <1>4, <1>5 DEF Undos

LEMMA CommandKeepsFaults ==
  ASSUME ExitInv, FaultInv, NEW c, CommandEnds(c)
  PROVE  FaultInv'
<1> USE DEF sshVars, runVars, mainVars
<1>1. /\ c \in flying /\ infra' = Apply(infra, c) /\ flying' = flying \ {c}
      /\ acts' = (IF flying = {c} THEN Tail(acts) ELSE acts)
      /\ UNCHANGED <<faults, stray, strayed, timeline, v, phase, trouble>>
  BY DEF CommandEnds
<1>2. /\ phase \in {"setup", "restore"} /\ acts \in Seq(Action) /\ acts # <<>>
      /\ flying \subseteq Commands(Head(acts))
  BY <1>1 DEF FaultInv, Work
<1>3. /\ Kinds(acts) = Kinds(Tail(acts)) \cup {Head(acts).kind}
      /\ Tail(acts) \in Seq(Action) /\ Head(acts) \in Action
      /\ \A k \in DOMAIN Tail(acts) : k + 1 \in DOMAIN acts /\ Tail(acts)[k] = acts[k + 1]
  BY <1>2, KindsOfTail
<1>4. Work'
  BY <1>1, <1>2, <1>3 DEF FaultInv, Work
<1>5. ASSUME ~trouble, ~strayed PROVE Within(infra, Allowed)' /\ HalfStarted'
  <2>1. Within(infra, Allowed) /\ HalfStarted
    BY <1>5 DEF FaultInv
  <2>2. CASE phase = "setup"
    <3>1. Head(acts).kind \in Kinds(Faults(v)) /\ Allowed = Kinds(Faults(v)) /\ Allowed' = Kinds(Faults(v))
      BY <1>1, <1>3, <2>2 DEF FaultInv, Work, Allowed
    <3>2. Within(infra', Kinds(Faults(v)))
      BY <1>1, <1>2, <1>3, <2>1, <3>1, ApplyStaysWithin
    <3> QED BY <1>1, <2>2, <3>1, <3>2 DEF HalfStarted
  <2>3. CASE phase = "restore" /\ flying = {c}
    <3>1. Within(infra', Kinds(Tail(acts)))
      BY <1>1, <2>1, <2>3, UndoneForGood DEF FaultInv, Allowed
    <3> QED BY <1>1, <2>3, <3>1 DEF Allowed, HalfStarted
  <2>4. CASE phase = "restore" /\ flying # {c}
    <3>1. Head(acts).kind \in Kinds(acts) /\ Allowed = Kinds(acts) /\ Allowed' = Kinds(acts)
      BY <1>1, <1>3, <2>4 DEF Allowed
    <3>2. Within(infra', Kinds(acts))
      BY <1>1, <1>2, <1>3, <2>1, <3>1, ApplyStaysWithin
    <3>3. HalfStarted'
      <4> SUFFICES ASSUME Head(acts).kind = "start-workers", NEW w \in All \ infra'.up
                   PROVE  Cmd("start", w) \in flying \ {c}
        BY <1>1, <2>4 DEF HalfStarted
      <4>1. PICK x \in All : c = Cmd("start", x)
        BY <1>1, <1>2, <1>3, CommandsOfAction
      <4>2. infra \in [up : SUBSET All, redis : BOOLEAN, registry : SUBSET All]
        BY <2>1 DEF Within
      <4>3. infra' = [infra EXCEPT !.up = infra.up \cup {x}]
        BY <1>1, <4>1, <4>2, AppliedCommand
      <4>4. w \in All \ infra.up /\ w # x
        BY <4>2, <4>3
      <4>5. Cmd("start", w) \in flying /\ Cmd("start", w) # Cmd("start", x)
        BY <1>1, <2>1, <2>4, <4>4 DEF HalfStarted, Cmd
      <4> QED BY <4>1, <4>5
    <3> QED BY <3>1, <3>2, <3>3
  <2> QED BY <1>2, <2>2, <2>3, <2>4
<1> QED BY <1>1, <1>4, <1>5 DEF FaultInv

LEMMA CommandFailureKeepsFaults ==
  ASSUME ExitInv, FaultInv, NEW c, CommandFails(c)
  PROVE  FaultInv'
<1> USE DEF sshVars, runVars, mainVars
<1>1. /\ c \in flying /\ flying' = {} /\ infra' \in {infra, Apply(infra, c)}
      /\ stray' = stray \cup (flying \ {c}) /\ strayed' = (strayed \/ flying # {c})
      /\ UNCHANGED <<faults, timeline, v>>
  BY DEF CommandFails
<1>2. /\ phase \in {"setup", "restore"} /\ acts \in Seq(Action) /\ acts # <<>>
      /\ flying \subseteq Commands(Head(acts)) /\ timeline = {} /\ faults = {}
  BY <1>1 DEF FaultInv, Work
<1>3. /\ Kinds(acts) = Kinds(Tail(acts)) \cup {Head(acts).kind}
      /\ Tail(acts) \in Seq(Action) /\ Head(acts) \in Action
      /\ \A k \in DOMAIN Tail(acts) : k + 1 \in DOMAIN acts /\ Tail(acts)[k] = acts[k + 1]
  BY <1>2, KindsOfTail
<1>4. ~strayed' => ~strayed /\ stray' = {}
  BY <1>1 DEF FaultInv, Work
<1>5. CASE phase = "setup"
  <2>1. phase' = "restore" /\ acts' = RestoreActs(v) /\ UNCHANGED trouble
    BY <1>5 DEF CommandFails
  <2>2. v \in 1..Len(Variants)
    BY <1>5, VariantsShape DEF ExitInv, Place, Over
  <2>3. Head(acts).kind \in Kinds(Faults(v)) /\ Allowed = Kinds(Faults(v))
    BY <1>3, <1>5 DEF FaultInv, Work, Allowed
  <2>4. acts' \in Seq(Action) /\ \A k \in DOMAIN acts' : acts'[k] \in Undos
    <3>1. Within(Whole, Kinds(Faults(v)))
      BY WholeIsWithin, WithinGrows
    <3> QED BY <2>1, <2>2, <3>1, RestoreUndoes
  <2>5. Work'
    BY <1>1, <1>2, <1>4, <2>1, <2>4 DEF FaultInv, Work
  <2>6. ASSUME ~trouble', ~strayed' PROVE Within(infra, Allowed)' /\ HalfStarted'
    <3>1. Within(infra, Kinds(Faults(v)))
      BY <1>4, <2>1, <2>3, <2>6 DEF FaultInv
    <3>2. Within(infra', Kinds(Faults(v)))
      BY <1>1, <1>2, <1>3, <2>3, <3>1, ApplyStaysWithin
    <3>3. Within(infra', Kinds(RestoreActs(v)))
      BY <2>2, <3>2, RestoreUndoes
    <3> QED BY <1>1, <2>1, <3>3 DEF Allowed, HalfStarted
  <2> QED BY <2>5, <2>6 DEF FaultInv
<1>6. CASE phase = "restore"
  <2>1. acts' = Tail(acts) /\ trouble' = TRUE /\ UNCHANGED phase
    BY <1>6 DEF CommandFails
  <2>2. Work'
    BY <1>1, <1>2, <1>3, <1>4, <1>6, <2>1 DEF FaultInv, Work
  <2> QED BY <2>1, <2>2 DEF FaultInv
<1> QED BY <1>2, <1>5, <1>6

LEMMA TimedFaultKeepsFaults ==
  ASSUME ExitInv, FaultInv, NEW c, FaultEnds(c) \/ FaultFails(c)
  PROVE  FaultInv'
<1> USE DEF sshVars, runVars, mainVars
<1>1. /\ c \in faults /\ infra' \in {infra, Apply(infra, c)} /\ faults' \subseteq faults
      /\ UNCHANGED <<flying, timeline, v, phase, acts, trouble>>
  BY DEF FaultEnds, FaultFails
<1>2. phase \in {"measure", "await"} /\ acts = <<>> /\ flying = {}
  BY <1>1 DEF FaultInv, Work
<1>3. v \in 1..Len(Variants)
  BY <1>2, VariantsShape DEF ExitInv, Place, Over
<1>4. PICK k \in DOMAIN Variants[v].during : c \in Commands(Variants[v].during[k].action)
  BY <1>1 DEF FaultInv, Work
<1>5. ~strayed' => ~strayed /\ stray' = {}
  <2>1. ~strayed => stray = {}
    BY DEF FaultInv, Work
  <2>2. CASE FaultEnds(c)
    BY <2>1, <2>2 DEF FaultEnds
  <2>3. CASE FaultFails(c)
    BY <2>1, <2>3 DEF FaultFails
  <2> QED BY <2>2, <2>3
<1>6. Work'
  BY <1>1, <1>2, <1>5 DEF FaultInv, Work
<1>7. ASSUME ~trouble', ~strayed' PROVE Within(infra, Allowed)' /\ HalfStarted'
  <2>1. Within(infra, Kinds(Faults(v)))
    BY <1>1, <1>2, <1>5, <1>7 DEF FaultInv, Allowed
  <2>2. Within(infra', Kinds(Faults(v)))
    BY <1>1, <1>3, <1>4, <2>1, FaultsOfVariant, ApplyStaysWithin
  <2> QED BY <1>1, <1>2, <2>2 DEF Allowed, HalfStarted
<1> QED BY <1>6, <1>7 DEF FaultInv

\* The steps between the commands.
LEMMA PhaseKeepsFaults ==
  ASSUME ExitInv, FaultInv,
         \/ SmokePasses \/ StartAct \/ Measure \/ K6Ends \/ StartFault \/ Restore \/ Finish
  PROVE  FaultInv'
<1> USE DEF sshVars, runVars, mainVars
<1>1. ~strayed => stray = {}
  BY DEF FaultInv, Work
<1>2. phase \notin {"next", "exited"} => v \in 1..Len(Variants)
  BY VariantsShape DEF ExitInv, Place, Over
<1>3. CASE SmokePasses
  <2>1. /\ phase = "smoke" /\ phase' = "setup" /\ acts' = Variants[v].setup
        /\ UNCHANGED <<infra, flying, faults, stray, strayed, timeline, v, trouble>>
    BY <1>3 DEF SmokePasses
  <2>2. /\ flying = {} /\ faults = {} /\ timeline = {}
        /\ acts' \in Seq(Action) /\ Kinds(acts') \subseteq Kinds(Faults(v))
    BY <1>2, <2>1, FaultsOfVariant DEF FaultInv, Work
  <2>3. Work'
    BY <1>1, <2>1, <2>2 DEF Work
  <2>4. ~trouble /\ ~strayed => Within(infra, Kinds(Faults(v)))
    BY <2>1, WithinGrows DEF FaultInv, Allowed
  <2> QED BY <2>1, <2>2, <2>3, <2>4 DEF FaultInv, Allowed, HalfStarted
<1>4. CASE StartAct
  <2>1. /\ phase \in {"setup", "restore"} /\ acts # <<>> /\ flying' = Commands(Head(acts))
        /\ UNCHANGED <<infra, faults, stray, strayed, timeline, v, phase, acts, trouble>>
    BY <1>4 DEF StartAct
  <2>2. Work'
    BY <2>1 DEF FaultInv, Work
  <2>3. Head(acts).kind = "start-workers" => \A w \in All : Cmd("start", w) \in Commands(Head(acts))
    BY DEF Commands
  <2> QED BY <2>1, <2>2, <2>3 DEF FaultInv, Allowed, HalfStarted
<1>5. CASE Measure
  <2>1. /\ phase = "setup" /\ acts = <<>> /\ phase' = "measure" /\ timeline' = DOMAIN Variants[v].during
        /\ UNCHANGED <<infra, flying, faults, stray, strayed, v, acts, trouble>>
    BY <1>5 DEF Measure
  <2>2. Work'
    BY <2>1 DEF FaultInv, Work
  <2> QED BY <2>1, <2>2 DEF FaultInv, Allowed, HalfStarted
<1>6. CASE K6Ends
  <2>1. /\ phase = "measure" /\ phase' = "await"
        /\ UNCHANGED <<infra, flying, faults, stray, strayed, v, acts, timeline, trouble>>
    BY <1>6 DEF K6Ends
  <2>2. Work'
    BY <2>1 DEF FaultInv, Work
  <2> QED BY <2>1, <2>2 DEF FaultInv, Allowed, HalfStarted
<1>7. CASE StartFault
  <2>1. PICK k \in timeline :
          IF running THEN faults' = Commands(Variants[v].during[k].action) /\ timeline' = timeline \ {k}
                     ELSE faults' = {} /\ timeline' = {}
    BY <1>7 DEF StartFault
  <2>2. phase \in {"measure", "await"} /\ UNCHANGED <<infra, flying, stray, strayed, v, phase, acts, trouble>>
    BY <1>7 DEF StartFault
  <2>3. Work'
    BY <2>1, <2>2 DEF FaultInv, Work
  <2> QED BY <2>2, <2>3 DEF FaultInv, Allowed, HalfStarted
<1>8. CASE Restore
  <2>1. /\ phase = "await" /\ timeline = {} /\ faults = {} /\ phase' = "restore" /\ acts' = RestoreActs(v)
        /\ UNCHANGED <<infra, flying, faults, stray, strayed, v, timeline, trouble>>
    BY <1>8 DEF Restore, TimelineOver
  <2>2. Within(Whole, Kinds(Faults(v)))
    BY WholeIsWithin, WithinGrows
  <2>3. flying = {} /\ acts' \in Seq(Action) /\ \A k \in DOMAIN acts' : acts'[k] \in Undos
    BY <1>2, <2>1, <2>2, RestoreUndoes DEF FaultInv, Work
  <2>4. Work'
    BY <1>1, <2>1, <2>3 DEF Work
  <2>5. ~trouble /\ ~strayed => Within(infra, Kinds(RestoreActs(v)))
    BY <1>2, <2>1, RestoreUndoes DEF FaultInv, Allowed
  <2> QED BY <2>1, <2>3, <2>4, <2>5 DEF FaultInv, Allowed, HalfStarted
<1>9. CASE Finish
  <2>1. /\ phase = "restore" /\ acts = <<>> /\ phase' = "next"
        /\ UNCHANGED <<infra, flying, faults, stray, strayed, acts, timeline, trouble>>
    BY <1>9 DEF Finish
  <2>2. flying = {} /\ timeline = {} /\ faults = {} /\ Kinds(acts) = {}
    BY <2>1 DEF FaultInv, Work, Kinds
  <2>3. Work'
    BY <1>1, <2>1, <2>2 DEF FaultInv, Work
  <2> QED BY <2>1, <2>2, <2>3 DEF FaultInv, Allowed, HalfStarted
<1> QED BY <1>3, <1>4, <1>5, <1>6, <1>7, <1>8, <1>9

\* The steps from one repeat to the next.
LEMMA LoopKeepsFaults ==
  ASSUME FaultInv,
         Skip \/ Begin \/ End \/ Deployed \/ DeployFails \/ SmokeFails \/ Restart
  PROVE  FaultInv'
<1> USE DEF sshVars, runVars, mainVars
<1>1. ~strayed => stray = {}
  BY DEF FaultInv, Work
<1>2. CASE Skip \/ Begin \/ End \/ SmokeFails
  <2>1. /\ phase \in {"next", "smoke"} /\ phase' \in {"next", "deploy", "exited"}
        /\ UNCHANGED <<infra, flying, faults, stray, strayed, acts, timeline, trouble>>
    BY <1>2 DEF Skip, Begin, End, SmokeFails
  <2>2. Work'
    BY <2>1 DEF FaultInv, Work
  <2> QED BY <2>1, <2>2 DEF FaultInv, Allowed, HalfStarted
<1>3. CASE Deployed \/ DeployFails
  <2>1. /\ phase = "deploy" /\ phase' \in {"smoke", "exited"}
        /\ infra' = Whole \/ trouble'
        /\ UNCHANGED <<flying, faults, stray, strayed, acts, timeline>>
    BY <1>3 DEF Deployed, DeployFails
  <2>2. Work'
    BY <2>1 DEF FaultInv, Work
  <2> QED BY <2>1, <2>2, WholeIsWithin DEF FaultInv, Allowed, HalfStarted
<1>4. CASE Restart
  <2>1. /\ phase' = "next" /\ acts' = <<>> /\ flying' = {} /\ timeline' = {} /\ faults' = {}
        /\ stray' = stray \cup flying \cup faults /\ strayed' = (strayed \/ flying \cup faults # {})
        /\ trouble' = (trouble \/ phase \notin {"next", "exited"}) /\ UNCHANGED infra
    BY <1>4 DEF Restart
  <2>a. ~strayed' => ~strayed /\ flying \cup faults = {}
    BY <2>1
  <2>b. ~strayed' => stray' = {}
    BY <1>1, <2>1, <2>a
  <2>2. <<>> \in Seq(Action) /\ (~strayed' => stray' = {})
    BY <2>b, EmptySeq
  <2>3. Work'
    BY <2>1, <2>2 DEF Work
  <2>4. ASSUME ~trouble', ~strayed' PROVE Within(infra', {})
    BY <2>1, <2>4 DEF FaultInv, Allowed
  <2> QED BY <2>1, <2>3, <2>4 DEF FaultInv, Allowed, HalfStarted
<1> QED BY <1>2, <1>3, <1>4

LEMMA StepKeepsFaults ==
  ASSUME ExitInv, FaultInv, [Next]_vars
  PROVE  FaultInv'
<1>1. ASSUME NEW c, CommandEnds(c) \/ CommandFails(c) \/ FaultEnds(c) \/ FaultFails(c) PROVE FaultInv'
  BY <1>1, CommandKeepsFaults, CommandFailureKeepsFaults, TimedFaultKeepsFaults
<1>2. ASSUME NEW c, StrayEnds(c) PROVE FaultInv'
  <2>1. /\ c \in stray
        /\ UNCHANGED <<flying, faults, strayed, acts, timeline, trouble, v, phase>>
    BY <1>2 DEF StrayEnds, runVars, mainVars
  <2>2. strayed /\ strayed'
    BY <2>1 DEF FaultInv, Work
  <2> QED BY <2>1, <2>2 DEF FaultInv, Work
<1>3. CASE UNCHANGED vars
  BY <1>3 DEF vars, FaultInv, Work, Allowed, HalfStarted
<1> QED
  BY <1>1, <1>2, <1>3, PhaseKeepsFaults, LoopKeepsFaults DEF Next, Progress

\* Only what the phase allows differs from a whole deployment, at all times.
LEMMA FaultInvariance == Spec => []FaultInv
<1>1. Init => FaultInv
  <2> SUFFICES ASSUME Init PROVE FaultInv
    OBVIOUS
  <2>1. /\ infra = Whole /\ phase = "next" /\ acts = <<>> /\ flying = {} /\ timeline = {} /\ faults = {}
        /\ stray = {}
    BY DEF Init
  <2> QED BY <2>1, WholeIsWithin DEF FaultInv, Work, Allowed, HalfStarted
<1>3. ExitInv /\ FaultInv /\ [Next]_vars => FaultInv'
  BY StepKeepsFaults
<1> QED BY <1>1, <1>3, ExitInvariance, PTL DEF Spec

\* Faults stay inside their repeat (run.ts:329-339, 376): once it is over, every worker
\* and Redis run and the registry lists every worker, for any study and fleet, unless a
\* command of restore failed, the controller died, or a command outlived its action.
THEOREM FaultsStayInside == Spec => []FaultsUndone
<1>1. FaultInv => FaultsUndone
  BY DEF FaultInv, Allowed, Within, FaultsUndone
<1> QED BY <1>1, FaultInvariance, PTL

-----------------------------------------------------------------------------
(***************************************************************************)
(* The setup.  While it goes on, what runs is what its finished actions    *)
(* are for, one after the other on a fresh deployment, and of the action   *)
(* under way what its finished commands add to that.                       *)
(***************************************************************************)
Infra == [up : SUBSET All, redis : BOOLEAN, registry : SUBSET All]

\* Induction over the numbers, on the set of those a statement holds of.
LEMMA SetInduction ==
  ASSUME NEW T, T \subseteq Nat, 0 \in T, \A n \in T : n + 1 \in T
  PROVE  T = Nat
<1> DEFINE R == OpToRel(<, Nat)
<1>1. IsWellFoundedOn(R, Nat) BY NatLessThanWellFounded
<1>2. \A x, y \in Nat : <<x, y>> \in R <=> x < y BY DEF OpToRel
<1> HIDE DEF R
<1> SUFFICES ASSUME Nat \ T # {} PROVE FALSE OBVIOUS
<1>3. PICK x \in Nat \ T : \A y \in Nat \ T : ~(<<y, x>> \in R)
  BY <1>1, WFMin
<1>4. x # 0 /\ x - 1 \in Nat /\ x - 1 < x BY <1>3
<1>5. x - 1 \in T BY <1>2, <1>3, <1>4
<1>6. (x - 1) + 1 = x BY <1>3
<1> QED BY <1>3, <1>5, <1>6

\* The function that AfterEach defines by recursion is there, by induction over its length.
LEMMA AfterEachStep ==
  ASSUME NEW s \in Seq(Action)
  PROVE  /\ AfterEach(s)[0] = Whole
         /\ \A n \in 1..Len(s) : AfterEach(s)[n] = After(AfterEach(s)[n - 1], s[n])
<1> DEFINE Upto(f, m) == f = [n \in 0..m |-> IF n = 0 THEN Whole ELSE After(f[n - 1], s[n])]
           T == {m \in Nat : \E f : Upto(f, m)}
<1>1. 0 \in T
  <2>1. Upto([n \in 0..0 |-> Whole], 0) OBVIOUS
  <2> QED BY <2>1
<1>2. ASSUME NEW m \in T PROVE m + 1 \in T
  <2>1. PICK f : Upto(f, m) OBVIOUS
  <2> DEFINE g == [n \in 0..m + 1 |-> IF n = m + 1 THEN After(f[m], s[m + 1]) ELSE f[n]]
  <2>2. m \in Nat OBVIOUS
  <2>3. \A n \in 0..m + 1 : g[n] = IF n = 0 THEN Whole ELSE After(g[n - 1], s[n])
    <3> SUFFICES ASSUME NEW n \in 0..m + 1 PROVE g[n] = IF n = 0 THEN Whole ELSE After(g[n - 1], s[n])
      OBVIOUS
    <3>1. CASE n = m + 1
      <4>1. n # 0 /\ g[n] = After(f[m], s[m + 1]) /\ n - 1 = m /\ g[m] = f[m] BY <2>2, <3>1
      <4> QED BY <3>1, <4>1
    <3>2. CASE n # m + 1 /\ n = 0
      <4>1. g[n] = f[0] /\ 0 \in 0..m BY <2>2, <3>2
      <4>2. f[0] = Whole BY <2>1, <4>1
      <4> QED BY <3>2, <4>1, <4>2
    <3>3. CASE n # m + 1 /\ n # 0
      <4>1. n \in 0..m /\ n - 1 \in 0..m BY <2>2, <3>3
      <4>2. g[n] = f[n] /\ g[n - 1] = f[n - 1] BY <2>2, <3>3, <4>1
      <4>3. f[n] = After(f[n - 1], s[n]) BY <2>1, <3>3, <4>1
      <4> QED BY <3>3, <4>2, <4>3
    <3> QED BY <3>1, <3>2, <3>3
  <2>4. Upto(g, m + 1)
    <3> DEFINE h == [n \in 0..m + 1 |-> IF n = 0 THEN Whole ELSE After(g[n - 1], s[n])]
    <3>1. g = h BY <2>3
    <3> QED BY <3>1
  <2> HIDE DEF Upto, g
  <2> QED BY <2>2, <2>4
<1>3. T = Nat
  <2>1. T \subseteq Nat OBVIOUS
  <2> HIDE DEF T
  <2> QED BY <1>1, <1>2, <2>1, SetInduction
<1>4. Len(s) \in Nat OBVIOUS
<1>5. \E f : Upto(f, Len(s)) BY <1>3, <1>4
<1>6. AfterEach(s) = CHOOSE f : Upto(f, Len(s)) BY DEF AfterEach
<1>7. Upto(AfterEach(s), Len(s)) BY <1>5, <1>6
<1> DEFINE a == AfterEach(s)
<1>8. a = [n \in 0..Len(s) |-> IF n = 0 THEN Whole ELSE After(a[n - 1], s[n])] BY <1>7
<1> HIDE DEF a
<1>9. \A n \in 0..Len(s) : a[n] = IF n = 0 THEN Whole ELSE After(a[n - 1], s[n]) BY <1>8
<1>10. 0 \in 0..Len(s) BY <1>4
<1>11. a[0] = Whole BY <1>9, <1>10
<1>12. \A n \in 1..Len(s) : a[n] = After(a[n - 1], s[n])
  <2> SUFFICES ASSUME NEW n \in 1..Len(s) PROVE a[n] = After(a[n - 1], s[n]) OBVIOUS
  <2>1. n \in 0..Len(s) /\ n # 0 BY <1>4
  <2> QED BY <1>9, <2>1
<1> QED BY <1>11, <1>12 DEF a

\* What runs after an action, given what ran before it.
LEMMA AfterKeepsType ==
  ASSUME NEW i \in Infra, NEW a \in Action
  PROVE  After(i, a) \in Infra
<1>1. a.kind \in ActionKinds /\ Counted(a) \in 0..Fleet /\ Fleet \in Nat
  BY StudyAssumption DEF Action, Counted
<1>2. 1..Counted(a) \subseteq All BY <1>1 DEF All
<1> QED BY <1>1, <1>2 DEF After, Infra, ActionKinds, Unset

SetUp == Variants[v].setup
Past  == Len(SetUp) - Len(acts)
Reached == AfterEach(SetUp)[Past]

\* What runs while some commands of the action a are still under way.
HalfDone(a) ==
  CASE a.kind = "kill-workers"  ->
         infra = [Reached EXCEPT !.up = @ \ {w \in Victims(a) : Cmd("kill", w) \notin flying}]
    [] a.kind = "start-workers" ->
         infra = [Reached EXCEPT !.up = @ \cup {w \in All : Cmd("start", w) \notin flying}]
    [] OTHER -> infra = Reached

\* The actions left are the last ones of the setup; those before them have been done.
SettingUp ==
  /\ Past \in 0..Len(SetUp)
  /\ \A k \in DOMAIN acts : acts[k] = SetUp[Past + k]
  /\ Reached \in Infra
  /\ IF flying = {} THEN infra = Reached ELSE HalfDone(Head(acts))

\* What runs at the start of the setup, while it goes on, and when k6 runs.
PlanInv ==
  /\ phase = "measure" /\ faults # {} => timeline # DOMAIN Variants[v].during
  /\ ~strayed =>
       /\ phase = "smoke" => infra = Whole
       /\ phase = "setup" => SettingUp
       /\ phase = "measure" /\ timeline = DOMAIN Variants[v].during => infra = AfterEach(SetUp)[Len(SetUp)]

\* A repeat under way has a variant, and with it a setup.
LEMMA SetUpType ==
  ASSUME ExitInv, phase \in {"smoke", "setup", "measure"}
  PROVE  SetUp \in Seq(Action) /\ Len(SetUp) \in Nat
<1>1. v \in 1..Len(Variants) BY VariantsShape DEF ExitInv, Place, Over
<1>2. SetUp \in Seq(Action) BY <1>1, VariantsShape DEF SetUp
<1> QED BY <1>2, LenProperties

\* The setup begins on a fresh deployment.
LEMMA SmokeKeepsPlan ==
  ASSUME ExitInv, FaultInv, PlanInv, SmokePasses
  PROVE  PlanInv'
<1>1. /\ phase = "smoke" /\ phase' = "setup" /\ acts' = SetUp
      /\ UNCHANGED <<infra, flying, strayed, v>>
  BY DEF SmokePasses, sshVars, mainVars, SetUp
<1>2. flying = {} BY <1>1 DEF FaultInv, Work
<1>3. SetUp \in Seq(Action) /\ Len(SetUp) \in Nat /\ SetUp' = SetUp BY <1>1, SetUpType DEF SetUp
<1>4. Past' = 0 BY <1>1, <1>3 DEF Past
<1>5. Reached' = Whole BY <1>3, <1>4, AfterEachStep DEF Reached
<1>6. Whole \in Infra BY DEF Whole, Infra, Unset
<1>7. \A k \in DOMAIN acts' : acts'[k] = SetUp'[0 + k]
  <2>1. DOMAIN SetUp = 1..Len(SetUp) BY <1>3, LenProperties
  <2> QED BY <1>1, <1>3, <2>1
<1>8. ~strayed => SettingUp' BY <1>1, <1>2, <1>3, <1>4, <1>5, <1>6, <1>7 DEF SettingUp, PlanInv
<1> QED BY <1>1, <1>8 DEF PlanInv

\* An action starts: none of its commands has ended.
LEMMA StartKeepsPlan ==
  ASSUME ExitInv, FaultInv, PlanInv, StartAct
  PROVE  PlanInv'
<1>1. /\ phase \in {"setup", "restore"} /\ acts # <<>> /\ flying = {} /\ flying' = Commands(Head(acts))
      /\ UNCHANGED <<infra, strayed, v, phase, acts>>
  BY DEF StartAct, mainVars
<1>2. SUFFICES ASSUME phase = "setup", ~strayed PROVE SettingUp'
  BY <1>1 DEF PlanInv
<1>3. SettingUp BY <1>2 DEF PlanInv
<1>4. UNCHANGED <<SetUp, Past, Reached>> BY <1>1 DEF SetUp, Past, Reached
<1>5. infra = Reached /\ Reached \in Infra BY <1>1, <1>3 DEF SettingUp
<1> DEFINE a == Head(acts)
<1>6. HalfDone(a)'
  <2>1. CASE a.kind = "kill-workers"
    <3>1. \A w \in Victims(a) : Cmd("kill", w) \in flying' BY <1>1, <2>1 DEF Commands
    <3>2. {w \in Victims(a) : Cmd("kill", w) \notin flying'} = {} BY <3>1
    <3>3. Reached = [Reached EXCEPT !.up = @ \ {}] BY <1>5 DEF Infra
    <3> QED BY <1>1, <1>4, <1>5, <2>1, <3>2, <3>3 DEF HalfDone
  <2>2. CASE a.kind = "start-workers"
    <3>1. \A w \in All : Cmd("start", w) \in flying' BY <1>1, <2>2 DEF Commands
    <3>2. {w \in All : Cmd("start", w) \notin flying'} = {} BY <3>1
    <3>3. Reached = [Reached EXCEPT !.up = @ \cup {}] BY <1>5 DEF Infra
    <3> QED BY <1>1, <1>4, <1>5, <2>2, <3>2, <3>3 DEF HalfDone
  <2>3. CASE a.kind \notin {"kill-workers", "start-workers"}
    BY <1>1, <1>4, <1>5, <2>3 DEF HalfDone
  <2> QED BY <2>1, <2>2, <2>3
<1> QED BY <1>1, <1>3, <1>4, <1>5, <1>6 DEF SettingUp

\* The commands of an action bring about what the action is for.
LEMMA LastCommandCompletes ==
  ASSUME NEW a \in Action, NEW c, flying = {c}, c \in Commands(a), HalfDone(a), Reached \in Infra
  PROVE  Apply(infra, c) = After(Reached, a)
<1> DEFINE i == Reached
<1>1. a.kind \in ActionKinds /\ i \in [up : SUBSET All, redis : BOOLEAN, registry : SUBSET All]
  BY DEF Action, Infra
<1>2. CASE a.kind = "kill-workers"
  <2>1. PICK w \in Victims(a) : c = Cmd("kill", w) BY <1>2 DEF Commands
  <2>2. infra = [i EXCEPT !.up = i.up \ {x \in Victims(a) : Cmd("kill", x) \notin {c}}] BY <1>2 DEF HalfDone
  <2>3. {x \in Victims(a) : Cmd("kill", x) \notin {c}} = Victims(a) \ {w} BY <2>1 DEF Cmd
  <2>4. infra = [i EXCEPT !.up = i.up \ (Victims(a) \ {w})] BY <2>2, <2>3
  <2>5. infra \in [up : SUBSET All, redis : BOOLEAN, registry : SUBSET All] BY <1>1, <2>4
  <2>6. Apply(infra, c) = [infra EXCEPT !.up = infra.up \ {w}] BY <2>1, <2>5, AppliedCommand
  <2>7. infra.up \ {w} = i.up \ Victims(a) BY <1>1, <2>1, <2>4
  <2>8. Apply(infra, c) = [i EXCEPT !.up = i.up \ Victims(a)] BY <1>1, <2>4, <2>6, <2>7
  <2> QED BY <1>2, <2>8 DEF After
<1>3. CASE a.kind = "start-workers"
  <2>1. PICK w \in All : c = Cmd("start", w) BY <1>3 DEF Commands
  <2>2. infra = [i EXCEPT !.up = i.up \cup {x \in All : Cmd("start", x) \notin {c}}] BY <1>3 DEF HalfDone
  <2>3. {x \in All : Cmd("start", x) \notin {c}} = All \ {w} BY <2>1 DEF Cmd
  <2>4. infra = [i EXCEPT !.up = i.up \cup (All \ {w})] BY <2>2, <2>3
  <2>5. infra \in [up : SUBSET All, redis : BOOLEAN, registry : SUBSET All] BY <1>1, <2>4
  <2>6. Apply(infra, c) = [infra EXCEPT !.up = infra.up \cup {w}] BY <2>1, <2>5, AppliedCommand
  <2>7. infra.up \cup {w} = All BY <1>1, <2>1, <2>4
  <2>8. Apply(infra, c) = [i EXCEPT !.up = All] BY <1>1, <2>4, <2>6, <2>7
  <2> QED BY <1>3, <2>8 DEF After
<1>4. CASE a.kind = "kill-redis"
  <2>1. c = Cmd("kill-redis", 0) /\ infra = i BY <1>4 DEF Commands, HalfDone
  <2> QED BY <1>1, <1>4, <2>1, AppliedCommand DEF After
<1>5. CASE a.kind = "start-redis"
  <2>1. c = Cmd("start-redis", 0) /\ infra = i BY <1>5 DEF Commands, HalfDone
  <2> QED BY <1>1, <1>5, <2>1, AppliedCommand DEF After
<1>6. CASE a.kind = "registry-set"
  <2>1. c = Cmd("registry", Counted(a)) /\ infra = i BY <1>6 DEF Commands, HalfDone
  <2> QED BY <1>1, <1>6, <2>1, AppliedCommand DEF After
<1> QED BY <1>1, <1>2, <1>3, <1>4, <1>5, <1>6 DEF ActionKinds

\* A command ends, and with the last one its action.
LEMMA CommandKeepsPlan ==
  ASSUME ExitInv, FaultInv, PlanInv, NEW c, CommandEnds(c)
  PROVE  PlanInv'
<1>1. /\ c \in flying /\ infra' = Apply(infra, c) /\ flying' = flying \ {c}
      /\ acts' = (IF flying = {c} THEN Tail(acts) ELSE acts)
      /\ UNCHANGED <<strayed, v, phase>>
  BY DEF CommandEnds, mainVars
<1>2. /\ phase \in {"setup", "restore"} /\ acts \in Seq(Action) /\ acts # <<>>
      /\ flying \subseteq Commands(Head(acts))
  BY <1>1 DEF FaultInv, Work
<1>3. SUFFICES ASSUME phase = "setup", ~strayed PROVE SettingUp'
  BY <1>1, <1>2 DEF PlanInv
<1> DEFINE a == Head(acts)
<1>4. SettingUp /\ HalfDone(a) /\ Reached \in Infra
      /\ SetUp \in Seq(Action) /\ Len(SetUp) \in Nat /\ SetUp' = SetUp
  BY <1>1, <1>3, SetUpType DEF PlanInv, SettingUp, SetUp
<1>5. /\ a \in Action /\ Tail(acts) \in Seq(Action) /\ a = acts[1] /\ Len(Tail(acts)) = Len(acts) - 1
      /\ Len(acts) \in Nat \ {0} /\ DOMAIN acts = 1..Len(acts) /\ DOMAIN Tail(acts) = 1..Len(acts) - 1
      /\ \A k \in 1..Len(acts) - 1 : Tail(acts)[k] = acts[k + 1]
  BY <1>2, HeadTailProperties, LenProperties, EmptySeq
<1>6. CASE flying = {c}
  <2>1. Past \in 0..Len(SetUp) /\ Past = Len(SetUp) - Len(acts) BY <1>4 DEF SettingUp, Past
  <2>2. Past' = Past + 1 /\ Past' \in 1..Len(SetUp) BY <1>1, <1>4, <1>5, <1>6, <2>1 DEF Past
  <2>3. a = SetUp[Past + 1] BY <1>4, <1>5 DEF SettingUp
  <2>4. Reached' = After(Reached, a)
    <3>1. Reached' = AfterEach(SetUp)[Past + 1] BY <1>4, <2>2 DEF Reached
    <3>2. AfterEach(SetUp)[Past + 1] = After(AfterEach(SetUp)[(Past + 1) - 1], SetUp[Past + 1])
      BY <1>4, <2>2, AfterEachStep
    <3>3. (Past + 1) - 1 = Past BY <2>1
    <3> QED BY <2>3, <3>1, <3>2, <3>3 DEF Reached
  <2>5. infra' = Reached' BY <1>1, <1>2, <1>4, <1>5, <1>6, <2>4, LastCommandCompletes
  <2>6. Reached' \in Infra BY <1>4, <1>5, <2>4, AfterKeepsType
  <2>7. \A k \in DOMAIN acts' : acts'[k] = SetUp'[Past' + k]
    <3> SUFFICES ASSUME NEW k \in 1..Len(acts) - 1 PROVE Tail(acts)[k] = SetUp[(Past + 1) + k]
      BY <1>1, <1>4, <1>5, <1>6, <2>2
    <3>1. k + 1 \in DOMAIN acts /\ Past + (k + 1) = (Past + 1) + k BY <1>5, <2>1
    <3>2. acts[k + 1] = SetUp[Past + (k + 1)] BY <1>4, <3>1 DEF SettingUp
    <3> QED BY <1>5, <3>1, <3>2
  <2> QED BY <1>1, <1>4, <1>6, <2>2, <2>5, <2>6, <2>7 DEF SettingUp
<1>7. CASE flying # {c}
  <2>1. flying' # {} /\ UNCHANGED <<acts, Past, Reached, SetUp>> BY <1>1, <1>4, <1>7 DEF Past, Reached
  <2> DEFINE i == Reached
  <2>2. i \in [up : SUBSET All, redis : BOOLEAN, registry : SUBSET All] BY <1>4 DEF Infra
  <2>3. HalfDone(a)'
    <3>1. CASE a.kind = "kill-workers"
      <4> DEFINE gone == {x \in Victims(a) : Cmd("kill", x) \notin flying}
                 then == {x \in Victims(a) : Cmd("kill", x) \notin flying'}
      <4>1. PICK w \in Victims(a) : c = Cmd("kill", w) BY <1>1, <1>2, <3>1 DEF Commands
      <4>2. infra = [i EXCEPT !.up = i.up \ gone] BY <1>4, <3>1 DEF HalfDone
      <4>3. then = gone \cup {w} BY <1>1, <4>1 DEF Cmd
      <4> HIDE DEF gone, then
      <4>4. infra \in [up : SUBSET All, redis : BOOLEAN, registry : SUBSET All] BY <2>2, <4>2
      <4>5. infra' = [infra EXCEPT !.up = infra.up \ {w}] BY <1>1, <4>1, <4>4, AppliedCommand
      <4>6. infra' = [i EXCEPT !.up = i.up \ then] BY <2>2, <4>2, <4>3, <4>5
      <4> QED BY <2>1, <3>1, <4>6 DEF HalfDone, then
    <3>2. CASE a.kind = "start-workers"
      <4> DEFINE there == {x \in All : Cmd("start", x) \notin flying}
                 then == {x \in All : Cmd("start", x) \notin flying'}
      <4>1. PICK w \in All : c = Cmd("start", w) BY <1>1, <1>2, <3>2 DEF Commands
      <4>2. infra = [i EXCEPT !.up = i.up \cup there] BY <1>4, <3>2 DEF HalfDone
      <4>3. then = there \cup {w} /\ there \subseteq All BY <1>1, <4>1 DEF Cmd
      <4> HIDE DEF there, then
      <4>4. infra \in [up : SUBSET All, redis : BOOLEAN, registry : SUBSET All] BY <2>2, <4>2, <4>3
      <4>5. infra' = [infra EXCEPT !.up = infra.up \cup {w}] BY <1>1, <4>1, <4>4, AppliedCommand
      <4>6. infra' = [i EXCEPT !.up = i.up \cup then] BY <2>2, <4>2, <4>3, <4>5
      <4> QED BY <2>1, <3>2, <4>6 DEF HalfDone, then
    <3>3. CASE a.kind \notin {"kill-workers", "start-workers"}
      <4>1. Commands(a) = {c} BY <1>1, <1>2, <1>5, <3>3 DEF Commands, Action, ActionKinds
      <4> QED BY <1>1, <1>2, <1>7, <4>1
    <3> QED BY <3>1, <3>2, <3>3
  <2> QED BY <1>4, <2>1, <2>3 DEF SettingUp
<1> QED BY <1>6, <1>7

\* The setup is complete when k6 starts.
LEMMA MeasureKeepsPlan ==
  ASSUME ExitInv, FaultInv, PlanInv, Measure
  PROVE  PlanInv'
<1>1. /\ phase = "setup" /\ acts = <<>> /\ phase' = "measure" /\ UNCHANGED <<infra, strayed, v, faults>>
  BY DEF Measure, sshVars, mainVars
<1>2. flying = {} /\ faults = {} BY <1>1 DEF FaultInv, Work
<1>3. Len(SetUp) \in Nat /\ SetUp' = SetUp BY <1>1, SetUpType DEF SetUp
<1>4. Past = Len(SetUp) BY <1>1, <1>3 DEF Past
<1>5. ~strayed => infra = AfterEach(SetUp)[Len(SetUp)]
  BY <1>1, <1>2, <1>4 DEF PlanInv, SettingUp, Reached
<1> QED BY <1>1, <1>2, <1>3, <1>5 DEF PlanInv

\* The first timed fault ends the time the plan speaks of.
LEMMA StartFaultKeepsPlan ==
  ASSUME ExitInv, FaultInv, PlanInv, StartFault
  PROVE  PlanInv'
<1>1. PICK k \in timeline :
        IF running THEN faults' = Commands(Variants[v].during[k].action) /\ timeline' = timeline \ {k}
                   ELSE faults' = {} /\ timeline' = {}
  BY DEF StartFault
<1>2. phase \in {"measure", "await"} /\ UNCHANGED <<strayed, v, phase>> BY DEF StartFault, mainVars
<1>3. timeline \subseteq DOMAIN Variants[v].during BY DEF FaultInv, Work
<1>4. timeline' # DOMAIN Variants[v].during BY <1>1, <1>3
<1> QED BY <1>2, <1>4 DEF PlanInv

\* The other steps change nothing of it, or lead to where it says nothing.
LEMMA OtherKeepsPlan ==
  ASSUME ExitInv, FaultInv, PlanInv,
         \/ Skip \/ Begin \/ End \/ Deployed \/ DeployFails \/ SmokeFails \/ K6Ends \/ Restore \/ Finish \/ Restart
         \/ \E c : CommandFails(c) \/ FaultEnds(c) \/ FaultFails(c)
         \/ \E c \in stray : StrayEnds(c)
         \/ UNCHANGED vars
  PROVE  PlanInv'
<1>1. CASE \/ Skip \/ Begin \/ End \/ DeployFails \/ SmokeFails \/ K6Ends \/ Restore \/ Finish \/ Restart
           \/ \E c : CommandFails(c)
  <2>1. phase' \notin {"smoke", "setup", "measure"}
    <3>1. ASSUME NEW c, CommandFails(c) PROVE phase' = "restore"
      <4>1. c \in flying /\ (phase = "setup" => phase' = "restore") /\ (phase # "setup" => UNCHANGED phase)
        BY <3>1 DEF CommandFails
      <4> QED BY <4>1 DEF FaultInv, Work
    <3> QED BY <1>1, <3>1 DEF Skip, Begin, End, DeployFails, SmokeFails, K6Ends, Restore, Finish, Restart
  <2> QED BY <2>1 DEF PlanInv
<1>2. CASE Deployed BY <1>2 DEF Deployed, PlanInv
<1>3. ASSUME NEW c, FaultEnds(c) \/ FaultFails(c) PROVE PlanInv'
  <2>1. c \in faults /\ UNCHANGED <<timeline, v, phase>>
    BY <1>3 DEF FaultEnds, FaultFails, runVars, mainVars
  <2>2. phase \in {"measure", "await"} BY <2>1 DEF FaultInv, Work
  <2> QED BY <2>1, <2>2 DEF PlanInv
<1>4. ASSUME NEW c \in stray, StrayEnds(c) PROVE PlanInv'
  <2>1. strayed /\ UNCHANGED <<strayed, faults, timeline, v, phase>>
    BY <1>4 DEF StrayEnds, FaultInv, Work, runVars, mainVars
  <2> QED BY <2>1 DEF PlanInv
<1>5. CASE UNCHANGED vars
  <2>1. UNCHANGED <<infra, phase, v, acts, flying, timeline, faults, strayed>> BY <1>5 DEF vars
  <2>2. UNCHANGED <<SetUp, Past, Reached>> BY <2>1 DEF SetUp, Past, Reached
  <2>3. SettingUp' = SettingUp BY <2>1, <2>2 DEF SettingUp, HalfDone
  <2> QED BY <2>1, <2>2, <2>3 DEF PlanInv
<1> QED BY <1>1, <1>2, <1>3, <1>4, <1>5

\* Every step.
LEMMA StepKeepsPlan ==
  ASSUME ExitInv, FaultInv, PlanInv, [Next]_vars
  PROVE  PlanInv'
BY SmokeKeepsPlan, StartKeepsPlan, CommandKeepsPlan, MeasureKeepsPlan, StartFaultKeepsPlan, OtherKeepsPlan
   DEF Next, Progress

\* A run is measured on what its variant says (run.ts:341-356): when k6 starts, and until
\* the first timed fault, what runs is a fresh deployment with every action of the setup
\* done, for any study and fleet, unless a command outlived its failed action.
THEOREM MeasuredWhatWasPlanned == Spec => []MeasuredAsPlanned
<1>1. Init => PlanInv BY DEF Init, PlanInv
<1>2. ExitInv /\ FaultInv /\ PlanInv /\ [Next]_vars => PlanInv' BY StepKeepsPlan
<1>3. PlanInv => MeasuredAsPlanned BY DEF PlanInv, MeasuredAsPlanned, SetUp
<1> QED BY <1>1, <1>2, <1>3, ExitInvariance, FaultInvariance, PTL DEF Spec
=============================================================================
