---------------------------- MODULE MCDeployment ----------------------------
(***************************************************************************)
(* Engines run with configuration and timetable a, another configuration b *)
(* of the same timetable, or another timetable c.  Two API processes, two  *)
(* warmers, or one of each; Redis is there, cannot be reached, or is not   *)
(* used.                                                                   *)
(***************************************************************************)
EXTENDS Deployment, TLC

CONSTANTS a, b, c, e1, e2, p1, p2, w1, w2, q1, q2

HashOf == [i \in {a, b, c} |-> IF i = c THEN "new" ELSE "own"]
OneUp  == {(e1 :> i) @@ (e2 :> Down) : i \in Identities \cup {Down}}
TwoUp  == {(e1 :> a) @@ (e2 :> i) : i \in Identities \ {a}}
OnlyA  == {(e1 :> a) @@ (e2 :> Down)}
Parts  ==
  {[procs |-> {p1, p2}, warmers |-> {}, lanes |-> {1}, engines |-> OneUp \cup TwoUp,
    redis |-> {"up", "down"}],
   [procs |-> {}, warmers |-> {w1, w2}, lanes |-> {1}, engines |-> OnlyA, redis |-> {"up", "down"}],
   [procs |-> {p1}, warmers |-> {w1}, lanes |-> {1, 2}, engines |-> OnlyA,
    redis |-> {"up", "none"}]}
TwoQueries == <<q1, q2>>
=============================================================================
