------------------------------- MODULE MCStudy -------------------------------
(***************************************************************************)
(* Three variants in small: both faults of E13 (workers, or Redis, die     *)
(* and come back) and the join of E14 (a worker joins through the          *)
(* registry); two workers.                                                 *)
(***************************************************************************)
EXTENDS Study

Do(kind, count) == [kind |-> kind, count |-> count]
At(t, a) == [at |-> t, action |-> a]

Three ==
  << [setup |-> <<>>, repeats |-> 1,
      during |-> <<At(180, Do("start-workers", 0)), At(60, Do("kill-workers", 2))>>],
     [setup |-> <<>>, repeats |-> 2,
      during |-> <<At(60, Do("kill-redis", 0)), At(180, Do("start-redis", 0))>>],
     [setup |-> <<Do("kill-workers", 1), Do("registry-set", 1)>>, repeats |-> 1,
      during |-> <<At(60, Do("start-workers", 0)), At(60, Do("registry-set", 0))>>] >>
=============================================================================
