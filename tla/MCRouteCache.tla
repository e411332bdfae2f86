----------------------------- MODULE MCRouteCache -----------------------------
(* The instance of RouteCache for TLC: two calls of one process, one of another. *)
EXTENDS RouteCache

CONSTANTS q1, q2, q3, p1, p2

TwoTogether ==
  [q \in Callers |-> IF q = q3 THEN p2 ELSE p1]

Calm ==
  [coalesce |-> TRUE, useLock |-> TRUE, redisFails |-> FALSE, computeFails |-> FALSE,
   computeWithinLock |-> TRUE, processesCrash |-> FALSE]
Rough ==
  [coalesce |-> TRUE, useLock |-> TRUE, redisFails |-> TRUE, computeFails |-> TRUE,
   computeWithinLock |-> FALSE, processesCrash |-> TRUE]
Uncoalesced == [Calm EXCEPT !.coalesce = FALSE]
NoLockNoCoalescing == [Rough EXCEPT !.coalesce = FALSE, !.useLock = FALSE]

FourSettings == {Calm, Uncoalesced, Rough, NoLockNoCoalescing}
=============================================================================
