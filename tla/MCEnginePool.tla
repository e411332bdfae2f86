----------------------------- MODULE MCEnginePool -----------------------------
(* Instances of EnginePool for TLC. *)
EXTENDS EnginePool, TLC

CONSTANTS r1, r2, r3, a, a2, b, c

\* One object per URL unless stated otherwise.
MCUrl == [w \in Workers |-> IF w = a2 THEN a ELSE w]
NoLists == {}
\* The registry loses a worker for a while and lists it again.
FlappingLists == {{a, b}, {b}}
\* A worker leaves for good.
ShrinkingLists == {{b}}

\* The requests are interchangeable, and so are the workers of a fixed list.
FixedSymmetry == Permutations(Requests) \union Permutations(Workers)
=============================================================================
