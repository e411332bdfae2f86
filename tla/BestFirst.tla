------------------------------ MODULE BestFirst ------------------------------
(***************************************************************************)
(* What the route search promises as a best-first enumeration: it always   *)
(* works on an item of the least key, what it puts in the place of that    *)
(* item never has a smaller key, and it may emit the item it works on.     *)
(* Router implements it; that the emitted keys are then in order is proved *)
(* in RouterProofs.                                                        *)
(*                                                                         *)
(* A key is a tuple of four numbers, compared lexicographically            *)
(* (QueueKey::operator>): arrival, minus the first departure, transfers,   *)
(* waiting.                                                                *)
(***************************************************************************)
EXTENDS Integers, Sequences

Keys == Int \X Int \X Int \X Int

KeyBefore(a, b) ==
  \/ a[1] < b[1]
  \/ a[1] = b[1] /\ a[2] < b[2]
  \/ a[1] = b[1] /\ a[2] = b[2] /\ a[3] < b[3]
  \/ a[1] = b[1] /\ a[2] = b[2] /\ a[3] = b[3] /\ a[4] < b[4]

VARIABLES
  frontier,     \* the keys of the items that wait
  emitted       \* the keys of what has been emitted, in order

Init == emitted = <<>> /\ frontier \in SUBSET Keys

\* Take an item of the least key; everything that waits afterwards, old or new,
\* has that key or a larger one.
Take(k) ==
  /\ k \in frontier
  /\ \A other \in frontier : ~KeyBefore(other, k)
  /\ frontier' \in SUBSET Keys
  /\ \A new \in frontier' : ~KeyBefore(new, k)
  /\ emitted' \in {emitted, Append(emitted, k)}

Next == \E k \in frontier : Take(k)

Spec == Init /\ [][Next]_<<frontier, emitted>>

-----------------------------------------------------------------------------
\* What is emitted is in order: no journey of the answer ranks before an
\* earlier one of it.
InOrder == \A i, j \in 1..Len(emitted) : i < j => ~KeyBefore(emitted[j], emitted[i])
=============================================================================
