------------------------------ MODULE SlotPool -------------------------------
(* What the M:N library needs of an allocator of stacks or of descriptors: a  *)
(* slot has one owner, and a request may be refused only when few are free.   *)
EXTENDS Integers, FiniteSets

CONSTANTS Slot,
          Slack   \* a request may be refused although so many slots are free
VARIABLE owned

Init == owned = {}

Alloc(s) == s \in Slot \ owned /\ owned' = owned \cup {s}

MayRefuse == Cardinality(Slot \ owned) <= Slack

Free(s) == s \in owned /\ owned' = owned \ {s}

Next == \E s \in Slot : Alloc(s) \/ Free(s)

Spec == Init /\ [][Next]_owned
=============================================================================
