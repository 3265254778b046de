----------------------------- MODULE HeapBlocks -----------------------------
(***************************************************************************)
(* What kmalloc and kfree promise (core/inc/kmalloc.h): a block is at      *)
(* least as long as asked for and overlaps no other block in use.          *)
(***************************************************************************)
EXTENDS Integers

CONSTANTS Addresses, Lengths

VARIABLE in_use     \* the length asked for of each block in use

Extent(a) == a .. a + in_use[a] - 1

Init == in_use = [a \in {} |-> 0]

Allocate(a, len) ==
  /\ \A b \in DOMAIN in_use : Extent(b) \cap (a .. a + len - 1) = {}
  /\ in_use' = [b \in DOMAIN in_use \cup {a} |-> IF b = a THEN len ELSE in_use[b]]

Release(a) ==
  /\ a \in DOMAIN in_use
  /\ in_use' = [b \in DOMAIN in_use \ {a} |-> in_use[b]]

Next ==
  \E a \in Addresses : Release(a) \/ \E len \in Lengths : Allocate(a, len)

Spec == Init /\ [][Next]_in_use
=============================================================================
