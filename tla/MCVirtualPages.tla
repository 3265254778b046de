--------------------------- MODULE MCVirtualPages ---------------------------
(* Two entries a table, so that three pages need two L1 tables.            *)
EXTENDS VirtualPages, TLC

CONSTANTS f1, f2, f3, f4, f5, f6, l4

AllFrames == {f1, f2, f3, f4, f5, f6}

\* The frame allocator's order is left open, so frames are interchangeable.
Symmetry == Permutations(AllFrames)
=============================================================================
