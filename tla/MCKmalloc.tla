------------------------------ MODULE MCKmalloc ------------------------------
(* Two pools, of two and of four units; pages of four.                     *)
EXTENDS Kmalloc

TwoPools == <<2, 4>>
=============================================================================
