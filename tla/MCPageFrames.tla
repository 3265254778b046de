---------------------------- MODULE MCPageFrames ----------------------------
(* A small machine: see MCPageFrames.cfg for the layout.                   *)
EXTENDS PageFrames
=============================================================================
