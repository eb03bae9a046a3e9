-------------------------- MODULE MCBackwardCheck --------------------------
(* Instances of BackwardCheck for TLC. *)
EXTENDS BackwardCheck
=============================================================================
