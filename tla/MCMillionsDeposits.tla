------------------------- MODULE MCMillionsDeposits -------------------------
(* An instance of MillionsDeposits for TLC, with one consumer. *)
EXTENDS MillionsDeposits

CONSTANTS s1
=============================================================================
