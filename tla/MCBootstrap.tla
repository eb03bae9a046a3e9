----------------------------- MODULE MCBootstrap -----------------------------
(* An instance of Bootstrap for TLC: the scheduler and a consumer. *)
EXTENDS Bootstrap

CONSTANTS p1, p2

=============================================================================
