---------------------------- MODULE MCMillionsDraws ----------------------------
(* An instance of MillionsDraws for TLC: one draw with one winner. *)
EXTENDS MillionsDraws, TLC

CONSTANTS a1, p1

WonByDraw == <<a1 :> 1>>
=============================================================================
