---------------------------- MODULE MCMillionsSync ----------------------------
(* An instance of MillionsSync for TLC. *)
EXTENDS MillionsSync, TLC

CONSTANTS a1, a2, p1, p2

\* TLC takes the crons one by one; that they may interleave is proved.
OneByOne == {{one} : one \in Crons}

\* One winner, who wins more in the first draw than in the second.
WonByDraw == <<a1 :> 2, a1 :> 1>>

\* Two depositors, the later one with more.
TwoOwners == <<a1, a2>>
Amounts == <<1, 2>>
===============================================================================
