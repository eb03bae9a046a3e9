------------------------------ MODULE MCServices ------------------------------
(* An instance of Services for TLC: pages of one row, two passes at once. *)
EXTENDS Services

CONSTANTS s1, s2, a1, a2, p1, p2, q1, q2

\* TLC takes the parts one by one; that they may interleave is proved.
OneByOne == {{part} : part \in Parts}

\* The last hour of a month, and hours of the next one before and after noon.
Hours == <<<<1, 31, 23>>, <<2, 1, 11>>, <<2, 1, 13>>>>

\* Two rows of one block and one of the next.
Times == <<1, 1, 2>>

\* Two depositors with the same sum.
TwoOwners == <<a1, a2>>
Amounts == <<1, 1>>
===============================================================================
