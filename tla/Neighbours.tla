------------------------------ MODULE Neighbours ------------------------------
(***************************************************************************)
(* MillionsController.depositorsByPoolIdAndAddress answers with a          *)
(* depositor and his neighbours in the ranking.  It reads the three rows   *)
(* one after another, while depositorsSync, which MillionsDepositors       *)
(* models, deletes the ranking and saves a new one.                        *)
(***************************************************************************)
EXTENDS MillionsDepositors

CONSTANT Nobody

NeighboursAssumption == MillionsDepositorsAssumption /\ Nobody \notin Addresses

VARIABLES
    step,           \* next step of the request
    own,            \* whom it is for, and his rank
    before, after,  \* the neighbours that it found
    steady          \* history: the ranking was and stayed that of the chain

request == <<step, own, before, after, steady>>

RequestTypeOK ==
    /\ step \in {"idle", "before", "after", "answered"}
    /\ own \in [address : Addresses \cup {Nobody}, rank : Nat]
    /\ before \in Addresses \cup {Nobody} /\ after \in Addresses \cup {Nobody}
    /\ steady \in BOOLEAN

NoOwn == [address |-> Nobody, rank |-> 0]

RequestInit ==
    /\ step = "idle" /\ own = NoOwn
    /\ before = Nobody /\ after = Nobody /\ steady = FALSE

\* The rows are those of the chain's deposits, and no pass has read others.
Current ==
    /\ table = [a \in Addresses |->
                  IF a \in Depositors(deposit) THEN RowOf(deposit, a) ELSE NoRow]
    /\ \A p \in Passes, d \in Deposits :
         pc[p] = "idle" \/ (pc[p] = "pages" /\ d >= page[p]) \/ read[p][d] = deposit[d]

\* A depositor who has no row has an empty answer.
FindOwn(a) ==
    /\ step = "idle" /\ table[a] # NoRow
    /\ step' = "before"
    /\ own' = [address |-> a, rank |-> table[a].rank]
    /\ steady' = Current
    /\ UNCHANGED <<before, after>>

\* getByPoolIdAndRank: any row of the rank, or null.
AtRank(k) ==
    LET at == {a \in Addresses : table[a] # NoRow /\ table[a].rank = k}
    IN IF at = {} THEN {Nobody} ELSE at

FindBefore ==
    /\ step = "before"
    /\ before' \in AtRank(own.rank - 1)
    /\ step' = "after"
    /\ UNCHANGED <<own, after, steady>>

FindAfter ==
    /\ step = "after"
    /\ after' \in AtRank(own.rank + 1)
    /\ step' = "answered"
    /\ UNCHANGED <<own, before, steady>>

Answer ==
    /\ step = "answered"
    /\ step' = "idle" /\ own' = NoOwn
    /\ before' = Nobody /\ after' = Nobody /\ steady' = FALSE

RequestNext ==
    \/ /\ (\E a \in Addresses : FindOwn(a)) \/ FindBefore \/ FindAfter \/ Answer
       /\ UNCHANGED vars
    \/ /\ Next
       /\ steady' = (steady /\ deposit' = deposit)
       /\ UNCHANGED <<step, own, before, after>>

RequestSpec == Init /\ RequestInit /\ [][RequestNext]_<<vars, request>>

-----------------------------------------------------------------------------
(* Properties.                                                              *)

\* While the deposits stay as they are, the answer names the right neighbours or
\* leaves one out, although the ranking is deleted and saved again between the
\* three reads: two passes give equal sums the same ranks
\* (millions.controller.ts:224-231, millions.scheduler.ts:314-336).
SteadyNeighbours ==
    step = "answered" /\ steady =>
        LET rank(a) == IF a = Nobody THEN 0 ELSE RowOf(deposit, a).rank
        IN /\ before = Nobody \/ rank(before) = rank(own.address) - 1
           /\ after = Nobody \/ rank(after) = rank(own.address) + 1
===============================================================================
