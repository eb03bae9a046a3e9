------------------------------ MODULE Validators ------------------------------
(***************************************************************************)
(* ValidatorScheduler.basicSync.  A pass takes the validators of the       *)
(* starting height, asks the chain for the bonded, the unbonded and the    *)
(* unbonding ones, page by page, and saves them all in one transaction.    *)
(* It is begun every ten seconds, whether or not the last one has ended.   *)
(***************************************************************************)
EXTENDS Integers, Sequences, FiniteSets, FiniteSetsExt

CONSTANTS MaxValidator,  \* the validators of the starting height, by address
          PageSize,
          Passes,        \* passes that may run at once
          MaxMoves,      \* bound on the changes of status
          MaxFailures    \* bound on the passes that fail

ValidatorsAssumption ==
    /\ MaxValidator \in Nat \ {0} /\ PageSize \in Nat \ {0}
    /\ MaxMoves \in Nat /\ MaxFailures \in Nat

VARIABLES
    status,     \* of each validator on the chain
    row,        \* the status in its row; "none" without one
    stage,      \* of each pass: idle, one of the statuses, or the save
    key,        \* first validator of its next page; 0 for the first page
    seen,       \* the statuses that it has read
    moved,      \* history: validators whose status changed since it began
    moves, failures

vars == <<status, row, stage, key, seen, moved, moves, failures>>

Validator == 1..MaxValidator

\* The order in which the statuses are asked for.
Statuses == <<"bonded", "unbonded", "unbonding">>
Idle == 0
Saving == Len(Statuses) + 1

Nothing == [v \in Validator |-> "none"]

TypeOK ==
    /\ status \in [Validator -> {"bonded", "unbonded", "unbonding", "gone"}]
    /\ row \in [Validator -> {"bonded", "unbonded", "unbonding", "none"}]
    /\ stage \in [Passes -> Idle..Saving]
    /\ key \in [Passes -> 0..MaxValidator]
    /\ seen \in [Passes -> [Validator -> {"bonded", "unbonded", "unbonding", "none"}]]
    /\ moved \in [Passes -> SUBSET Validator]
    /\ moves \in 0..MaxMoves /\ failures \in 0..MaxFailures

Init ==
    /\ status = [v \in Validator |-> "bonded"] /\ row = Nothing
    /\ stage = [p \in Passes |-> Idle]
    /\ key = [p \in Passes |-> 0]
    /\ seen = [p \in Passes |-> Nothing]
    /\ moved = [p \in Passes |-> {}]
    /\ moves = 0 /\ failures = 0

Follows == [bonded |-> {"unbonding"}, unbonding |-> {"bonded", "unbonded"},
            unbonded |-> {"bonded", "gone"}, gone |-> {}]

Move(v, s) ==
    /\ moves < MaxMoves /\ s \in Follows[status[v]]
    /\ status' = [status EXCEPT ![v] = s]
    /\ moved' = [p \in Passes |-> IF stage[p] = Idle THEN {} ELSE moved[p] \cup {v}]
    /\ moves' = moves + 1
    /\ UNCHANGED <<row, stage, key, seen, failures>>

Begin(p) ==
    /\ stage[p] = Idle
    /\ stage' = [stage EXCEPT ![p] = 1]
    /\ UNCHANGED <<status, row, key, seen, moved, moves, failures>>

\* What is left of the list for a status, from a key on.
Rest(s, k) == {v \in Validator : status[v] = s /\ v >= k}

OnPage(s, k) == {v \in Rest(s, k) : Cardinality({w \in Rest(s, k) : w < v}) < PageSize}

\* Mutant of PageKey: the key is not reset when the next status begins.
PageKeyKept(p, left) == IF left = {} THEN key[p] ELSE Min(left)

\* The key of the next page, when validators are left of this status.
PageKey(p, left) == IF left = {} THEN 0 ELSE Min(left)

\* A page of the status; a validator that is met again is overwritten.
ReadPage(p) ==
    /\ stage[p] \notin {Idle, Saving}
    /\ LET s == Statuses[stage[p]]
           page == OnPage(s, key[p])
           left == Rest(s, key[p]) \ page
       IN /\ seen' = [seen EXCEPT ![p] = [v \in Validator |-> IF v \in page THEN s ELSE @[v]]]
          /\ key' = [key EXCEPT ![p] = PageKey(p, left)]
          /\ stage' = [stage EXCEPT ![p] = IF left = {} THEN @ + 1 ELSE @]
    /\ UNCHANGED <<status, row, moved, moves, failures>>

End(p) ==
    /\ stage' = [stage EXCEPT ![p] = Idle]
    /\ key' = [key EXCEPT ![p] = 0]
    /\ seen' = [seen EXCEPT ![p] = Nothing]
    /\ moved' = [moved EXCEPT ![p] = {}]

\* A validator that was not seen has only its keys: an update leaves the other
\* columns alone, an insert violates their NOT NULL and nothing is saved.
Save(p) ==
    /\ stage[p] = Saving
    /\ row' = IF \E v \in Validator : row[v] = "none" /\ seen[p][v] = "none"
              THEN row
              ELSE [v \in Validator |-> IF seen[p][v] = "none" THEN row[v] ELSE seen[p][v]]
    /\ End(p)
    /\ UNCHANGED <<status, moves, failures>>

\* The node or the database rejects a call, or the process dies.
Fail(p) ==
    /\ stage[p] # Idle /\ failures < MaxFailures
    /\ End(p)
    /\ failures' = failures + 1
    /\ UNCHANGED <<status, row, moves>>

Next ==
    \/ \E v \in Validator, s \in {"bonded", "unbonded", "unbonding", "gone"} : Move(v, s)
    \/ \E p \in Passes : Begin(p) \/ ReadPage(p) \/ Save(p) \/ Fail(p)

Spec == Init /\ [][Next]_vars

-----------------------------------------------------------------------------
(* Properties.                                                              *)

\* A pass that saves leaves the right status of every validator that did not
\* move while it ran: it is on one page of one of the lists, however the others
\* move from list to list and from page to page (validator.scheduler.ts:91-160).
SavesUnmoved ==
    \A p \in Passes :
         stage[p] = Saving /\ stage'[p] = Idle /\ failures' = failures
         /\ (\A v \in Validator : row'[v] # "none")
         => \A v \in Validator \ moved[p] : status[v] # "gone" => row'[v] = status[v]

UnmovedIsCurrent == [][SavesUnmoved]_vars
===============================================================================
