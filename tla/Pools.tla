-------------------------------- MODULE Pools --------------------------------
(***************************************************************************)
(* MillionsScheduler.poolsSync lists the pools of the chain and, for each  *)
(* one, asks the pool's own chain for the prize that is outstanding, then  *)
(* writes all that the pool's row has.  The cron fires every ten minutes,  *)
(* whether or not the last pass has ended.                                 *)
(***************************************************************************)
EXTENDS Integers, FiniteSets

CONSTANTS MaxPool,
          MaxVersion,  \* bound on the changes of a pool
          Passes,      \* passes that may run at once
          MaxFailures  \* bound on the passes that fail

PoolsAssumption ==
    /\ MaxPool \in Nat \ {0} /\ MaxVersion \in Nat \ {0} /\ MaxFailures \in Nat

VARIABLES
    version,  \* of each pool on the chain; 0 before it is made
    row,      \* the version in its row, 0 without one, and whether the prize was read
    pc, at,   \* next step of each pass and the pool it is at
    list,     \* the pools as the pass listed them
    prize,    \* whether it could read the pool's prize
    shared,   \* history: passes that ran together with another one
    failures

vars == <<version, row, pc, at, list, prize, shared, failures>>

Pool == 1..MaxPool
Versions == [Pool -> 0..MaxVersion]
Row == [version : 0..MaxVersion, prize : BOOLEAN]

TypeOK ==
    /\ version \in Versions /\ row \in [Pool -> Row]
    /\ pc \in [Passes -> {"idle", "prize", "save"}]
    /\ at \in [Passes -> 0..MaxPool]
    /\ list \in [Passes -> Versions] /\ prize \in [Passes -> BOOLEAN]
    /\ shared \subseteq Passes /\ failures \in 0..MaxFailures

Init ==
    /\ version = [k \in Pool |-> 0]
    /\ row = [k \in Pool |-> [version |-> 0, prize |-> FALSE]]
    /\ pc = [p \in Passes |-> "idle"]
    /\ at = [p \in Passes |-> 0]
    /\ list = [p \in Passes |-> version]
    /\ prize = [p \in Passes |-> FALSE]
    /\ shared = {} /\ failures = 0

\* Pools are numbered as they are made.
Change(k) ==
    /\ version[k] < MaxVersion /\ \A j \in 1..(k - 1) : version[j] # 0
    /\ version' = [version EXCEPT ![k] = @ + 1]
    /\ UNCHANGED <<row, pc, at, list, prize, shared, failures>>

Running == {p \in Passes : pc[p] # "idle"}

\* Mutant of Listed: a list that the scheduler has is used again.
ListedOnce(p) == IF list[p][1] # 0 THEN list[p] ELSE version

\* The answer of the chain.
Listed(p) == version

Begin(p) ==
    /\ pc[p] = "idle" /\ version[1] # 0
    /\ pc' = [pc EXCEPT ![p] = "prize"]
    /\ at' = [at EXCEPT ![p] = 1]
    /\ list' = [list EXCEPT ![p] = Listed(p)]
    /\ shared' = IF Running = {} THEN shared \ {p} ELSE shared \cup Running \cup {p}
    /\ UNCHANGED <<version, row, prize, failures>>

\* The pool's chain answers, or it does not, is unknown or was never connected:
\* then the prize is 0.
ReadPrize(p, answers) ==
    /\ pc[p] = "prize"
    /\ pc' = [pc EXCEPT ![p] = "save"]
    /\ prize' = [prize EXCEPT ![p] = answers]
    /\ UNCHANGED <<version, row, at, list, shared, failures>>

\* createOrUpdate spreads the new columns over those it read, which leaves none of
\* these.  An insert that meets another pass's row rejects, as Fail does.
Save(p) ==
    /\ pc[p] = "save"
    /\ row' = [row EXCEPT ![at[p]] = [version |-> list[p][at[p]], prize |-> prize[p]]]
    /\ LET over == at[p] = MaxPool \/ list[p][at[p] + 1] = 0
       IN /\ pc' = [pc EXCEPT ![p] = IF over THEN "idle" ELSE "prize"]
          /\ at' = [at EXCEPT ![p] = IF over THEN 0 ELSE @ + 1]
    /\ UNCHANGED <<version, list, prize, shared, failures>>

\* The database rejects a call, or the process dies.
Fail(p) ==
    /\ pc[p] # "idle" /\ failures < MaxFailures
    /\ pc' = [pc EXCEPT ![p] = "idle"]
    /\ at' = [at EXCEPT ![p] = 0]
    /\ failures' = failures + 1
    /\ UNCHANGED <<version, row, list, prize, shared>>

Next ==
    \/ \E k \in Pool : Change(k)
    \/ \E p \in Passes :
          \/ Begin(p) \/ Save(p) \/ Fail(p)
          \/ \E answers \in BOOLEAN : ReadPrize(p, answers)

Spec == Init /\ [][Next]_vars

-----------------------------------------------------------------------------
(* Properties.                                                              *)

\* A pool's row goes back to what the chain said before only when two passes
\* overlapped; a pass that fails, or a pool's chain that does not answer, holds
\* up the row or its prize, but never brings back an old one.  A pass of which
\* another one was still running may write last what it listed first
\* (millions.scheduler.ts:39, 117).
GoesBackInOverlap ==
    \A k \in Pool : row'[k].version < row[k].version => \E p \in shared : Save(p)

BackOnlyInOverlap == [][GoesBackInOverlap]_vars
==============================================================================
