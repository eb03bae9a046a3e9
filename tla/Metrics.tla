------------------------------- MODULE Metrics -------------------------------
(***************************************************************************)
(* MetricScheduler.updateMillionsBasic counts the deposits by state, page  *)
(* by page, then the withdrawals, and sets one gauge for each state.  The  *)
(* cron fires every thirty seconds, whether or not the last pass has       *)
(* ended.  The channels of updateIbc are counted in the same way.          *)
(***************************************************************************)
EXTENDS Integers, FiniteSets

CONSTANTS MaxDeposit,
          DepositStates, WithdrawalStates,
          Passes,       \* passes that may run at once
          MaxChanges,   \* bound on the changes of the chain
          MaxFailures,  \* bound on the passes that fail
          None          \* the state of what is not on the chain

States == DepositStates \cup WithdrawalStates

MetricsAssumption ==
    /\ MaxDeposit \in Nat \ {0} /\ MaxChanges \in Nat /\ MaxFailures \in Nat
    /\ None \notin States /\ DepositStates \cap WithdrawalStates = {}

Deposits == 1..MaxDeposit
Items == {"deposit", "withdrawal"} \X Deposits

VARIABLES
    chain,     \* the state of each deposit, and of its withdrawal
    gauge,     \* what each gauge shows; 0 before it is set
    page,      \* next page of each pass; 0 when it is idle
    counted,   \* the states that it has counted
    kept,      \* history: deposits that did not leave the chain since it began
    disturbed, \* history: the chain changed, or another pass ran, since it began
    bounds     \* how often the chain changed and passes failed

vars == <<chain, gauge, page, counted, kept, disturbed, bounds>>

Nothing == [i \in Items |-> None]
LastPage == 2 * MaxDeposit
Broadcast == LastPage + 1

TypeOK ==
    /\ chain \in [Items -> States \cup {None}]
    /\ gauge \in [States -> 0..MaxDeposit]
    /\ page \in [Passes -> 0..Broadcast]
    /\ counted \in [Passes -> [Items -> States \cup {None}]]
    /\ kept \in [Passes -> SUBSET Deposits]
    /\ disturbed \subseteq Passes
    /\ bounds \in [changes : 0..MaxChanges, failures : 0..MaxFailures]

Init ==
    /\ chain = Nothing /\ gauge = [s \in States |-> 0]
    /\ page = [p \in Passes |-> 0]
    /\ counted = [p \in Passes |-> Nothing]
    /\ kept = [p \in Passes |-> {}]
    /\ disturbed = {}
    /\ bounds = [changes |-> 0, failures |-> 0]

Running == {p \in Passes : page[p] # 0}

\* The deposits that are still whole, or being withdrawn.
Held(c) == {d \in Deposits : \E i \in Items : i[2] = d /\ c[i] # None}

\* The chain goes from one state to c.
Change(c) ==
    /\ c # chain /\ bounds.changes < MaxChanges
    /\ chain' = c
    /\ kept' = [p \in Passes |-> kept[p] \cap Held(c)]
    /\ disturbed' = disturbed \cup Running
    /\ bounds' = [bounds EXCEPT !.changes = @ + 1]
    /\ UNCHANGED <<gauge, page, counted>>

\* A deposit that is not being withdrawn is made or changes its state; one that
\* has left the chain makes room for a new one.
Deposit(d, s) ==
    /\ chain[<<"withdrawal", d>>] = None
    /\ Change([chain EXCEPT ![<<"deposit", d>>] = s])

\* One transaction removes the deposit and makes its withdrawal.
Withdraw(d, s) ==
    /\ chain[<<"deposit", d>>] # None
    /\ Change([chain EXCEPT ![<<"deposit", d>>] = None, ![<<"withdrawal", d>>] = s])

\* The withdrawal changes its state, or is over.
Unbond(d, s) ==
    /\ chain[<<"withdrawal", d>>] # None
    /\ Change([chain EXCEPT ![<<"withdrawal", d>>] = s])

\* Mutant of Fresh: the counts go on from those of the last pass.
FreshKept(p) == UNCHANGED counted

\* The counts of a pass begin at zero.
Fresh(p) == counted' = [counted EXCEPT ![p] = Nothing]

Begin(p) ==
    /\ page[p] = 0
    /\ page' = [page EXCEPT ![p] = 1]
    /\ Fresh(p)
    /\ kept' = [kept EXCEPT ![p] = Held(chain)]
    /\ disturbed' = IF Running = {} THEN disturbed \ {p} ELSE disturbed \cup Running \cup {p}
    /\ UNCHANGED <<chain, gauge, bounds>>

\* Mutant of ItemOf: the withdrawals are read first.
ItemOfReversed(k) ==
    IF k <= MaxDeposit THEN <<"withdrawal", k>> ELSE <<"deposit", k - MaxDeposit>>

\* A page has one item, so that the chain may change between any two.
ItemOf(k) ==
    IF k <= MaxDeposit THEN <<"deposit", k>> ELSE <<"withdrawal", k - MaxDeposit>>

ReadPage(p) ==
    /\ page[p] \in 1..LastPage
    /\ page' = [page EXCEPT ![p] = @ + 1]
    /\ LET i == ItemOf(page[p])
       IN counted' = IF chain[i] = None THEN counted ELSE [counted EXCEPT ![p][i] = chain[i]]
    /\ UNCHANGED <<chain, gauge, kept, disturbed, bounds>>

CountIn(c, s) == Cardinality({i \in Items : c[i] = s})

\* The pass is over.
End(p) ==
    /\ page' = [page EXCEPT ![p] = 0]
    /\ kept' = [kept EXCEPT ![p] = {}]

\* updateMetric leaves out a value that is falsy: no gauge is set to 0.
SetGauges(p) ==
    /\ page[p] = Broadcast
    /\ gauge' = [s \in States |->
                   IF CountIn(counted[p], s) = 0 THEN gauge[s] ELSE CountIn(counted[p], s)]
    /\ End(p)
    /\ UNCHANGED <<chain, counted, disturbed, bounds>>

\* The node rejects a call.
Fail(p) ==
    /\ page[p] \in 1..LastPage /\ bounds.failures < MaxFailures
    /\ End(p)
    /\ bounds' = [bounds EXCEPT !.failures = @ + 1]
    /\ UNCHANGED <<chain, gauge, counted, disturbed>>

Next ==
    \/ \E d \in Deposits :
          \/ \E s \in DepositStates : Deposit(d, s)
          \/ \E s \in WithdrawalStates : Withdraw(d, s)
          \/ \E s \in WithdrawalStates \cup {None} : Unbond(d, s)
    \/ \E p \in Passes : Begin(p) \/ ReadPage(p) \/ SetGauges(p) \/ Fail(p)

Spec == Init /\ [][Next]_vars

-----------------------------------------------------------------------------
(* Properties.                                                              *)

\* A pass that nothing disturbed leaves the right count on every gauge but those
\* whose state nothing is in any more: they keep an old one
\* (metric.scheduler.ts:49, 148-226).
SetsCounts ==
    \A p \in Passes : SetGauges(p) /\ p \notin disturbed =>
         \A s \in States : CountIn(chain, s) # 0 => gauge'[s] = CountIn(chain, s)

UndisturbedGauges == [][SetsCounts]_vars

\* Whatever happens meanwhile, a pass counts every deposit that was there when it
\* began and has not left the chain: one that is withdrawn before it is read is met
\* among the withdrawals, which are read after the deposits
\* (metric.scheduler.ts:156-210).
KeptAreCounted ==
    \A p \in Passes : page[p] = Broadcast =>
        \A d \in kept[p] : \E i \in Items : i[2] = d /\ counted[p][i] # None
==============================================================================
