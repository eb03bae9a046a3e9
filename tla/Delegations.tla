----------------------------- MODULE Delegations -----------------------------
(***************************************************************************)
(* ValidatorScheduler.delegationSync.  For each validator in the table a   *)
(* pass reads the delegations page by page and saves each one before it    *)
(* asks for the next page.  A row is never deleted: when a delegation ends *)
(* its last shares stay.  The cron fires every five minutes, whether or    *)
(* not the last pass has ended.                                            *)
(***************************************************************************)
EXTENDS Integers, FiniteSets, FiniteSetsExt

CONSTANTS MaxValidator, MaxDelegator,
          MaxShares,    \* bound on the shares of a delegation
          PageSize,
          Passes,       \* passes that may run at once
          MaxChanges,   \* bound on the changes of delegations
          MaxFailures   \* bound on the passes that fail

DelegationsAssumption ==
    /\ MaxValidator \in Nat \ {0} /\ MaxDelegator \in Nat \ {0} /\ MaxShares \in Nat \ {0}
    /\ PageSize \in Nat \ {0} /\ MaxChanges \in Nat /\ MaxFailures \in Nat

Validator == 1..MaxValidator
Delegator == 1..MaxDelegator

VARIABLES
    shares,     \* on the chain, by validator and delegator; 0 without a delegation
    row,        \* in the table; 0 without a row
    at,         \* validator of each pass; 0 when it is idle
    key,        \* delegator that its next page begins with; 0 when it is the last page
    page,       \* delegations of its page that it has still to save
    pc,
    touched,    \* history: delegations that changed since the pass began
    shared,     \* history: passes that ran together with another one
    bounds      \* how often delegations changed and passes failed

vars == <<shares, row, at, key, page, pc, touched, shared, bounds>>

Page == [Delegator -> 0..MaxShares]
Empty == [d \in Delegator |-> 0]

TypeOK ==
    /\ shares \in [Validator -> Page] /\ row \in [Validator -> Page]
    /\ at \in [Passes -> 0..MaxValidator] /\ key \in [Passes -> 0..MaxDelegator]
    /\ page \in [Passes -> Page]
    /\ pc \in [Passes -> {"idle", "list", "save"}]
    /\ touched \in [Passes -> SUBSET (Validator \X Delegator)]
    /\ shared \subseteq Passes
    /\ bounds \in [changes : 0..MaxChanges, failures : 0..MaxFailures]

Init ==
    /\ shares = [v \in Validator |-> Empty] /\ row = shares
    /\ at = [p \in Passes |-> 0] /\ key = at
    /\ page = [p \in Passes |-> Empty]
    /\ pc = [p \in Passes |-> "idle"]
    /\ touched = [p \in Passes |-> {}]
    /\ shared = {}
    /\ bounds = [changes |-> 0, failures |-> 0]

Running == {p \in Passes : pc[p] # "idle"}

\* Somebody delegates, delegates more, or undelegates.
Delegate(v, d, n) ==
    /\ shares[v][d] # n /\ bounds.changes < MaxChanges
    /\ shares' = [shares EXCEPT ![v][d] = n]
    /\ touched' = [p \in Passes |-> IF p \in Running THEN touched[p] \cup {<<v, d>>} ELSE {}]
    /\ bounds' = [bounds EXCEPT !.changes = @ + 1]
    /\ UNCHANGED <<row, at, key, page, pc, shared>>

Begin(p) ==
    /\ pc[p] = "idle"
    /\ pc' = [pc EXCEPT ![p] = "list"]
    /\ at' = [at EXCEPT ![p] = 1]
    /\ key' = [key EXCEPT ![p] = 1]
    /\ shared' = IF Running = {} THEN shared ELSE shared \cup Running \cup {p}
    /\ UNCHANGED <<shares, row, page, touched, bounds>>

\* The pass is over; its variables are gone.
End(p) ==
    /\ pc' = [pc EXCEPT ![p] = "idle"]
    /\ at' = [at EXCEPT ![p] = 0]
    /\ key' = [key EXCEPT ![p] = 0]
    /\ page' = [page EXCEPT ![p] = Empty]
    /\ touched' = [touched EXCEPT ![p] = {}]
    /\ shared' = shared \ {p}

\* The page b has been read, k begins the next one: save it, or ask for the next
\* page, or go on with the next validator.
GoOn(p, b, k) ==
    IF b = Empty /\ k = 0 /\ at[p] = MaxValidator
    THEN End(p)
    ELSE /\ pc' = [pc EXCEPT ![p] = IF b = Empty THEN "list" ELSE "save"]
         /\ page' = [page EXCEPT ![p] = b]
         /\ IF b = Empty /\ k = 0
            THEN at' = [at EXCEPT ![p] = @ + 1] /\ key' = [key EXCEPT ![p] = 1]
            ELSE at' = at /\ key' = [key EXCEPT ![p] = k]
         /\ UNCHANGED <<touched, shared>>

Rest(v, k) == {d \in Delegator : d >= k /\ shares[v][d] # 0}

OnPage(v, k) == {d \in Rest(v, k) : Cardinality({e \in Rest(v, k) : e < d}) < PageSize}

\* Mutant of NextKey: the page that was read begins the next one but one.
NextKeyAfter(left) == IF Cardinality(left) < 2 THEN 0 ELSE Min(left \ {Min(left)})

\* The key of the first delegation that is left.
NextKey(left) == IF left = {} THEN 0 ELSE Min(left)

List(p) ==
    /\ pc[p] = "list"
    /\ LET read == OnPage(at[p], key[p])
       IN GoOn(p, [d \in Delegator |-> IF d \in read THEN shares[at[p]][d] ELSE 0],
                  NextKey(Rest(at[p], key[p]) \ read))
    /\ UNCHANGED <<shares, row, bounds>>

\* createOrUpdate writes the shares of the page, whatever row it found.  An insert
\* that meets another pass's row rejects, as Fail does.
Save(p) ==
    /\ pc[p] = "save"
    /\ LET d == Min({e \in Delegator : page[p][e] # 0})
       IN /\ row' = [row EXCEPT ![at[p]][d] = page[p][d]]
          /\ GoOn(p, [page[p] EXCEPT ![d] = 0], key[p])
    /\ UNCHANGED <<shares, bounds>>

\* The node or the database rejects a call, or the process dies.
Fail(p) ==
    /\ pc[p] # "idle" /\ bounds.failures < MaxFailures
    /\ End(p)
    /\ bounds' = [bounds EXCEPT !.failures = @ + 1]
    /\ UNCHANGED <<shares, row>>

Next ==
    \/ \E v \in Validator, d \in Delegator, n \in 0..MaxShares : Delegate(v, d, n)
    \/ \E p \in Passes : Begin(p) \/ List(p) \/ Save(p) \/ Fail(p)

Spec == Init /\ [][Next]_vars

-----------------------------------------------------------------------------
(* Properties.                                                              *)

\* When a pass that ran alone ends, the table has the shares of everybody whose
\* delegation did not change meanwhile: those who come, go or change shares move
\* the pages, but hide nobody (validator.scheduler.ts:38-57).  Of delegations that
\* ended nothing is promised.
EndsCurrent ==
    \A p \in Passes :
         pc[p] # "idle" /\ pc'[p] = "idle" /\ p \notin shared
         /\ bounds'.failures = bounds.failures
         => \A v \in Validator, d \in Delegator :
              <<v, d>> \notin touched[p] /\ shares[v][d] # 0 => row'[v][d] = shares[v][d]

LonePassIsCurrent == [][EndsCurrent]_vars
==============================================================================
