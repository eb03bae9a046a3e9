------------------------------ MODULE Governance ------------------------------
(***************************************************************************)
(* GovernanceScheduler.proposalSync copies the chain's proposals into the  *)
(* table proposals, one after another, every minute, whether or not the    *)
(* last pass has ended.  The content of a proposal is in its messages, or  *)
(* behind an IPFS gateway that may reject it: what a rejection throws ends *)
(* the pass.                                                               *)
(***************************************************************************)
EXTENDS Integers, FiniteSets, FiniteSetsExt

CONSTANTS MaxProposals,  \* bound on the chain's proposals
          PageSize,      \* proposals in the one page that getProposals reads
          Remote,        \* those whose content is at the gateway
          Passes,        \* passes that may run at once
          Failing        \* those that may fail for other reasons

Proposals == 1..MaxProposals

GovernanceAssumption ==
    /\ MaxProposals \in Nat \ {0} /\ PageSize \in Nat \ {0} /\ Failing \subseteq Passes
    /\ Remote \subseteq Proposals

VARIABLES
    status,  \* the chain's proposals
    row,     \* the status of each row; "none" without one
    pc, at,  \* next step of each pass and the proposal it is at
    list     \* the proposals as the pass read them

vars == <<status, row, pc, at, list>>

Statuses == {"none", "deposit", "voting", "closed", "deleted"}

TypeOK ==
    /\ status \in [Proposals -> Statuses]
    /\ row \in [Proposals -> Statuses \ {"deleted"}]
    /\ pc \in [Passes -> {"idle", "content", "save"}]
    /\ at \in [Passes -> 0..MaxProposals]
    /\ list \in [Passes -> [Proposals -> Statuses]]

Init ==
    /\ status = [k \in Proposals |-> "none"] /\ row = status
    /\ pc = [p \in Passes |-> "idle"]
    /\ at = [p \in Passes |-> 0]
    /\ list = [p \in Passes |-> status]

Follows == [none |-> {"deposit"}, deposit |-> {"voting", "deleted"},
            voting |-> {"closed"}, closed |-> {}, deleted |-> {}]

\* Proposals are numbered as they are made.  One that does not raise its deposit
\* is deleted; the others are kept.
Advance(k, s) ==
    /\ s \in Follows[status[k]]
    /\ \A j \in 1..(k - 1) : status[j] # "none"
    /\ status' = [status EXCEPT ![k] = s]
    /\ UNCHANGED <<row, pc, at, list>>

Kept(s) == {k \in Proposals : s[k] \in {"deposit", "voting", "closed"}}

\* The answer of the chain: in the order of their ids, the first page only.
Listed(s) == {k \in Kept(s) : Cardinality({j \in Kept(s) : j < k}) < PageSize}

\* The pass goes on with the first proposal of l after k, or ends.
GoOn(p, l, k) ==
    LET rest == {j \in Listed(l) : j > k}
        over == rest = {}
    IN /\ pc' = [pc EXCEPT ![p] = IF over THEN "idle" ELSE "content"]
       /\ at' = [at EXCEPT ![p] = IF over THEN 0 ELSE Min(rest)]
       /\ list' = [list EXCEPT ![p] = IF over THEN [j \in Proposals |-> "none"] ELSE l]

End(p) == GoOn(p, list[p], MaxProposals)

Begin(p) ==
    /\ pc[p] = "idle" /\ Listed(status) # {}
    /\ GoOn(p, status, 0)
    /\ UNCHANGED <<status, row>>

\* The content is decoded from the messages or delivered by the gateway.
Content(p) ==
    /\ pc[p] = "content"
    /\ pc' = [pc EXCEPT ![p] = "save"]
    /\ UNCHANGED <<status, row, at, list>>

\* Mutant of GatewayRejects: the pass leaves out the proposal and goes on.
GatewaySkips(p) ==
    /\ pc[p] = "content" /\ at[p] \in Remote
    /\ GoOn(p, list[p], at[p])
    /\ UNCHANGED <<status, row>>

\* getIPFSContent returns the promise without awaiting it, so that its catch is
\* never reached; the caller would throw on null as well.
GatewayRejects(p) ==
    /\ pc[p] = "content" /\ at[p] \in Remote
    /\ End(p)
    /\ UNCHANGED <<status, row>>

\* Mutant of Saved: the row that was read wins over what the chain says.
SavedOlder(p, k) == IF row[k] = "none" THEN list[p][k] ELSE row[k]

Saved(p, k) == list[p][k]

\* createOrUpdateProposal overwrites every column, whatever it read before.  An
\* insert that meets another pass's row rejects, as Fail does.
Save(p) ==
    /\ pc[p] = "save"
    /\ row' = [row EXCEPT ![at[p]] = Saved(p, at[p])]
    /\ GoOn(p, list[p], at[p])
    /\ UNCHANGED <<status>>

\* The database rejects a call, or the process dies.
Fail(p) ==
    /\ pc[p] # "idle"
    /\ End(p)
    /\ UNCHANGED <<status, row>>

Step(p) == Begin(p) \/ Content(p) \/ Save(p)

Next ==
    \/ \E k \in Proposals, s \in Statuses : Advance(k, s)
    \/ \E p \in Passes : Step(p) \/ GatewayRejects(p)
    \/ \E p \in Failing : Fail(p)

Spec == Init /\ [][Next]_vars

-----------------------------------------------------------------------------
(* Properties.                                                              *)

\* The table has no gaps: passes that stop at a proposal leave out all those
\* that follow it, and only a proposal that the chain deleted before it was read
\* lacks its row before one that has it (governance.scheduler.ts:31-99).
NoGapBeforeStored ==
    \A k \in Proposals : row[k] # "none" =>
        \A j \in 1..(k - 1) : row[j] # "none" \/ status[j] = "deleted"

\* A proposal on the page comes to be stored with the outcome of its vote: passes
\* overlap, the gateway may reject over and over, and some passes fail for good,
\* as long as others go on and the gateway delivers in the end.
ClosedIsStored ==
    \A k \in {j \in Proposals : j <= PageSize} : status[k] = "closed" ~> row[k] = "closed"
=============================================================================
