------------------------------- MODULE Ballots -------------------------------
(***************************************************************************)
(* GovernanceScheduler.voteSync and depositSync copy the votes, or the     *)
(* deposits, of the open proposals into their table.  The two crons and    *)
(* their services are the same code on different columns; OpenFor says     *)
(* while which statuses the chain accepts what is copied.                  *)
(***************************************************************************)
EXTENDS Integers, FiniteSets, FiniteSetsExt

CONSTANTS MaxProposals, MaxVoters,
          MaxCast,      \* bound on the votes of one voter on one proposal
          OpenFor,
          Passes,       \* passes that may run at once
          MaxFailures   \* bound on the passes that fail

BallotsAssumption ==
    /\ MaxProposals \in Nat \ {0} /\ MaxVoters \in Nat \ {0}
    /\ MaxCast \in Nat /\ MaxFailures \in Nat
    /\ OpenFor \subseteq {"deposit", "voting"}

Proposals == 1..MaxProposals
Voters == 1..MaxVoters

VARIABLES
    status,   \* the chain's proposals
    cast,     \* how many times each voter voted; the last one counts
    row,      \* the vote in the row of a proposal and voter; 0 without a row
    pc, todo, \* next step of each pass and its proposals that are left
    read,     \* the votes of the answer that are left; 0 for none
    found,    \* a row of the proposal that was looked up; 0 for none
    failures

vars == <<status, cast, row, pc, todo, read, found, failures>>

Ballot == [Voters -> 0..MaxCast]
NoBallots == [v \in Voters |-> 0]

TypeOK ==
    /\ status \in [Proposals -> {"deposit", "voting", "closed"}]
    /\ cast \in [Proposals -> Ballot] /\ row \in [Proposals -> Ballot]
    /\ pc \in [Passes -> {"idle", "read", "find", "save"}]
    /\ todo \in [Passes -> SUBSET Proposals]
    /\ read \in [Passes -> Ballot] /\ found \in [Passes -> 0..MaxVoters]
    /\ failures \in 0..MaxFailures

Init ==
    /\ status = [k \in Proposals |-> "deposit"]
    /\ cast = [k \in Proposals |-> NoBallots] /\ row = cast
    /\ pc = [p \in Passes |-> "idle"]
    /\ todo = [p \in Passes |-> {}]
    /\ read = [p \in Passes |-> NoBallots]
    /\ found = [p \in Passes |-> 0]
    /\ failures = 0

Advance(k) ==
    /\ status[k] # "closed"
    /\ status' = [status EXCEPT ![k] = IF @ = "deposit" THEN "voting" ELSE "closed"]
    /\ UNCHANGED <<cast, row, pc, todo, read, found, failures>>

Cast(k, v) ==
    /\ status[k] \in OpenFor /\ cast[k][v] < MaxCast
    /\ cast' = [cast EXCEPT ![k][v] = @ + 1]
    /\ UNCHANGED <<status, row, pc, todo, read, found, failures>>

\* getOpenVotingProposals: those whose vote ends later than now.  Before the vote
\* the end is undefined, which dayjs takes for a now of its own: it is later
\* or not, as the clock ticks in between.
Begin(p) ==
    LET voting == {k \in Proposals : status[k] = "voting"}
        early == {k \in Proposals : status[k] = "deposit"}
    IN \E some \in SUBSET early :
        /\ pc[p] = "idle" /\ voting \cup some # {}
        /\ todo' = [todo EXCEPT ![p] = voting \cup some]
        /\ pc' = [pc EXCEPT ![p] = "read"]
        /\ UNCHANGED <<status, cast, row, read, found, failures>>

At(p) == Min(todo[p])

\* The pass goes on with the votes b of its proposal, or else with the next one.
GoOn(p, b) ==
    LET rest == todo[p] \ {At(p)}
        done == b = NoBallots
    IN /\ read' = [read EXCEPT ![p] = b]
       /\ todo' = [todo EXCEPT ![p] = IF done THEN rest ELSE @]
       /\ pc' = [pc EXCEPT ![p] = IF ~done THEN "find" ELSE IF rest # {} THEN "read" ELSE "idle"]
       /\ found' = [found EXCEPT ![p] = 0]

\* The chain forgets the votes of a proposal when it is closed.
ReadBallots(p) ==
    /\ pc[p] = "read"
    /\ GoOn(p, IF status[At(p)] = "closed" THEN NoBallots ELSE cast[At(p)])
    /\ UNCHANGED <<status, cast, row, failures>>

\* getByProposalId: any row of the proposal, not the voter's.
Find(p) ==
    /\ pc[p] = "find"
    /\ LET rows == {v \in Voters : row[At(p)][v] # 0}
       IN \E v \in IF rows = {} THEN {0} ELSE rows : found' = [found EXCEPT ![p] = v]
    /\ pc' = [pc EXCEPT ![p] = "save"]
    /\ UNCHANGED <<status, cast, row, todo, read, failures>>

Voter(p) == Min({v \in Voters : read[p][v] # 0})

\* Mutant of Key: the row that was found keeps its key.
KeyFound(p) == IF found[p] = 0 THEN Voter(p) ELSE found[p]

\* The key of the row that is saved: the entity that was found gets the voter's.
Key(p) == Voter(p)


\* An insert that meets another pass's row rejects, as Fail does.
Save(p) ==
    /\ pc[p] = "save"
    /\ row' = [row EXCEPT ![At(p)][Key(p)] = read[p][Voter(p)]]
    /\ GoOn(p, [read[p] EXCEPT ![Voter(p)] = 0])
    /\ UNCHANGED <<status, cast, failures>>

\* The node or the database rejects a call, or the process dies.
Fail(p) ==
    /\ pc[p] # "idle" /\ failures < MaxFailures
    /\ pc' = [pc EXCEPT ![p] = "idle"]
    /\ todo' = [todo EXCEPT ![p] = {}]
    /\ read' = [read EXCEPT ![p] = NoBallots]
    /\ found' = [found EXCEPT ![p] = 0]
    /\ failures' = failures + 1
    /\ UNCHANGED <<status, cast, row>>

Step(p) == Begin(p) \/ ReadBallots(p) \/ Find(p) \/ Save(p)

Next ==
    \/ \E k \in Proposals : Advance(k) \/ \E v \in Voters : Cast(k, v)
    \/ \E p \in Passes : Step(p) \/ Fail(p)

Spec == Init /\ [][Next]_vars

-----------------------------------------------------------------------------
(* Properties.                                                              *)

\* Each row has a vote that its voter cast on its proposal: although the row
\* that createOrUpdateVoters reads and overwrites is an arbitrary one of the
\* proposal (proposal-vote.service.ts:30, 64), no voter gets another's vote.
RowsAreCast ==
    \A k \in Proposals, v \in Voters : row[k][v] <= cast[k][v]

=============================================================================
