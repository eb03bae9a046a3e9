------------------------------ MODULE Campaigns ------------------------------
(***************************************************************************)
(* MillionsController.participateCampaign.  A request looks for its        *)
(* campaign, compares the password, looks for a membership of its wallet   *)
(* and saves one.  Requests run concurrently, in any number of processes,  *)
(* and the table has no constraint but its generated key.                  *)
(***************************************************************************)
EXTENDS Integers, FiniteSets

CONSTANTS Campaigns, Wallets,
          Requests,     \* requests that may run at once
          MaxMembers    \* bound on the rows of a campaign and wallet

CampaignsAssumption ==
    MaxMembers \in Nat \ {0} /\ Campaigns # {} /\ Wallets # {}

VARIABLES
    there,    \* the campaigns that were made
    members,  \* number of rows of each campaign and wallet
    pc, for,  \* next step of each request, its campaign and wallet
    raced     \* history: campaigns and wallets whose requests overlapped

vars == <<there, members, pc, for, raced>>

Entrants == Campaigns \X Wallets

TypeOK ==
    /\ there \subseteq Campaigns
    /\ members \in [Entrants -> 0..MaxMembers]
    /\ pc \in [Requests -> {"idle", "password", "member", "save"}]
    /\ for \in [Requests -> Entrants]
    /\ raced \subseteq Entrants

Init ==
    /\ there = {}
    /\ members = [e \in Entrants |-> 0]
    /\ pc = [r \in Requests |-> "idle"]
    /\ for \in [Requests -> {CHOOSE e \in Entrants : TRUE}]
    /\ raced = {}

Goto(r, to) == pc' = [pc EXCEPT ![r] = to]

Make(c) ==
    /\ c \notin there
    /\ there' = there \cup {c}
    /\ UNCHANGED <<members, pc, for, raced>>

\* A request for a campaign that there is not ends at once, with a 404.
Request(r, e) ==
    /\ pc[r] = "idle" /\ e[1] \in there
    /\ Goto(r, "password")
    /\ for' = [for EXCEPT ![r] = e]
    /\ raced' = IF \E q \in Requests \ {r} : pc[q] # "idle" /\ for[q] = e
                THEN raced \cup {e} ELSE raced
    /\ UNCHANGED <<there, members>>

\* The password is right, or the request ends with a 403.
Compare(r, right) ==
    /\ pc[r] = "password"
    /\ Goto(r, IF right THEN "member" ELSE "idle")
    /\ UNCHANGED <<there, members, for, raced>>

\* Mutant of Participates: any of the wallet's memberships has to be in all campaigns.
ParticipatesInAll(e) == \A c \in Campaigns : members[<<c, e[2]>>] # 0

\* getByCampaignIdAndWalletAddress finds a row.
Participates(e) == members[e] # 0

\* A membership ends the request with a 422.
FindMember(r) ==
    /\ pc[r] = "member"
    /\ Goto(r, IF Participates(for[r]) THEN "idle" ELSE "save")
    /\ UNCHANGED <<there, members, for, raced>>

Save(r) ==
    /\ pc[r] = "save" /\ members[for[r]] < MaxMembers
    /\ members' = [members EXCEPT ![for[r]] = @ + 1]
    /\ Goto(r, "idle")
    /\ UNCHANGED <<there, for, raced>>

\* The database rejects a call, or the process dies.
Fail(r) ==
    /\ pc[r] # "idle"
    /\ Goto(r, "idle")
    /\ UNCHANGED <<there, members, for, raced>>

Next ==
    \/ \E c \in Campaigns : Make(c)
    \/ \E r \in Requests :
          \/ \E e \in Entrants : Request(r, e)
          \/ \E right \in BOOLEAN : Compare(r, right)
          \/ FindMember(r) \/ Save(r) \/ Fail(r)

Spec == Init /\ [][Next]_vars

-----------------------------------------------------------------------------
(* Properties.                                                              *)

\* "You already participated in this campaign" (millions.controller.ts:284): a
\* wallet is twice in a campaign only if two of its requests for it overlapped.
\* Retries, failures and requests for other campaigns do not bring that about.
TwiceNeedsOverlap ==
    \A e \in Entrants : members[e] > 1 => e \in raced
==============================================================================
