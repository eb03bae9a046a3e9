---------------------------- MODULE ServicesProofs ----------------------------
(***************************************************************************)
(* The properties of Services for every number of passes, requests and     *)
(* rows, every size of a page, and however the parts interleave: a step of *)
(* the composition is a step of each part or leaves it alone (Moves), so   *)
(* an inductive invariant of a part is one of the composition.  Each part  *)
(* has one, named after it.  Metrics and the ranking of the depositors     *)
(* have theirs in modules of their own, which are instantiated here.       *)
(***************************************************************************)
EXTENDS Services, MillionsDepositsProofs, FiniteSetTheorems, WellFoundedInduction, TLAPS

\* A step of the composition is a step of each part, or leaves it alone.
LEMMA Moves ==
    ASSUME [ServicesNext]_all
    PROVE  /\ [Next]_vars
           /\ [Boot!Next]_boot /\ [Bal!Next]_bal /\ [Val!Next]_val
           /\ [Del!Next]_del /\ [Mkt!Next]_mkt /\ [Met!Next]_met
           /\ [Cam!Next]_cam /\ [Poo!Next]_poo /\ [Pag!Next]_pag
           /\ [Nei!RequestNext]_nei
BY DEF ServicesNext, all

\* The least of some numbers.
LEMMA MinIsLeast ==
    ASSUME NEW T \in SUBSET Nat, T # {}
    PROVE  Bal!Min(T) \in T /\ \A x \in T : Bal!Min(T) <= x
<1>. DEFINE R == {ss \in Nat \X Nat : ss[1] < ss[2]}
<1>1. \A x, y \in Nat : <<x, y>> \in R <=> x < y
  OBVIOUS
<1>2. IsWellFoundedOn(R, Nat)
  BY NatLessThanWellFounded DEF OpToRel
<1>. HIDE DEF R
<1>3. PICK m \in T : \A y \in T : ~(<<y, m>> \in R)
  BY <1>2, WFMin
<1>4. ASSUME NEW y \in T PROVE m <= y
  <2>1. m \in Nat /\ y \in Nat
    OBVIOUS
  <2>2. ~(<<y, m>> \in R)
    BY <1>3, Zenon
  <2>3. ~(y < m)
    BY <1>1, <2>1, <2>2
  <2>. QED
    BY <2>1, <2>3
<1>. QED
  BY <1>4 DEF Bal!Min

-----------------------------------------------------------------------------
(* Ballots: what a pass has read was cast.                                  *)

\* The votes a pass has still to save are of its proposal, and were cast on it.
BallotsHeld(p) ==
    IF bal_pc[p] \in {"find", "save"}
    THEN /\ bal_todo[p] # {} /\ bal_read[p] # Bal!NoBallots
         /\ \A v \in Bal!Voters : bal_read[p][v] <= bal_cast[Bal!At(p)][v]
    ELSE /\ bal_read[p] = Bal!NoBallots
         /\ bal_pc[p] = "read" => bal_todo[p] # {}

BallotsInv == Bal!TypeOK /\ (\A p \in Passes : BallotsHeld(p)) /\ RowsAreCast

\* Every pass that has proposals left is at one of them.
LEMMA AtIsProposal ==
    ASSUME Bal!TypeOK, NEW p \in Passes, bal_todo[p] # {}
    PROVE  Bal!At(p) \in bal_todo[p] /\ Bal!At(p) \in Bal!Proposals
<1>1. bal_todo[p] \in SUBSET Bal!Proposals
  BY DEF Bal!TypeOK
<1>2. bal_todo[p] \in SUBSET Nat
  BY <1>1 DEF Bal!Proposals
<1>3. Bal!Min(bal_todo[p]) \in bal_todo[p]
  BY <1>2, MinIsLeast
<1>. QED
  BY <1>1, <1>3 DEF Bal!At

\* Every pass that has votes left is at one of them.
LEMMA VoterIsVoter ==
    ASSUME Bal!TypeOK, NEW p \in Passes, bal_read[p] # Bal!NoBallots
    PROVE  Bal!Voter(p) \in Bal!Voters /\ bal_read[p][Bal!Voter(p)] # 0
<1>. DEFINE T == {v \in Bal!Voters : bal_read[p][v] # 0}
<1>1. T \in SUBSET Nat
  BY DEF Bal!Voters
<1>2. T # {}
  BY DEF Bal!TypeOK, Bal!Ballot, Bal!NoBallots
<1>3. Bal!Min(T) \in T
  BY <1>1, <1>2, MinIsLeast
<1>. QED
  BY <1>3 DEF Bal!Voter

\* GoOn leaves the pass with the votes that it is given, of the same proposal.
LEMMA GoOnHolds ==
    ASSUME Bal!TypeOK, NEW p \in Passes, bal_todo[p] # {}, NEW b \in Bal!Ballot, Bal!GoOn(p, b),
           \A v \in Bal!Voters : b[v] <= bal_cast[Bal!At(p)][v], bal_cast' = bal_cast
    PROVE  /\ bal_pc' \in [Passes -> {"idle", "read", "find", "save"}]
           /\ bal_todo' \in [Passes -> SUBSET Bal!Proposals]
           /\ bal_read' \in [Passes -> Bal!Ballot] /\ bal_found' \in [Passes -> 0..MaxVoters]
           /\ BallotsHeld(p)'
           /\ \A q \in Passes \ {p} : /\ bal_pc'[q] = bal_pc[q] /\ bal_todo'[q] = bal_todo[q]
                                      /\ bal_read'[q] = bal_read[q]
<1>. DEFINE rest == bal_todo[p] \ {Bal!At(p)}
            todo == IF b = Bal!NoBallots THEN rest ELSE bal_todo[p]
            to == IF b # Bal!NoBallots THEN "find" ELSE IF rest # {} THEN "read" ELSE "idle"
<1>1. /\ bal_read' = [bal_read EXCEPT ![p] = b]
      /\ bal_todo' = [bal_todo EXCEPT ![p] = todo]
      /\ bal_pc' = [bal_pc EXCEPT ![p] = to]
      /\ bal_found' = [bal_found EXCEPT ![p] = 0]
  BY DEF Bal!GoOn
<1>2. todo \in SUBSET Bal!Proposals /\ to \in {"idle", "read", "find"} /\ 0 \in 0..MaxVoters
  BY ServicesAssumption DEF Bal!BallotsAssumption, Bal!TypeOK
<1>3. bal_read'[p] = b /\ bal_todo'[p] = todo /\ bal_pc'[p] = to
  BY <1>1 DEF Bal!TypeOK
<1>4. BallotsHeld(p)'
  <2>1. CASE b = Bal!NoBallots
    BY <1>3, <2>1 DEF BallotsHeld, Bal!NoBallots, Bal!Voters
  <2>2. CASE b # Bal!NoBallots
    <3>1. bal_pc'[p] = "find" /\ bal_todo'[p] = bal_todo[p] /\ bal_read'[p] = b
      BY <1>3, <2>2
    <3>2. Bal!At(p)' = Bal!At(p)
      BY <3>1 DEF Bal!At
    <3>3. bal_todo'[p] # {} /\ bal_read'[p] # Bal!NoBallots
      BY <2>2, <3>1
    <3>4. \A v \in Bal!Voters : bal_read'[p][v] <= bal_cast'[Bal!At(p)'][v]
      BY <3>1, <3>2
    <3>. QED
      BY <3>1, <3>3, <3>4 DEF BallotsHeld, Bal!NoBallots, Bal!Voters
  <2>. QED
    BY <2>1, <2>2
<1>. QED
  BY <1>1, <1>2, <1>4 DEF Bal!TypeOK

\* No vote is taken back, so what a pass holds outlasts the steps of the others.
LEMMA HeldStays ==
    ASSUME Bal!TypeOK, NEW q \in Passes, BallotsHeld(q),
           bal_pc'[q] = bal_pc[q], bal_todo'[q] = bal_todo[q], bal_read'[q] = bal_read[q],
           bal_cast' \in [Bal!Proposals -> Bal!Ballot],
           \A k \in Bal!Proposals, v \in Bal!Voters : bal_cast[k][v] <= bal_cast'[k][v]
    PROVE  BallotsHeld(q)'
<1>1. CASE bal_pc[q] \in {"find", "save"}
  <2>1. bal_todo[q] # {} /\ bal_read[q] # Bal!NoBallots
    BY <1>1 DEF BallotsHeld
  <2>2. PICK k \in Bal!Proposals : k = Bal!At(q)
    BY <2>1, AtIsProposal
  <2>3. \A v \in Bal!Voters : bal_read[q][v] <= bal_cast[k][v]
    BY <1>1, <2>2 DEF BallotsHeld
  <2>4. \A v \in Bal!Voters : bal_read[q][v] \in Int /\ bal_cast[k][v] \in Int /\ bal_cast'[k][v] \in Int
    BY DEF Bal!TypeOK, Bal!Ballot
  <2>5. \A v \in Bal!Voters : bal_read'[q][v] <= bal_cast'[k][v]
    BY <2>3, <2>4
  <2>6. Bal!At(q)' = k
    BY <2>2 DEF Bal!At
  <2>. QED
    BY <1>1, <2>1, <2>5, <2>6 DEF BallotsHeld, Bal!NoBallots, Bal!Voters
<1>2. CASE bal_pc[q] \notin {"find", "save"}
  BY <1>2 DEF BallotsHeld, Bal!NoBallots, Bal!Voters
<1>. QED
  BY <1>1, <1>2

\* Steps of the chain: a vote is cast, or a proposal's status changes.
LEMMA BallotsChain ==
    ASSUME BallotsInv, NEW k \in Bal!Proposals,
           Bal!Advance(k) \/ \E v \in Bal!Voters : Bal!Cast(k, v)
    PROVE  BallotsInv'
<1>1. /\ bal_cast' \in [Bal!Proposals -> Bal!Ballot]
      /\ \A j \in Bal!Proposals, v \in Bal!Voters : bal_cast[j][v] <= bal_cast'[j][v]
  <2>1. CASE Bal!Advance(k)
    BY <2>1 DEF Bal!Advance, BallotsInv, Bal!TypeOK, Bal!Ballot
  <2>2. ASSUME NEW v \in Bal!Voters, Bal!Cast(k, v)
        PROVE  /\ bal_cast' \in [Bal!Proposals -> Bal!Ballot]
               /\ \A j \in Bal!Proposals, w \in Bal!Voters : bal_cast[j][w] <= bal_cast'[j][w]
    <3>1. /\ bal_cast[k][v] < MaxCast /\ MaxCast \in Nat
          /\ bal_cast' = [bal_cast EXCEPT ![k] = [bal_cast[k] EXCEPT ![v] = bal_cast[k][v] + 1]]
      BY <2>2, ServicesAssumption DEF Bal!Cast, Bal!BallotsAssumption
    <3>2. \A j \in Bal!Proposals, w \in Bal!Voters : bal_cast[j][w] \in 0..MaxCast
      BY DEF BallotsInv, Bal!TypeOK, Bal!Ballot
    <3>3. bal_cast[k][v] + 1 \in 0..MaxCast
      BY <3>1, <3>2
    <3>4. [bal_cast[k] EXCEPT ![v] = bal_cast[k][v] + 1] \in Bal!Ballot
      BY <3>3 DEF BallotsInv, Bal!TypeOK, Bal!Ballot
    <3>5. bal_cast' \in [Bal!Proposals -> Bal!Ballot]
      BY <3>1, <3>4 DEF BallotsInv, Bal!TypeOK
    <3>6. \A j \in Bal!Proposals, w \in Bal!Voters :
              bal_cast'[j][w] = bal_cast[j][w] \/ (bal_cast'[j][w] = bal_cast[j][w] + 1)
      BY <3>1 DEF BallotsInv, Bal!TypeOK, Bal!Ballot
    <3>. QED
      BY <3>2, <3>5, <3>6
  <2>. QED
    BY <2>1, <2>2
<1>2. /\ UNCHANGED <<bal_row, bal_pc, bal_todo, bal_read, bal_found, bal_failures>>
      /\ bal_status' \in [Bal!Proposals -> {"deposit", "voting", "closed"}]
  BY DEF Bal!Advance, Bal!Cast, BallotsInv, Bal!TypeOK
<1>3. Bal!TypeOK'
  BY <1>1, <1>2 DEF BallotsInv, Bal!TypeOK, Bal!Ballot, Bal!Proposals, Bal!Voters
<1>4. ASSUME NEW q \in Passes PROVE BallotsHeld(q)'
  BY <1>1, <1>2, HeldStays DEF BallotsInv
<1>5. RowsAreCast'
  <2>. SUFFICES ASSUME NEW j \in Bal!Proposals, NEW v \in Bal!Voters
                PROVE  bal_row'[j][v] <= bal_cast'[j][v]
    BY DEF RowsAreCast, Bal!RowsAreCast, Bal!Proposals, Bal!Voters
  <2>1. bal_row[j][v] <= bal_cast[j][v] /\ bal_cast[j][v] <= bal_cast'[j][v]
    BY <1>1 DEF BallotsInv, RowsAreCast, Bal!RowsAreCast
  <2>2. bal_row[j][v] \in Int /\ bal_cast[j][v] \in Int /\ bal_cast'[j][v] \in Int
    BY <1>1 DEF BallotsInv, Bal!TypeOK, Bal!Ballot
  <2>. QED
    BY <1>2, <2>1, <2>2
<1>. QED
  BY <1>3, <1>4, <1>5 DEF BallotsInv

\* Steps of a pass that leave the rows alone.
LEMMA BallotsQuiet ==
    ASSUME BallotsInv, NEW p \in Passes, Bal!TypeOK', BallotsHeld(p)',
           UNCHANGED <<bal_cast, bal_row>>,
           \A q \in Passes \ {p} : /\ bal_pc'[q] = bal_pc[q] /\ bal_todo'[q] = bal_todo[q]
                                   /\ bal_read'[q] = bal_read[q]
    PROVE  BallotsInv'
<1>1. /\ bal_cast' \in [Bal!Proposals -> Bal!Ballot]
      /\ \A j \in Bal!Proposals, v \in Bal!Voters : bal_cast[j][v] <= bal_cast'[j][v]
  BY DEF BallotsInv, Bal!TypeOK, Bal!Ballot
<1>2. ASSUME NEW q \in Passes \ {p} PROVE BallotsHeld(q)'
  BY <1>1, HeldStays DEF BallotsInv
<1>3. RowsAreCast'
  BY DEF BallotsInv, RowsAreCast, Bal!RowsAreCast, Bal!Proposals, Bal!Voters
<1>. QED
  BY <1>2, <1>3 DEF BallotsInv

LEMMA BallotsReadStep ==
    ASSUME BallotsInv, NEW p \in Passes, Bal!ReadBallots(p)
    PROVE  BallotsInv'
<1>. DEFINE b == IF bal_status[Bal!At(p)] = "closed" THEN Bal!NoBallots ELSE bal_cast[Bal!At(p)]
<1>1. /\ bal_pc[p] = "read" /\ Bal!GoOn(p, b)
      /\ UNCHANGED <<bal_status, bal_cast, bal_row, bal_failures>>
  BY DEF Bal!ReadBallots
<1>2. bal_todo[p] # {} /\ Bal!TypeOK
  BY <1>1 DEF BallotsInv, BallotsHeld
<1>3. Bal!At(p) \in Bal!Proposals
  BY <1>2, AtIsProposal
<1>4. Bal!NoBallots \in Bal!Ballot
  BY ServicesAssumption DEF Bal!NoBallots, Bal!Ballot, Bal!BallotsAssumption
<1>5. b \in Bal!Ballot /\ \A v \in Bal!Voters : b[v] <= bal_cast[Bal!At(p)][v]
  BY <1>2, <1>3, <1>4 DEF Bal!TypeOK, Bal!Ballot, Bal!NoBallots
<1>. HIDE DEF b
<1>6. /\ bal_pc' \in [Passes -> {"idle", "read", "find", "save"}]
      /\ bal_todo' \in [Passes -> SUBSET Bal!Proposals]
      /\ bal_read' \in [Passes -> Bal!Ballot] /\ bal_found' \in [Passes -> 0..MaxVoters]
      /\ BallotsHeld(p)'
      /\ \A q \in Passes \ {p} : /\ bal_pc'[q] = bal_pc[q] /\ bal_todo'[q] = bal_todo[q]
                                 /\ bal_read'[q] = bal_read[q]
  BY <1>1, <1>2, <1>5, GoOnHolds
<1>7. Bal!TypeOK'
  BY <1>1, <1>2, <1>6 DEF Bal!TypeOK, Bal!Ballot, Bal!Proposals, Bal!Voters
<1>. QED
  BY <1>1, <1>6, <1>7, BallotsQuiet

\* What is saved is the vote that was read, under its voter's key.
LEMMA BallotsSaveStep ==
    ASSUME BallotsInv, NEW p \in Passes, Bal!Save(p)
    PROVE  BallotsInv'
<1>. DEFINE k == Bal!At(p)
            w == Bal!Voter(p)
            b == [bal_read[p] EXCEPT ![w] = 0]
<1>1. /\ bal_pc[p] = "save" /\ Bal!GoOn(p, b)
      /\ bal_row' = [bal_row EXCEPT ![k] = [bal_row[k] EXCEPT ![w] = bal_read[p][w]]]
      /\ UNCHANGED <<bal_status, bal_cast, bal_failures>>
  BY DEF Bal!Save, Bal!Key
<1>2. /\ bal_todo[p] # {} /\ bal_read[p] # Bal!NoBallots /\ Bal!TypeOK
      /\ \A v \in Bal!Voters : bal_read[p][v] <= bal_cast[k][v]
  BY <1>1 DEF BallotsInv, BallotsHeld
<1>3. k \in Bal!Proposals /\ w \in Bal!Voters
  BY <1>2, AtIsProposal, VoterIsVoter
<1>. HIDE DEF k, w
<1>4. bal_read[p] \in Bal!Ballot /\ bal_cast[k] \in Bal!Ballot /\ bal_row[k] \in Bal!Ballot
  BY <1>2, <1>3 DEF Bal!TypeOK
<1>5. MaxCast \in Nat
  BY ServicesAssumption DEF Bal!BallotsAssumption
<1>6. b \in Bal!Ballot /\ \A v \in Bal!Voters : b[v] <= bal_cast[k][v]
  BY <1>2, <1>3, <1>4, <1>5 DEF Bal!Ballot
<1>7. [bal_row[k] EXCEPT ![w] = bal_read[p][w]] \in Bal!Ballot
  BY <1>3, <1>4 DEF Bal!Ballot
<1>8. bal_row' \in [Bal!Proposals -> Bal!Ballot]
  BY <1>1, <1>2, <1>7 DEF Bal!TypeOK
<1>. HIDE DEF b
<1>9. /\ bal_pc' \in [Passes -> {"idle", "read", "find", "save"}]
      /\ bal_todo' \in [Passes -> SUBSET Bal!Proposals]
      /\ bal_read' \in [Passes -> Bal!Ballot] /\ bal_found' \in [Passes -> 0..MaxVoters]
      /\ BallotsHeld(p)'
      /\ \A q \in Passes \ {p} : /\ bal_pc'[q] = bal_pc[q] /\ bal_todo'[q] = bal_todo[q]
                                 /\ bal_read'[q] = bal_read[q]
  BY <1>1, <1>2, <1>6, GoOnHolds DEF k
<1>10. Bal!TypeOK'
  BY <1>1, <1>2, <1>8, <1>9 DEF Bal!TypeOK, Bal!Ballot, Bal!Proposals, Bal!Voters
<1>11. ASSUME NEW q \in Passes \ {p} PROVE BallotsHeld(q)'
  <2>1. /\ bal_cast' \in [Bal!Proposals -> Bal!Ballot]
        /\ \A j \in Bal!Proposals, v \in Bal!Voters : bal_cast[j][v] <= bal_cast'[j][v]
    BY <1>1, <1>2 DEF Bal!TypeOK, Bal!Ballot
  <2>. QED
    BY <1>2, <1>9, <2>1, HeldStays DEF BallotsInv
<1>12. RowsAreCast'
  <2>. SUFFICES ASSUME NEW j \in Bal!Proposals, NEW v \in Bal!Voters
                PROVE  bal_row'[j][v] <= bal_cast[j][v]
    BY <1>1 DEF RowsAreCast, Bal!RowsAreCast, Bal!Proposals, Bal!Voters
  <2>1. bal_row[j][v] <= bal_cast[j][v]
    BY DEF BallotsInv, RowsAreCast, Bal!RowsAreCast
  <2>2. bal_row'[j][v] = bal_row[j][v] \/ (j = k /\ v = w /\ bal_row'[j][v] = bal_read[p][w])
    BY <1>1, <1>2, <1>3, <1>4 DEF Bal!TypeOK, Bal!Ballot
  <2>. QED
    BY <1>2, <1>3, <2>1, <2>2
<1>. QED
  BY <1>9, <1>10, <1>11, <1>12 DEF BallotsInv

LEMMA BallotsStep ==
    ASSUME BallotsInv, [Bal!Next]_bal
    PROVE  BallotsInv'
<1>. USE DEF BallotsInv
<1>1. CASE UNCHANGED bal
  BY <1>1 DEF bal, Bal!TypeOK, BallotsHeld, RowsAreCast, Bal!RowsAreCast, Bal!At, Bal!Ballot,
              Bal!Proposals, Bal!Voters, Bal!NoBallots
<1>2. ASSUME NEW k \in Bal!Proposals, Bal!Advance(k) \/ \E v \in Bal!Voters : Bal!Cast(k, v)
      PROVE  BallotsInv'
  BY <1>2, BallotsChain
<1>3. ASSUME NEW p \in Passes, Bal!Begin(p)
      PROVE  BallotsInv'
  <2>1. PICK some \in SUBSET {k \in Bal!Proposals : bal_status[k] = "deposit"} :
            /\ bal_pc[p] = "idle"
            /\ {k \in Bal!Proposals : bal_status[k] = "voting"} \cup some # {}
            /\ bal_todo' = [bal_todo EXCEPT ![p] =
                              {k \in Bal!Proposals : bal_status[k] = "voting"} \cup some]
            /\ bal_pc' = [bal_pc EXCEPT ![p] = "read"]
            /\ UNCHANGED <<bal_status, bal_cast, bal_row, bal_read, bal_found, bal_failures>>
    BY <1>3 DEF Bal!Begin
  <2>2. Bal!TypeOK'
    BY <2>1 DEF Bal!TypeOK, Bal!Ballot, Bal!Proposals, Bal!Voters
  <2>3. BallotsHeld(p)'
    BY <2>1 DEF BallotsHeld, Bal!TypeOK, Bal!NoBallots, Bal!Voters
  <2>. QED
    BY <2>1, <2>2, <2>3, BallotsQuiet
<1>4. ASSUME NEW p \in Passes, Bal!Find(p)
      PROVE  BallotsInv'
  <2>1. /\ bal_pc[p] = "find" /\ bal_pc' = [bal_pc EXCEPT ![p] = "save"]
        /\ \E v \in 0..MaxVoters : bal_found' = [bal_found EXCEPT ![p] = v]
        /\ UNCHANGED <<bal_status, bal_cast, bal_row, bal_todo, bal_read, bal_failures>>
    <3>. DEFINE rows == {v \in Bal!Voters : bal_row[Bal!At(p)][v] # 0}
    <3>1. (IF rows = {} THEN {0} ELSE rows) \subseteq 0..MaxVoters
      BY ServicesAssumption DEF Bal!Voters, Bal!BallotsAssumption
    <3>. QED
      BY <1>4, <3>1 DEF Bal!Find
  <2>2. Bal!TypeOK'
    BY <2>1 DEF Bal!TypeOK, Bal!Ballot, Bal!Proposals, Bal!Voters
  <2>3. BallotsHeld(p)'
    BY <2>1 DEF BallotsHeld, Bal!TypeOK, Bal!NoBallots, Bal!Voters, Bal!At
  <2>. QED
    BY <2>1, <2>2, <2>3, BallotsQuiet
<1>5. ASSUME NEW p \in Passes, Bal!Fail(p)
      PROVE  BallotsInv'
  <2>0. Bal!NoBallots \in Bal!Ballot /\ 0 \in 0..MaxVoters /\ MaxFailures \in Nat
    BY ServicesAssumption DEF Bal!NoBallots, Bal!Ballot, Bal!BallotsAssumption
  <2>1. Bal!TypeOK'
    BY <1>5, <2>0 DEF Bal!Fail, Bal!TypeOK
  <2>2. BallotsHeld(p)'
    BY <1>5 DEF Bal!Fail, BallotsHeld, Bal!TypeOK, Bal!NoBallots, Bal!Voters
  <2>. QED
    BY <1>5, <2>1, <2>2, BallotsQuiet DEF Bal!Fail
<1>. QED
  BY <1>1, <1>2, <1>3, <1>4, <1>5, BallotsReadStep, BallotsSaveStep DEF Bal!Next, Bal!Step

LEMMA BallotsInductive == ServicesSpec => []BallotsInv
<1>1. ServicesInit => BallotsInv
  BY ServicesAssumption
  DEF ServicesInit, Bal!Init, BallotsInv, Bal!TypeOK, Bal!Ballot, Bal!NoBallots, BallotsHeld,
      RowsAreCast, Bal!RowsAreCast, Bal!BallotsAssumption
<1>2. BallotsInv /\ [ServicesNext]_all => BallotsInv'
  BY Moves, BallotsStep
<1>. QED
  BY <1>1, <1>2, PTL DEF ServicesSpec

\* A row never has a vote that its voter did not cast, although the row that
\* createOrUpdateVoters overwrites is any of the proposal's, whatever parts of
\* chain-bridge and however many passes run at once.
THEOREM VotesKeepTheirVoter == ServicesSpec => []RowsAreCast
<1>1. BallotsInv => RowsAreCast
  BY DEF BallotsInv
<1>. QED
  BY <1>1, BallotsInductive, PTL

\* Everybody's last ballot on k is stored, and the passes that are at k have read
\* nothing older.
BallotsSettled(k) ==
    /\ bal_row[k] = bal_cast[k]
    /\ \A p \in Passes : bal_pc[p] \in {"find", "save"} /\ Bal!At(p) = k
          => \A v \in Bal!Voters : bal_read[p][v] \in {0, bal_cast[k][v]}

\* A pass that goes on has the votes it was given, and only if there are any.
LEMMA GoOnGives ==
    ASSUME Bal!TypeOK, NEW p \in Passes, NEW b, Bal!GoOn(p, b)
    PROVE  /\ bal_read'[p] = b
           /\ bal_pc'[p] \in {"find", "save"} => Bal!At(p)' = Bal!At(p)
           /\ \A q \in Passes \ {p} : /\ bal_pc'[q] = bal_pc[q] /\ bal_todo'[q] = bal_todo[q]
                                      /\ bal_read'[q] = bal_read[q]
BY DEF Bal!TypeOK, Bal!GoOn, Bal!At

\* As long as nobody votes again, a table that has everybody's last ballot keeps
\* them, also after the vote is closed and the chain has forgotten them: the
\* passes that overlap may write rows again, but nothing else into them
\* (governance.scheduler.ts:103-138).
BallotsStay ==
    \A k \in Bal!Proposals :
        BallotsSettled(k) /\ bal_cast'[k] = bal_cast[k] => BallotsSettled(k)'

\* What OpenBallotsAreStored has brought about remains, for any number of voters,
\* proposals and passes, whichever of them fail.
THEOREM StoredBallotsStay == ServicesSpec => [][BallotsStay]_all
<1>1. BallotsInv /\ [ServicesNext]_all => [BallotsStay]_all
  <2>. SUFFICES ASSUME BallotsInv, [Bal!Next]_bal, NEW k \in Bal!Proposals,
                       BallotsSettled(k), bal_cast'[k] = bal_cast[k]
                PROVE  BallotsSettled(k)'
    BY Moves DEF BallotsStay
  <2>t. Bal!TypeOK
    BY DEF BallotsInv
  <2>1. CASE UNCHANGED bal \/ (\E j \in Bal!Proposals : Bal!Advance(j) \/ \E v \in Bal!Voters : Bal!Cast(j, v))
    <3>1. UNCHANGED <<bal_row, bal_pc, bal_todo, bal_read>>
      BY <2>1 DEF bal, Bal!Advance, Bal!Cast
    <3>2. \A p \in Passes : Bal!At(p)' = Bal!At(p)
      BY <3>1 DEF Bal!At
    <3>. QED
      BY <3>1, <3>2 DEF BallotsSettled, Bal!Voters
  <2>2. ASSUME NEW p \in Passes, Bal!Begin(p) \/ Bal!Fail(p)
        PROVE  BallotsSettled(k)'
    <3>1. /\ UNCHANGED bal_row /\ bal_pc'[p] \notin {"find", "save"}
          /\ \A q \in Passes \ {p} : /\ bal_pc'[q] = bal_pc[q] /\ bal_todo'[q] = bal_todo[q]
                                     /\ bal_read'[q] = bal_read[q]
      BY <2>2, <2>t DEF Bal!Begin, Bal!Fail, Bal!TypeOK
    <3>2. \A q \in Passes \ {p} : Bal!At(q)' = Bal!At(q)
      BY <3>1 DEF Bal!At
    <3>. QED
      BY <3>1, <3>2 DEF BallotsSettled, Bal!Voters
  <2>3. ASSUME NEW p \in Passes, Bal!Find(p)
        PROVE  BallotsSettled(k)'
    <3>1. /\ UNCHANGED <<bal_row, bal_todo, bal_read>> /\ bal_pc[p] = "find"
          /\ \A q \in Passes \ {p} : bal_pc'[q] = bal_pc[q]
      BY <2>3, <2>t DEF Bal!Find, Bal!TypeOK
    <3>2. \A q \in Passes : Bal!At(q)' = Bal!At(q)
      BY <3>1 DEF Bal!At
    <3>. QED
      BY <3>1, <3>2 DEF BallotsSettled, Bal!Voters
  <2>4. ASSUME NEW p \in Passes, NEW b, Bal!GoOn(p, b), UNCHANGED bal_row \/ bal_row'[k] = bal_row[k],
               Bal!At(p) = k => \A v \in Bal!Voters : b[v] \in {0, bal_cast[k][v]}
        PROVE  BallotsSettled(k)'
    <3>1. /\ bal_read'[p] = b
          /\ bal_pc'[p] \in {"find", "save"} => Bal!At(p)' = Bal!At(p)
          /\ \A q \in Passes \ {p} : /\ bal_pc'[q] = bal_pc[q] /\ bal_todo'[q] = bal_todo[q]
                                     /\ bal_read'[q] = bal_read[q]
      BY <2>4, <2>t, GoOnGives
    <3>2. \A q \in Passes \ {p} : Bal!At(q)' = Bal!At(q)
      BY <3>1 DEF Bal!At
    <3>3. bal_row'[k] = bal_cast'[k]
      BY <2>4 DEF BallotsSettled
    <3>4. ASSUME NEW q \in Passes, bal_pc'[q] \in {"find", "save"}, Bal!At(q)' = k, NEW v \in Bal!Voters
          PROVE  bal_read'[q][v] \in {0, bal_cast[k][v]}
      <4>1. CASE q = p
        BY <2>4, <3>1, <3>4, <4>1
      <4>2. CASE q # p
        BY <3>1, <3>2, <3>4, <4>2 DEF BallotsSettled
      <4>. QED
        BY <4>1, <4>2
    <3>. QED
      BY <3>3, <3>4 DEF BallotsSettled, Bal!Voters
  <2>5. ASSUME NEW p \in Passes, Bal!ReadBallots(p)
        PROVE  BallotsSettled(k)'
    <3>. DEFINE b == IF bal_status[Bal!At(p)] = "closed" THEN Bal!NoBallots ELSE bal_cast[Bal!At(p)]
    <3>1. Bal!GoOn(p, b) /\ UNCHANGED bal_row
      BY <2>5 DEF Bal!ReadBallots
    <3>2. Bal!At(p) = k => \A v \in Bal!Voters : b[v] \in {0, bal_cast[k][v]}
      BY DEF Bal!NoBallots
    <3>. HIDE DEF b
    <3>. QED
      BY <2>4, <3>1, <3>2
  <2>6. ASSUME NEW p \in Passes, Bal!Save(p)
        PROVE  BallotsSettled(k)'
    <3>. DEFINE w == Bal!Voter(p)
                b == [bal_read[p] EXCEPT ![w] = 0]
    <3>1. /\ Bal!GoOn(p, b) /\ bal_pc[p] = "save"
          /\ bal_row' = [bal_row EXCEPT ![Bal!At(p)] =
                            [bal_row[Bal!At(p)] EXCEPT ![w] = bal_read[p][w]]]
      BY <2>6 DEF Bal!Save, Bal!Key
    <3>2. bal_todo[p] # {} /\ bal_read[p] # Bal!NoBallots
      BY <3>1 DEF BallotsInv, BallotsHeld
    <3>3. /\ Bal!At(p) \in Bal!Proposals /\ w \in Bal!Voters /\ bal_read[p][w] # 0
      BY <2>t, <3>2, AtIsProposal, VoterIsVoter
    <3>. HIDE DEF w
    <3>4. bal_row[k] \in Bal!Ballot /\ bal_read[p] \in Bal!Ballot /\ bal_cast[k] \in Bal!Ballot
      BY <2>t DEF Bal!TypeOK
    <3>5. CASE Bal!At(p) = k
      <4>1. \A v \in Bal!Voters : bal_read[p][v] \in {0, bal_cast[k][v]}
        BY <3>1, <3>5 DEF BallotsSettled
      <4>2. bal_read[p][w] = bal_row[k][w]
        BY <3>3, <4>1 DEF BallotsSettled
      <4>3. bal_row'[k] = [bal_row[k] EXCEPT ![w] = bal_row[k][w]]
        BY <2>t, <3>1, <3>5, <4>2 DEF Bal!TypeOK
      <4>4. bal_row'[k] = bal_row[k]
        BY <3>3, <3>4, <4>3 DEF Bal!Ballot
      <4>5. \A v \in Bal!Voters : b[v] \in {0, bal_cast[k][v]}
        BY <3>4, <4>1 DEF Bal!Ballot
      <4>. HIDE DEF b
      <4>. QED
        BY <2>4, <3>1, <4>4, <4>5
    <3>6. CASE Bal!At(p) # k
      <4>1. bal_row'[k] = bal_row[k]
        BY <2>t, <3>1, <3>3, <3>6 DEF Bal!TypeOK
      <4>. HIDE DEF b
      <4>. QED
        BY <2>4, <3>1, <3>6, <4>1
    <3>. QED
      BY <3>5, <3>6
  <2>. QED
    BY <2>1, <2>2, <2>3, <2>5, <2>6 DEF Bal!Next, Bal!Step
<1>. QED
  BY <1>1, BallotsInductive, PTL DEF ServicesSpec

-----------------------------------------------------------------------------
(* Bootstrap: the scheduler that has clients has the id of the chain.       *)

\* As long as no scheduler ran without the chain's id, the clients of the one that
\* is up are set before it reads the id, and no job is named without it.
Named ==
    /\ boot_pc[Scheduler] \in {"off", "pause", "connect"} => boot_client[Scheduler] = "null"
    /\ boot_pc[Scheduler] \in {"bootstrap", "running"} /\ boot_client[Scheduler] = "set"
          => boot_chainId[Scheduler] = "lum-network-1"
    /\ \A q \in boot_queued : q[1] = "lum-network-1"

BootInv == Boot!TypeOK /\ (boot_unnamed \/ Named)

LEMMA BootTyped ==
    ASSUME Boot!TypeOK, [Boot!Next]_boot
    PROVE  Boot!TypeOK'
<1>. USE ServicesAssumption DEF Boot!BootstrapAssumption, Boot!TypeOK
<1>1. CASE UNCHANGED boot
  BY <1>1 DEF boot, Boot!Heights, Boot!ChainIds
<1>2. CASE Boot!NewBlock
  BY <1>2 DEF Boot!NewBlock, Boot!Heights, Boot!ChainIds
<1>3. CASE Boot!LiveIngest
  <2>1. {boot_chainId[Scheduler]} \X Boot!Covered \subseteq Boot!ChainIds \X Boot!Heights
    BY DEF Boot!Covered
  <2>2. /\ boot_queued' = boot_queued \cup ({boot_chainId[Scheduler]} \X Boot!Covered)
        /\ UNCHANGED <<boot_tip, boot_pc, boot_client, boot_chainId, boot_paused, boot_unnamed,
                       boot_stops>>
    BY <1>3 DEF Boot!LiveIngest
  <2>3. boot_queued' \subseteq Boot!ChainIds \X Boot!Heights
    BY <2>1, <2>2
  <2>. QED
    BY <2>2, <2>3 DEF Boot!Heights, Boot!ChainIds
<1>4. ASSUME NEW p \in Processes, Boot!Starting(p)
      PROVE  Boot!TypeOK'
  BY <1>4 DEF Boot!Starting, Boot!Start, Boot!Pause, Boot!Connect, Boot!NodeInfo,
              Boot!NodeRejects, Boot!OnBootstrap, Boot!Goto, Boot!Heights, Boot!ChainIds
<1>5. ASSUME NEW p \in Processes, Boot!Stop(p)
      PROVE  Boot!TypeOK'
  BY <1>5 DEF Boot!Stop, Boot!Goto, Boot!Heights, Boot!ChainIds
<1>. QED
  BY <1>1, <1>2, <1>3, <1>4, <1>5 DEF Boot!Next

LEMMA BootNamed ==
    ASSUME Boot!TypeOK, Named, [Boot!Next]_boot
    PROVE  boot_unnamed' \/ Named'
<1>. USE ServicesAssumption DEF Boot!BootstrapAssumption, Boot!TypeOK, Named
<1>1. CASE UNCHANGED boot \/ Boot!NewBlock
  BY <1>1 DEF boot, Boot!NewBlock
<1>2. CASE Boot!LiveIngest
  <2>1. /\ boot_chainId[Scheduler] = "lum-network-1"
        /\ boot_queued' = boot_queued \cup ({boot_chainId[Scheduler]} \X Boot!Covered)
        /\ UNCHANGED <<boot_pc, boot_client, boot_chainId>>
    BY <1>2 DEF Boot!LiveIngest
  <2>. QED
    BY <2>1
<1>3. ASSUME NEW p \in Processes, Boot!Starting(p)
      PROVE  boot_unnamed' \/ Named'
  <2>1. UNCHANGED boot_queued
    BY <1>3 DEF Boot!Starting, Boot!Start, Boot!Pause, Boot!Connect, Boot!NodeInfo,
                Boot!NodeRejects, Boot!OnBootstrap
  <2>2. CASE p # Scheduler
    <3>1. /\ boot_pc'[Scheduler] = boot_pc[Scheduler]
          /\ boot_client'[Scheduler] = boot_client[Scheduler]
          /\ boot_chainId'[Scheduler] = boot_chainId[Scheduler]
      BY <1>3, <2>2 DEF Boot!Starting, Boot!Start, Boot!Pause, Boot!Connect, Boot!NodeInfo,
                        Boot!NodeRejects, Boot!OnBootstrap, Boot!Goto
    <3>. QED
      BY <2>1, <3>1
  <2>3. CASE p = Scheduler
    BY <1>3, <2>1, <2>3
    DEF Boot!Starting, Boot!Start, Boot!Pause, Boot!Connect, Boot!NodeInfo,
        Boot!NodeRejects, Boot!OnBootstrap, Boot!IsInitialized, Boot!Goto
  <2>. QED
    BY <2>2, <2>3
<1>4. ASSUME NEW p \in Processes, Boot!Stop(p)
      PROVE  boot_unnamed' \/ Named'
  BY <1>4 DEF Boot!Stop, Boot!Goto
<1>. QED
  BY <1>1, <1>2, <1>3, <1>4 DEF Boot!Next

LEMMA BootInductive == ServicesSpec => []BootInv
<1>1. ServicesInit => BootInv
  <2>. SUFFICES ASSUME Boot!Init PROVE BootInv
    BY DEF ServicesInit
  <2>1. Scheduler \in Processes /\ MaxTip \in Nat \ {0} /\ Window \in Nat \ {0} /\ MaxStops \in Nat
    BY ServicesAssumption DEF Boot!BootstrapAssumption
  <2>2. Boot!TypeOK
    <3>1. boot_paused \in BOOLEAN /\ boot_unnamed \in BOOLEAN
      BY Zenon DEF Boot!Init
    <3>2. /\ boot_tip \in Boot!Heights /\ boot_stops \in 0..MaxStops
          /\ boot_queued \subseteq Boot!ChainIds \X Boot!Heights
      BY <2>1 DEF Boot!Init, Boot!Heights
    <3>3. /\ boot_pc \in [Processes -> {"off", "pause", "connect", "nodeInfo", "bootstrap", "running"}]
          /\ boot_client \in [Processes -> {"null", "set"}]
          /\ boot_chainId \in [Processes -> Boot!ChainIds]
      BY DEF Boot!Init, Boot!ChainIds
    <3>. QED
      BY <3>1, <3>2, <3>3 DEF Boot!TypeOK
  <2>3. /\ boot_client = [p \in Processes |-> "null"] /\ boot_queued = {}
        /\ boot_pc = [p \in Processes |-> "off"]
    BY DEF Boot!Init
  <2>4. Named
    BY <2>1, <2>3 DEF Named
  <2>. QED
    BY <2>2, <2>4 DEF BootInv
<1>2. BootInv /\ [ServicesNext]_all => BootInv'
  <2>. SUFFICES ASSUME BootInv, [ServicesNext]_all PROVE BootInv'
    OBVIOUS
  <2>1. [Boot!Next]_boot
    BY Moves
  <2>2. boot_unnamed => boot_unnamed'
    BY <2>1 DEF Boot!Next, boot, Boot!NewBlock, Boot!LiveIngest, Boot!Starting, Boot!Start,
                Boot!Pause, Boot!Connect, Boot!NodeInfo, Boot!NodeRejects, Boot!OnBootstrap, Boot!Stop
  <2>. QED
    BY <2>1, <2>2, BootTyped, BootNamed DEF BootInv
<1>. QED
  BY <1>1, <1>2, PTL DEF ServicesSpec

\* A height has one job id, unless a scheduler ran without the id of the chain:
\* wherever processes stop, and whenever the node does not answer.
THEOREM JobsKeepTheirName == ServicesSpec => []OneIdPerHeight
<1>1. BootInv => OneIdPerHeight
  <2>. SUFFICES ASSUME Named, NEW h \in Boot!Heights, Boot!ChainIds \X {h} \subseteq boot_queued
                PROVE  FALSE
    BY DEF BootInv, OneIdPerHeight, Boot!OneIdPerHeight
  <2>1. <<"undefined", h>> \in boot_queued
    BY DEF Boot!ChainIds
  <2>. QED
    BY <2>1 DEF Named
<1>. QED
  BY <1>1, BootInductive, PTL

\* The queue is not paused once the scheduler is up (sync-scheduler.module.ts:98).
NobodyPausesAndRuns == boot_paused => boot_pc[Scheduler] # "running"

\* Only the scheduler pauses the queue, while it starts.
PausedInv ==
    /\ boot_pc \in [Processes -> {"off", "pause", "connect", "nodeInfo", "bootstrap", "running"}]
    /\ \A q \in Processes : boot_pc[q] = "pause" => q = Scheduler
    /\ NobodyPausesAndRuns

LEMMA PausedStep ==
    ASSUME Boot!TypeOK, PausedInv, [Boot!Next]_boot
    PROVE  PausedInv'
<1>. USE ServicesAssumption DEF Boot!BootstrapAssumption, PausedInv, NobodyPausesAndRuns
<1>1. CASE UNCHANGED boot \/ Boot!NewBlock \/ Boot!LiveIngest
  BY <1>1 DEF boot, Boot!NewBlock, Boot!LiveIngest
<1>2. ASSUME NEW p \in Processes, Boot!OnBootstrap(p)
      PROVE  PausedInv'
  <2>1. Boot!IsInitialized(p)
    BY DEF Boot!TypeOK, Boot!IsInitialized
  <2>2. boot_paused' => boot_paused /\ p # Scheduler
    BY <1>2, <2>1, Zenon DEF Boot!OnBootstrap
  <2>3. boot_pc' = [boot_pc EXCEPT ![p] = "running"]
    BY <1>2, <2>1, Zenon DEF Boot!OnBootstrap, Boot!Goto
  <2>. QED
    BY <2>2, <2>3
<1>3. ASSUME NEW p \in Processes, Boot!Pause(p)
      PROVE  PausedInv'
  BY <1>3 DEF Boot!Pause, Boot!Goto
<1>4. ASSUME NEW p \in Processes, Boot!Start(p)
      PROVE  PausedInv'
  BY <1>4 DEF Boot!Start, Boot!Goto
<1>5. ASSUME NEW p \in Processes,
             Boot!Connect(p) \/ Boot!NodeInfo(p) \/ Boot!NodeRejects(p) \/ Boot!Stop(p)
      PROVE  PausedInv'
  <2>1. PICK to \in {"off", "nodeInfo", "bootstrap"} : boot_pc' = [boot_pc EXCEPT ![p] = to]
    BY <1>5, Zenon DEF Boot!Connect, Boot!NodeInfo, Boot!NodeRejects, Boot!Stop, Boot!Goto
  <2>2. boot_paused' = boot_paused
    BY <1>5 DEF Boot!Connect, Boot!NodeInfo, Boot!NodeRejects, Boot!Stop
  <2>. QED
    BY <2>1, <2>2
<1>. QED
  BY <1>1, <1>2, <1>3, <1>4, <1>5 DEF Boot!Next, Boot!Starting

\* A queue that is paused has a scheduler that is off or still starts: one that
\* is up, even without its clients, has resumed it, whichever scheduler paused it
\* (sync-scheduler.module.ts:84 and 98).  Of QueueIsResumed only the start is left.
THEOREM PausedIsStarting == ServicesSpec => []NobodyPausesAndRuns
<1>1. ServicesInit => PausedInv
  BY ServicesAssumption DEF ServicesInit, Boot!Init, PausedInv, NobodyPausesAndRuns
<1>2. BootInv /\ PausedInv /\ [ServicesNext]_all => PausedInv'
  BY Moves, PausedStep DEF BootInv
<1>3. PausedInv => NobodyPausesAndRuns
  BY DEF PausedInv
<1>. QED
  BY <1>1, <1>2, <1>3, BootInductive, PTL DEF ServicesSpec

-----------------------------------------------------------------------------
(* Pools: what a pass listed, or saved, the chain has said.                 *)

\* Neither rows nor lists are ahead of the chain.
NotAhead ==
    \A k \in Poo!Pool :
        /\ poo_row[k].version <= poo_version[k]
        /\ \A p \in Passes : poo_list[p][k] <= poo_version[k]

\* Two passes that run know it of each other.
PoolsShared ==
    \A p, q \in Passes : poo_pc[p] # "idle" /\ poo_pc[q] # "idle" /\ p # q => p \in poo_shared

\* A pass that runs alone listed what is not older than the rows that it comes to.
PoolsLone(p) ==
    poo_pc[p] # "idle" =>
        /\ poo_at[p] \in Poo!Pool
        /\ p \notin poo_shared =>
              \A k \in poo_at[p]..MaxPool : poo_row[k].version <= poo_list[p][k]

PoolsInv ==
    Poo!TypeOK /\ NotAhead /\ PoolsShared /\ \A p \in Passes : PoolsLone(p)

LEMMA PoolsBegin ==
    ASSUME PoolsInv, NEW p \in Passes, Poo!Begin(p)
    PROVE  PoolsInv'
<1>. USE DEF PoolsInv
<1>1. /\ poo_pc[p] = "idle" /\ poo_pc' = [poo_pc EXCEPT ![p] = "prize"]
      /\ poo_at' = [poo_at EXCEPT ![p] = 1]
      /\ poo_list' = [poo_list EXCEPT ![p] = poo_version]
      /\ UNCHANGED <<poo_version, poo_row, poo_prize, poo_failures>>
  BY DEF Poo!Begin, Poo!Listed
<1>2. poo_shared' = IF Poo!Running = {} THEN poo_shared \ {p}
                    ELSE poo_shared \cup Poo!Running \cup {p}
  BY DEF Poo!Begin
<1>3. MaxPool \in Nat \ {0} /\ 1 \in Poo!Pool
  BY ServicesAssumption DEF Poo!PoolsAssumption, Poo!Pool
<1>4. Poo!TypeOK'
  <2>1. poo_shared' \subseteq Passes
    BY <1>2 DEF Poo!TypeOK, Poo!Running
  <2>2. poo_version \in Poo!Versions /\ 1 \in 0..MaxPool
    BY <1>3 DEF Poo!TypeOK
  <2>3. /\ poo_pc' \in [Passes -> {"idle", "prize", "save"}] /\ poo_at' \in [Passes -> 0..MaxPool]
        /\ poo_list' \in [Passes -> Poo!Versions]
    BY <1>1, <2>2 DEF Poo!TypeOK
  <2>. QED
    BY <1>1, <2>1, <2>3 DEF Poo!TypeOK, Poo!Versions, Poo!Row, Poo!Pool
<1>5. NotAhead'
  <2>. SUFFICES ASSUME NEW k \in Poo!Pool
                PROVE  /\ poo_row[k].version <= poo_version[k]
                       /\ \A q \in Passes : poo_list'[q][k] <= poo_version[k]
    BY <1>1 DEF NotAhead, Poo!Pool
  <2>1. poo_version[k] \in Int
    BY DEF Poo!TypeOK, Poo!Versions
  <2>2. \A q \in Passes : poo_list'[q] = poo_list[q] \/ poo_list'[q] = poo_version
    BY <1>1 DEF Poo!TypeOK
  <2>. QED
    BY <2>1, <2>2 DEF NotAhead
<1>6. PoolsShared'
  BY <1>1, <1>2 DEF PoolsShared, Poo!Running, Poo!TypeOK
<1>7. PoolsLone(p)'
  <2>1. /\ poo_at'[p] = 1 /\ poo_list'[p] = poo_version /\ poo_row' = poo_row
    BY <1>1 DEF Poo!TypeOK
  <2>2. \A k \in 1..MaxPool : poo_row[k].version <= poo_version[k]
    BY DEF NotAhead, Poo!Pool
  <2>. QED
    BY <1>3, <2>1, <2>2 DEF PoolsLone, Poo!Pool
<1>8. ASSUME NEW q \in Passes, q # p PROVE PoolsLone(q)'
  <2>1. /\ poo_pc'[q] = poo_pc[q] /\ poo_at'[q] = poo_at[q] /\ poo_list'[q] = poo_list[q]
    BY <1>1, <1>8
  <2>2. poo_pc[q] # "idle" => q \in poo_shared'
    BY <1>2 DEF Poo!Running
  <2>. QED
    BY <2>1, <2>2 DEF PoolsLone, Poo!Pool
<1>. QED
  BY <1>4, <1>5, <1>6, <1>7, <1>8

\* A save by a pass that runs alone brings a row up to its list.
LEMMA PoolsSave ==
    ASSUME PoolsInv, NEW p \in Passes, Poo!Save(p)
    PROVE  /\ PoolsInv'
           /\ \A k \in Poo!Pool : p \notin poo_shared => poo_row[k].version <= poo_row'[k].version
<1>. USE DEF PoolsInv
<1>. DEFINE here == poo_at[p]
            new == [version |-> poo_list[p][here], prize |-> poo_prize[p]]
            over == here = MaxPool \/ poo_list[p][here + 1] = 0
<1>1. /\ poo_pc[p] = "save" /\ poo_row' = [poo_row EXCEPT ![here] = new]
      /\ poo_pc' = [poo_pc EXCEPT ![p] = IF over THEN "idle" ELSE "prize"]
      /\ poo_at' = [poo_at EXCEPT ![p] = IF over THEN 0 ELSE here + 1]
      /\ UNCHANGED <<poo_version, poo_list, poo_prize, poo_shared, poo_failures>>
  BY DEF Poo!Save
<1>2. MaxPool \in Nat \ {0} /\ here \in Poo!Pool
  BY <1>1, ServicesAssumption DEF Poo!PoolsAssumption, PoolsLone
<1>3. poo_list[p] \in [Poo!Pool -> 0..MaxVersion] /\ poo_prize[p] \in BOOLEAN
  BY DEF Poo!TypeOK, Poo!Versions
<1>4. new \in Poo!Row /\ new.version = poo_list[p][here]
  BY <1>2, <1>3 DEF Poo!Row
<1>. HIDE DEF new
<1>5. /\ \A k \in Poo!Pool : k # here => poo_row'[k] = poo_row[k]
      /\ poo_row'[here].version = poo_list[p][here]
      /\ poo_row' \in [Poo!Pool -> Poo!Row]
  BY <1>1, <1>2, <1>4 DEF Poo!TypeOK
<1>6. /\ poo_at'[p] = (IF over THEN 0 ELSE here + 1) /\ poo_pc'[p] = (IF over THEN "idle" ELSE "prize")
      /\ \A q \in Passes \ {p} : poo_pc'[q] = poo_pc[q] /\ poo_at'[q] = poo_at[q]
  BY <1>1 DEF Poo!TypeOK
<1>7. Poo!TypeOK'
  <2>1. (IF over THEN 0 ELSE here + 1) \in 0..MaxPool
    BY <1>2 DEF Poo!Pool
  <2>. HIDE DEF over
  <2>2. poo_at' \in [Passes -> 0..MaxPool] /\ poo_pc' \in [Passes -> {"idle", "prize", "save"}]
    BY <1>1, <2>1 DEF Poo!TypeOK
  <2>. QED
    BY <1>1, <1>5, <2>2 DEF Poo!TypeOK, Poo!Versions, Poo!Row, Poo!Pool
<1>8. \A k \in Poo!Pool : p \notin poo_shared => poo_row[k].version <= poo_row'[k].version
  <2>. SUFFICES ASSUME NEW k \in Poo!Pool, p \notin poo_shared
                PROVE  poo_row[k].version <= poo_row'[k].version
    OBVIOUS
  <2>1. poo_row[k].version \in Int
    BY DEF Poo!TypeOK, Poo!Row
  <2>2. poo_row[here].version <= poo_list[p][here]
    BY <1>1, <1>2 DEF PoolsLone, Poo!Pool
  <2>. QED
    BY <1>5, <2>1, <2>2
<1>9. NotAhead'
  BY <1>1, <1>5 DEF NotAhead, Poo!Pool
<1>10. PoolsShared'
  BY <1>1, <1>6 DEF PoolsShared
<1>11. PoolsLone(p)'
  <2>1. CASE over
    BY <1>6, <2>1 DEF PoolsLone
  <2>2. CASE ~over
    <3>1. here + 1 \in Poo!Pool /\ here \in Nat
      BY <1>2, <2>2 DEF Poo!Pool
    <3>2. \A k \in here + 1..MaxPool : k \in here..MaxPool /\ k \in Poo!Pool /\ k # here
      BY <1>2, <3>1 DEF Poo!Pool
    <3>. QED
      BY <1>1, <1>5, <1>6, <2>2, <3>1, <3>2 DEF PoolsLone, Poo!Pool
  <2>. QED
    BY <2>1, <2>2
<1>12. ASSUME NEW q \in Passes, q # p PROVE PoolsLone(q)'
  <2>1. poo_pc[q] # "idle" => q \in poo_shared
    BY <1>1, <1>12 DEF PoolsShared
  <2>. QED
    BY <1>1, <1>6, <1>12, <2>1 DEF PoolsLone, Poo!Pool
<1>. QED
  BY <1>7, <1>8, <1>9, <1>10, <1>11, <1>12

\* Steps that save no row.
LEMMA PoolsQuiet ==
    ASSUME PoolsInv, NEW p \in Passes, Poo!Fail(p) \/ \E answers \in BOOLEAN : Poo!ReadPrize(p, answers)
    PROVE  PoolsInv'
<1>. USE DEF PoolsInv
<1>1. CASE Poo!Fail(p)
  <2>1. /\ poo_pc' = [poo_pc EXCEPT ![p] = "idle"] /\ poo_at' = [poo_at EXCEPT ![p] = 0]
        /\ UNCHANGED <<poo_version, poo_row, poo_list, poo_prize, poo_shared>>
    BY <1>1 DEF Poo!Fail
  <2>2. poo_failures' \in 0..MaxFailures
    BY <1>1, ServicesAssumption DEF Poo!Fail, Poo!PoolsAssumption, Poo!TypeOK
  <2>3. 0 \in 0..MaxPool
    BY ServicesAssumption DEF Poo!PoolsAssumption
  <2>4. Poo!TypeOK'
    BY <2>1, <2>2, <2>3 DEF Poo!TypeOK, Poo!Versions, Poo!Row, Poo!Pool
  <2>5. NotAhead' /\ PoolsShared' /\ \A q \in Passes : PoolsLone(q)'
    BY <2>1 DEF NotAhead, PoolsShared, PoolsLone, Poo!TypeOK, Poo!Pool
  <2>. QED
    BY <2>4, <2>5
<1>2. ASSUME NEW answers \in BOOLEAN, Poo!ReadPrize(p, answers)
      PROVE  PoolsInv'
  <2>1. /\ poo_pc[p] = "prize" /\ poo_pc' = [poo_pc EXCEPT ![p] = "save"]
        /\ poo_prize' = [poo_prize EXCEPT ![p] = answers]
        /\ UNCHANGED <<poo_version, poo_row, poo_at, poo_list, poo_shared, poo_failures>>
    BY <1>2 DEF Poo!ReadPrize
  <2>2. Poo!TypeOK'
    BY <2>1 DEF Poo!TypeOK, Poo!Versions, Poo!Row, Poo!Pool
  <2>3. NotAhead' /\ PoolsShared' /\ \A q \in Passes : PoolsLone(q)'
    BY <2>1 DEF NotAhead, PoolsShared, PoolsLone, Poo!TypeOK, Poo!Pool
  <2>. QED
    BY <2>2, <2>3
<1>. QED
  BY <1>1, <1>2

LEMMA PoolsChange ==
    ASSUME PoolsInv, NEW k \in Poo!Pool, Poo!Change(k)
    PROVE  PoolsInv'
<1>. USE DEF PoolsInv
<1>1. /\ poo_version[k] < MaxVersion /\ MaxVersion \in Nat
      /\ poo_version' = [poo_version EXCEPT ![k] = poo_version[k] + 1]
      /\ UNCHANGED <<poo_row, poo_pc, poo_at, poo_list, poo_prize, poo_shared, poo_failures>>
  BY ServicesAssumption DEF Poo!Change, Poo!PoolsAssumption
<1>2. \A j \in Poo!Pool : /\ poo_version[j] \in 0..MaxVersion
                          /\ poo_version'[j] = poo_version[j] \/ poo_version'[j] = poo_version[j] + 1
  BY <1>1 DEF Poo!TypeOK, Poo!Versions
<1>3. poo_version' \in Poo!Versions
  <2>1. poo_version[k] + 1 \in 0..MaxVersion
    BY <1>1, <1>2
  <2>. QED
    BY <1>1, <2>1 DEF Poo!TypeOK, Poo!Versions
<1>4. Poo!TypeOK'
  BY <1>1, <1>3 DEF Poo!TypeOK, Poo!Versions, Poo!Row, Poo!Pool
<1>5. NotAhead'
  <2>. SUFFICES ASSUME NEW j \in Poo!Pool
                PROVE  /\ poo_row[j].version <= poo_version'[j]
                       /\ \A p \in Passes : poo_list[p][j] <= poo_version'[j]
    BY <1>1 DEF NotAhead, Poo!Pool
  <2>1. poo_row[j].version \in Int /\ \A p \in Passes : poo_list[p][j] \in Int
    BY DEF Poo!TypeOK, Poo!Row, Poo!Versions
  <2>2. poo_row[j].version <= poo_version[j] /\ \A p \in Passes : poo_list[p][j] <= poo_version[j]
    BY DEF NotAhead
  <2>. QED
    BY <1>2, <2>1, <2>2
<1>6. PoolsShared' /\ \A q \in Passes : PoolsLone(q)'
  BY <1>1 DEF PoolsShared, PoolsLone, Poo!Pool
<1>. QED
  BY <1>4, <1>5, <1>6

LEMMA PoolsStep ==
    ASSUME PoolsInv, [Poo!Next]_poo
    PROVE  PoolsInv'
<1>1. CASE UNCHANGED poo
  BY <1>1 DEF poo, PoolsInv, Poo!TypeOK, NotAhead, PoolsShared, PoolsLone, Poo!Versions, Poo!Row, Poo!Pool
<1>. QED
  BY <1>1, PoolsBegin, PoolsSave, PoolsQuiet, PoolsChange DEF Poo!Next

LEMMA PoolsInductive == ServicesSpec => []PoolsInv
<1>1. ServicesInit => PoolsInv
  <2>. SUFFICES ASSUME Poo!Init PROVE PoolsInv
    BY DEF ServicesInit
  <2>1. MaxPool \in Nat \ {0} /\ MaxVersion \in Nat \ {0} /\ MaxFailures \in Nat
    BY ServicesAssumption DEF Poo!PoolsAssumption
  <2>2. [version |-> 0, prize |-> FALSE] \in Poo!Row
    BY <2>1 DEF Poo!Row
  <2>3. Poo!TypeOK
    BY <2>1, <2>2 DEF Poo!Init, Poo!TypeOK, Poo!Versions
  <2>4. NotAhead
    BY DEF Poo!Init, NotAhead
  <2>5. PoolsShared /\ \A p \in Passes : PoolsLone(p)
    BY DEF Poo!Init, PoolsShared, PoolsLone
  <2>. QED
    BY <2>3, <2>4, <2>5 DEF PoolsInv
<1>2. PoolsInv /\ [ServicesNext]_all => PoolsInv'
  BY Moves, PoolsStep
<1>. QED
  BY <1>1, <1>2, PTL DEF ServicesSpec

\* The row of a pool goes back to what the chain said before only by a pass that ran
\* together with another one, whatever fails and in whatever order they are read.
THEOREM PoolsGoBackInOverlap == ServicesSpec => BackOnlyInOverlap
<1>1. PoolsInv /\ [ServicesNext]_all => [Poo!GoesBackInOverlap]_poo
  <2>. SUFFICES ASSUME PoolsInv, [Poo!Next]_poo, NEW k \in Poo!Pool,
                       poo_row'[k].version < poo_row[k].version
                PROVE  \E p \in poo_shared : Poo!Save(p)
    BY Moves DEF Poo!GoesBackInOverlap
  <2>1. poo_row[k].version \in Int
    BY DEF PoolsInv, Poo!TypeOK, Poo!Row
  <2>2. poo_row' # poo_row
    BY <2>1
  <2>3. PICK p \in Passes : Poo!Save(p)
    BY <2>2 DEF Poo!Next, poo, Poo!Begin, Poo!ReadPrize, Poo!Fail, Poo!Change
  <2>4. poo_row'[k].version \in Int
    BY <2>3, PoolsSave DEF PoolsInv, Poo!TypeOK, Poo!Row
  <2>. QED
    BY <2>1, <2>3, <2>4, PoolsSave
<1>. QED
  BY <1>1, PoolsInductive, PTL DEF ServicesSpec, BackOnlyInOverlap

-----------------------------------------------------------------------------
(* Validators: a pass has seen those that it went by and that did not move. *)

\* The list of the validator's status was read up to him.
WentBy(p, v) ==
    \E i \in 1..3 :
        /\ Val!Statuses[i] = val_status[v]
        /\ i < val_stage[p] \/ (i = val_stage[p] /\ v < val_key[p])

ValidatorsSeen(p) ==
    /\ val_stage[p] = Val!Idle => val_key[p] = 0
    /\ \A v \in Val!Validator \ val_moved[p] : WentBy(p, v) => val_seen[p][v] = val_status[v]

ValidatorsInv == Val!TypeOK /\ \A p \in Passes : ValidatorsSeen(p)

LEMMA StatusesAre ==
    /\ Val!Statuses[1] = "bonded" /\ Val!Statuses[2] = "unbonded" /\ Val!Statuses[3] = "unbonding"
    /\ Val!Idle = 0 /\ Val!Saving = 4
    /\ \A i \in 1..3 : Val!Statuses[i] \in {"bonded", "unbonded", "unbonding"}
<1>1. /\ Val!Statuses[1] = "bonded" /\ Val!Statuses[2] = "unbonded" /\ Val!Statuses[3] = "unbonding"
      /\ Val!Idle = 0 /\ Val!Saving = 4
  BY DEF Val!Statuses, Val!Idle, Val!Saving
<1>2. \A i \in 1..3 : i = 1 \/ i = 2 \/ i = 3
  OBVIOUS
<1>. QED
  BY <1>1, <1>2

\* A page has what precedes the key of the next one.
LEMMA PageReaches ==
    ASSUME NEW s, NEW k \in Nat, NEW v \in Val!Validator, val_status[v] = s, k <= v,
           LET left == Val!Rest(s, k) \ Val!OnPage(s, k)
           IN left # {} => v < Val!Min(left)
    PROVE  v \in Val!OnPage(s, k)
<1>. DEFINE left == Val!Rest(s, k) \ Val!OnPage(s, k)
<1>1. v \in Val!Rest(s, k) /\ v \in Nat
  BY DEF Val!Rest, Val!Validator
<1>2. SUFFICES ASSUME v \in left PROVE FALSE
  BY <1>1
<1>3. left \in SUBSET Nat /\ left # {}
  BY <1>2 DEF Val!Rest, Val!Validator
<1>4. Val!Min(left) \in left /\ \A x \in left : Val!Min(left) <= x
  <2>1. Val!Min(left) = Bal!Min(left)
    BY DEF Val!Min, Bal!Min
  <2>. QED
    BY <1>3, <2>1, MinIsLeast
<1>. QED
  BY <1>1, <1>2, <1>3, <1>4

LEMMA ValidatorsRead ==
    ASSUME ValidatorsInv, NEW p \in Passes, Val!ReadPage(p)
    PROVE  ValidatorsInv'
<1>. USE DEF ValidatorsInv
<1>. DEFINE i == val_stage[p]
            k == val_key[p]
            s == Val!Statuses[i]
            page == Val!OnPage(s, k)
            left == Val!Rest(s, k) \ page
            saw == [v \in Val!Validator |-> IF v \in page THEN s ELSE val_seen[p][v]]
            next == Val!PageKey(p, left)
            to == IF left = {} THEN i + 1 ELSE i
<1>1. /\ i \notin {Val!Idle, Val!Saving}
      /\ val_seen' = [val_seen EXCEPT ![p] = saw]
      /\ val_key' = [val_key EXCEPT ![p] = next]
      /\ val_stage' = [val_stage EXCEPT ![p] = to]
      /\ UNCHANGED <<val_status, val_row, val_moved, val_moves, val_failures>>
  BY DEF Val!ReadPage
<1>2. i \in 1..3 /\ k \in 0..MaxValidator /\ k \in Nat /\ MaxValidator \in Nat
      /\ s \in {"bonded", "unbonded", "unbonding"}
  BY <1>1, StatusesAre, ServicesAssumption DEF Val!TypeOK, Val!ValidatorsAssumption
<1>3. page \subseteq Val!Validator /\ \A v \in page : val_status[v] = s
  BY DEF Val!OnPage, Val!Rest
<1>4. left \in SUBSET Nat /\ left \subseteq Val!Validator
  BY DEF Val!Rest, Val!Validator
<1>5. left # {} => next \in left /\ next = Val!Min(left)
  <2>1. Val!Min(left) = Bal!Min(left)
    BY DEF Val!Min, Bal!Min
  <2>. QED
    BY <1>4, <2>1, MinIsLeast DEF Val!PageKey
<1>6. left = {} => next = 0
  BY DEF Val!PageKey
<1>7. next \in 0..MaxValidator /\ to \in 1..4
  BY <1>2, <1>4, <1>5, <1>6 DEF Val!Validator
<1>8. ASSUME NEW v \in Val!Validator, val_status[v] = s, k <= v, left # {} => v < next
      PROVE  v \in page
  BY <1>2, <1>5, <1>8, PageReaches
<1>. HIDE DEF i, k, s, page, left, next, to
<1>9. saw \in [Val!Validator -> {"bonded", "unbonded", "unbonding", "none"}]
  BY <1>2 DEF Val!TypeOK
<1>10. /\ val_seen'[p] = saw /\ val_key'[p] = next /\ val_stage'[p] = to
       /\ \A q \in Passes \ {p} : /\ val_seen'[q] = val_seen[q] /\ val_key'[q] = val_key[q]
                                  /\ val_stage'[q] = val_stage[q]
  BY <1>1 DEF Val!TypeOK
<1>11. Val!TypeOK'
  <2>1. 1..4 \subseteq Val!Idle..Val!Saving
    BY StatusesAre
  <2>2. /\ val_stage' \in [Passes -> Val!Idle..Val!Saving]
        /\ val_key' \in [Passes -> 0..MaxValidator]
        /\ val_seen' \in [Passes -> [Val!Validator -> {"bonded", "unbonded", "unbonding", "none"}]]
    BY <1>1, <1>7, <1>9, <2>1 DEF Val!TypeOK
  <2>. QED
    BY <1>1, <2>2 DEF Val!TypeOK, Val!Validator, Val!Idle, Val!Saving, Val!Statuses
<1>12. ValidatorsSeen(p)'
  <2>0. val_stage'[p] # Val!Idle
    BY <1>7, <1>10, StatusesAre
  <2>. HIDE DEF saw
  <2>. SUFFICES ASSUME NEW v \in Val!Validator \ val_moved[p], WentBy(p, v)'
                PROVE  saw[v] = val_status[v]
    BY <1>1, <1>10, <2>0 DEF ValidatorsSeen, Val!Validator, Val!Idle
  <2>. USE DEF saw
  <2>1. PICK j \in 1..3 : /\ Val!Statuses[j] = val_status[v]
                          /\ j < to \/ (j = to /\ v < next)
    BY <1>1, <1>10 DEF WentBy
  <2>2. v \in Nat /\ v \in Val!Validator
    BY DEF Val!Validator
  <2>3. v \in page => saw[v] = val_status[v]
    BY <1>3
  <2>4. ASSUME v \notin page
        PROVE  WentBy(p, v)
    <3>1. j < i \/ j = i
      BY <1>2, <1>6, <2>1, <2>2 DEF to
    <3>2. CASE j < i
      BY <2>1, <3>2 DEF WentBy, i
    <3>3. CASE j = i
      <4>1. val_status[v] = s
        BY <2>1, <3>3 DEF s
      <4>2. left # {} => v < next
        BY <2>1, <3>3, <1>2 DEF to
      <4>3. ~(k <= v)
        BY <1>8, <2>2, <2>4, <4>1, <4>2
      <4>. QED
        BY <1>2, <2>1, <2>2, <3>3, <4>3 DEF WentBy, i, k
    <3>. QED
      BY <3>1, <3>2, <3>3
  <2>5. WentBy(p, v) => val_seen[p][v] = val_status[v]
    BY DEF ValidatorsSeen
  <2>. QED
    BY <2>2, <2>3, <2>4, <2>5
<1>13. ASSUME NEW q \in Passes, q # p PROVE ValidatorsSeen(q)'
  BY <1>1, <1>10, <1>13 DEF ValidatorsSeen, WentBy, Val!Validator, Val!Idle, Val!Statuses
<1>. QED
  BY <1>11, <1>12, <1>13

\* A pass that is over relies on nothing.
LEMMA ValidatorsEnd ==
    ASSUME ValidatorsInv, NEW p \in Passes, Val!End(p), UNCHANGED <<val_status, val_moves>>,
           val_row' \in [Val!Validator -> {"bonded", "unbonded", "unbonding", "none"}],
           val_failures' \in 0..MaxFailures
    PROVE  ValidatorsInv'
<1>. USE DEF ValidatorsInv
<1>1. /\ val_stage' = [val_stage EXCEPT ![p] = 0] /\ val_key' = [val_key EXCEPT ![p] = 0]
      /\ val_seen' = [val_seen EXCEPT ![p] = Val!Nothing]
      /\ val_moved' = [val_moved EXCEPT ![p] = {}]
  BY DEF Val!End, Val!Idle
<1>2. /\ Val!Nothing \in [Val!Validator -> {"bonded", "unbonded", "unbonding", "none"}]
      /\ 0 \in 0..MaxValidator /\ 0 \in Val!Idle..Val!Saving
  BY ServicesAssumption, StatusesAre DEF Val!Nothing, Val!ValidatorsAssumption
<1>3. Val!TypeOK'
  <2>1. /\ val_stage' \in [Passes -> Val!Idle..Val!Saving]
        /\ val_key' \in [Passes -> 0..MaxValidator]
        /\ val_seen' \in [Passes -> [Val!Validator -> {"bonded", "unbonded", "unbonding", "none"}]]
        /\ val_moved' \in [Passes -> SUBSET Val!Validator]
    BY <1>1, <1>2 DEF Val!TypeOK
  <2>. QED
    BY <2>1 DEF Val!TypeOK, Val!Validator, Val!Idle, Val!Saving, Val!Statuses
<1>4. ValidatorsSeen(p)'
  <2>1. val_stage'[p] = 0 /\ val_key'[p] = 0
    BY <1>1 DEF Val!TypeOK
  <2>2. \A v \in Val!Validator : ~WentBy(p, v)'
    BY <2>1 DEF WentBy, Val!Validator
  <2>. QED
    BY <2>1, <2>2 DEF ValidatorsSeen, Val!Validator
<1>5. ASSUME NEW q \in Passes, q # p PROVE ValidatorsSeen(q)'
  BY <1>1, <1>5 DEF ValidatorsSeen, WentBy, Val!Validator, Val!Idle, Val!Statuses
<1>. QED
  BY <1>3, <1>4, <1>5

\* Whoever moves is not among those a running pass relies on.
LEMMA ValidatorsMove ==
    ASSUME ValidatorsInv, NEW v \in Val!Validator,
           NEW s \in {"bonded", "unbonded", "unbonding", "gone"}, Val!Move(v, s)
    PROVE  ValidatorsInv'
<1>. USE DEF ValidatorsInv
<1>1. /\ val_status' = [val_status EXCEPT ![v] = s]
      /\ val_moved' = [p \in Passes |-> IF val_stage[p] = Val!Idle THEN {} ELSE val_moved[p] \cup {v}]
      /\ val_moves < MaxMoves /\ val_moves' = val_moves + 1
      /\ UNCHANGED <<val_row, val_stage, val_key, val_seen, val_failures>>
  BY DEF Val!Move
<1>2. Val!TypeOK'
  <2>1. val_moves' \in 0..MaxMoves
    BY <1>1, ServicesAssumption DEF Val!ValidatorsAssumption, Val!TypeOK
  <2>2. /\ val_status' \in [Val!Validator -> {"bonded", "unbonded", "unbonding", "gone"}]
        /\ val_moved' \in [Passes -> SUBSET Val!Validator]
    BY <1>1 DEF Val!TypeOK
  <2>. QED
    BY <1>1, <2>1, <2>2 DEF Val!TypeOK, Val!Validator, Val!Idle, Val!Saving, Val!Statuses
<1>3. ASSUME NEW p \in Passes PROVE ValidatorsSeen(p)'
  <2>1. CASE val_stage[p] = Val!Idle
    <3>1. val_stage'[p] = 0 /\ val_key'[p] = 0
      BY <1>1, <2>1 DEF ValidatorsSeen, Val!Idle
    <3>2. \A w \in Val!Validator : ~WentBy(p, w)'
      BY <3>1 DEF WentBy, Val!Validator
    <3>. QED
      BY <3>1, <3>2 DEF ValidatorsSeen, Val!Validator
  <2>2. CASE val_stage[p] # Val!Idle
    <3>1. val_moved'[p] = val_moved[p] \cup {v}
      BY <1>1, <2>2
    <3>2. \A w \in Val!Validator \ val_moved'[p] : w \notin val_moved[p] /\ val_status'[w] = val_status[w]
      BY <1>1, <3>1 DEF Val!TypeOK
    <3>3. \A w \in Val!Validator \ val_moved'[p] : WentBy(p, w)' => WentBy(p, w)
      BY <1>1, <3>2 DEF WentBy, Val!Statuses
    <3>. QED
      BY <1>1, <2>2, <3>2, <3>3 DEF ValidatorsSeen, Val!Validator, Val!Idle
  <2>. QED
    BY <2>1, <2>2
<1>. QED
  BY <1>2, <1>3

LEMMA ValidatorsBegin ==
    ASSUME ValidatorsInv, NEW p \in Passes, Val!Begin(p)
    PROVE  ValidatorsInv'
<1>. USE DEF ValidatorsInv
<1>1. /\ val_stage[p] = Val!Idle /\ val_stage' = [val_stage EXCEPT ![p] = 1]
      /\ UNCHANGED <<val_status, val_row, val_key, val_seen, val_moved, val_moves, val_failures>>
  BY DEF Val!Begin
<1>2. Val!TypeOK'
  <2>1. 1 \in Val!Idle..Val!Saving
    BY StatusesAre
  <2>2. val_stage' \in [Passes -> Val!Idle..Val!Saving]
    BY <1>1, <2>1 DEF Val!TypeOK
  <2>. QED
    BY <1>1, <2>2 DEF Val!TypeOK, Val!Validator, Val!Idle, Val!Saving, Val!Statuses
<1>3. ValidatorsSeen(p)'
  <2>1. val_stage'[p] = 1 /\ val_key'[p] = 0
    BY <1>1 DEF ValidatorsSeen, Val!TypeOK
  <2>2. \A v \in Val!Validator : ~WentBy(p, v)'
    BY <2>1 DEF WentBy, Val!Validator
  <2>. QED
    BY <2>1, <2>2 DEF ValidatorsSeen, Val!Validator
<1>4. ASSUME NEW q \in Passes, q # p PROVE ValidatorsSeen(q)'
  BY <1>1, <1>4 DEF ValidatorsSeen, WentBy, Val!Validator, Val!Idle, Val!Statuses
<1>. QED
  BY <1>2, <1>3, <1>4

LEMMA ValidatorsStep ==
    ASSUME ValidatorsInv, [Val!Next]_val
    PROVE  ValidatorsInv'
<1>1. CASE UNCHANGED val
  BY <1>1 DEF val, ValidatorsInv, Val!TypeOK, ValidatorsSeen, WentBy, Val!Validator, Val!Idle,
              Val!Saving, Val!Statuses
<1>2. ASSUME NEW p \in Passes, Val!Save(p)
      PROVE  ValidatorsInv'
  <2>1. val_row' \in [Val!Validator -> {"bonded", "unbonded", "unbonding", "none"}]
    BY <1>2 DEF Val!Save, ValidatorsInv, Val!TypeOK
  <2>2. Val!End(p) /\ UNCHANGED <<val_status, val_moves, val_failures>>
    BY <1>2 DEF Val!Save
  <2>3. val_failures' \in 0..MaxFailures
    BY <2>2 DEF ValidatorsInv, Val!TypeOK
  <2>. QED
    BY <2>1, <2>2, <2>3, ValidatorsEnd
<1>3. ASSUME NEW p \in Passes, Val!Fail(p)
      PROVE  ValidatorsInv'
  <2>1. Val!End(p) /\ UNCHANGED <<val_status, val_row, val_moves>>
    BY <1>3 DEF Val!Fail
  <2>2. val_failures' \in 0..MaxFailures
    BY <1>3, ServicesAssumption DEF Val!Fail, Val!ValidatorsAssumption, ValidatorsInv, Val!TypeOK
  <2>3. val_row' \in [Val!Validator -> {"bonded", "unbonded", "unbonding", "none"}]
    BY <2>1 DEF ValidatorsInv, Val!TypeOK
  <2>. QED
    BY <2>1, <2>2, <2>3, ValidatorsEnd
<1>. QED
  BY <1>1, <1>2, <1>3, ValidatorsMove, ValidatorsBegin, ValidatorsRead DEF Val!Next

LEMMA ValidatorsInductive == ServicesSpec => []ValidatorsInv
<1>1. ServicesInit => ValidatorsInv
  <2>. SUFFICES ASSUME Val!Init PROVE ValidatorsInv
    BY DEF ServicesInit
  <2>1. /\ 0 \in 0..MaxValidator /\ 0 \in Val!Idle..Val!Saving
        /\ 0 \in 0..MaxMoves /\ 0 \in 0..MaxFailures
    BY ServicesAssumption, StatusesAre DEF Val!ValidatorsAssumption
  <2>2. Val!TypeOK
    BY <2>1 DEF Val!Init, Val!TypeOK, Val!Nothing, Val!Idle
  <2>3. \A p \in Passes : val_stage[p] = 0 /\ val_key[p] = 0
    BY DEF Val!Init, Val!Idle
  <2>4. \A p \in Passes, v \in Val!Validator : ~WentBy(p, v)
    BY <2>3 DEF WentBy, Val!Validator
  <2>. QED
    BY <2>2, <2>3, <2>4 DEF ValidatorsInv, ValidatorsSeen
<1>2. ValidatorsInv /\ [ServicesNext]_all => ValidatorsInv'
  BY Moves, ValidatorsStep
<1>. QED
  BY <1>1, <1>2, PTL DEF ServicesSpec

\* A pass of basicSync that saves leaves the right status of every validator that
\* did not move meanwhile, for every number of them, every size of a page and
\* however the others move between the lists while they are read.
THEOREM UnmovedAreSaved == ServicesSpec => UnmovedIsCurrent
<1>1. ValidatorsInv /\ [ServicesNext]_all => [Val!SavesUnmoved]_val
  <2>. SUFFICES ASSUME ValidatorsInv, [Val!Next]_val, NEW p \in Passes,
                       val_stage[p] = Val!Saving, val_stage'[p] = Val!Idle,
                       val_failures' = val_failures,
                       \A v \in Val!Validator : val_row'[v] # "none",
                       NEW v \in Val!Validator \ val_moved[p], val_status[v] # "gone"
                PROVE  val_row'[v] = val_status[v]
    BY Moves DEF Val!SavesUnmoved
  <2>1. Val!Save(p)
    <3>1. ~Val!Fail(p)
      BY DEF Val!Fail, ValidatorsInv, Val!TypeOK
    <3>2. val_stage' # val_stage /\ ~Val!Begin(p) /\ ~Val!ReadPage(p)
      BY StatusesAre DEF Val!Begin, Val!ReadPage
    <3>3. \A q \in Passes : q # p =>
              ~Val!Begin(q) /\ ~Val!ReadPage(q) /\ ~Val!Save(q) /\ ~Val!Fail(q)
      <4>1. DOMAIN val_stage = Passes
        BY DEF ValidatorsInv, Val!TypeOK
      <4>2. \A q \in Passes : \A n : q # p => val_stage' # [val_stage EXCEPT ![q] = n]
        BY <4>1, StatusesAre
      <4>. QED
        BY <4>2 DEF Val!Begin, Val!ReadPage, Val!Save, Val!Fail, Val!End
    <3>. QED
      <4>1. UNCHANGED val \/ (\E w \in Val!Validator, s \in {"bonded", "unbonded", "unbonding", "gone"} :
                                 Val!Move(w, s))
            \/ \E q \in Passes : Val!Begin(q) \/ Val!ReadPage(q) \/ Val!Save(q) \/ Val!Fail(q)
        BY DEF Val!Next
      <4>2. ~UNCHANGED val
        BY <3>2 DEF val
      <4>3. \A w, s : ~Val!Move(w, s)
        BY <3>2 DEF Val!Move
      <4>. QED
        BY <3>1, <3>2, <3>3, <4>1, <4>2, <4>3
  <2>2. WentBy(p, v)
    <3>1. PICK i \in 1..3 : Val!Statuses[i] = val_status[v]
      BY StatusesAre DEF ValidatorsInv, Val!TypeOK
    <3>. QED
      BY <3>1, StatusesAre DEF WentBy
  <2>3. val_seen[p][v] = val_status[v]
    BY <2>2 DEF ValidatorsInv, ValidatorsSeen
  <2>4. val_seen[p][v] # "none"
    BY <2>3 DEF ValidatorsInv, Val!TypeOK
  <2>5. \/ val_row' = val_row /\ \E w \in Val!Validator : val_row[w] = "none"
        \/ val_row' = [w \in Val!Validator |-> IF val_seen[p][w] = "none" THEN val_row[w]
                                                ELSE val_seen[p][w]]
    BY <2>1 DEF Val!Save
  <2>. QED
    BY <2>3, <2>4, <2>5
<1>. QED
  BY <1>1, ValidatorsInductive, PTL DEF ServicesSpec, UnmovedIsCurrent

-----------------------------------------------------------------------------
(* Delegations: what a pass has read is in the table, or is saved next.     *)

\* Two passes that run know it of each other.
DelegationsShared ==
    \A p, q \in Passes : del_pc[p] # "idle" /\ del_pc[q] # "idle" /\ p # q => p \in del_shared

\* Where the pass is: a page to save, or the key of the next one.
DelegationsAt(p) ==
    /\ del_pc[p] # "idle" => del_at[p] \in Del!Validator
    /\ del_pc[p] = "list" => del_key[p] # 0
    /\ (del_pc[p] = "save") <=> (del_page[p] # Del!Empty)

\* What is to save is what the chain says, unless it changed.
PageIsCurrent(p) ==
    del_pc[p] # "idle" =>
        \A d \in Del!Delegator :
            <<del_at[p], d>> \notin del_touched[p] /\ del_page[p][d] # 0
            => del_page[p][d] = del_shares[del_at[p]][d]

\* A delegation that did not end, up to the key k of validator v, is in the table or
\* on the page b.
ReadTo(p, v, k, b) ==
    \A w \in Del!Validator, d \in Del!Delegator :
        /\ <<w, d>> \notin del_touched[p] /\ del_shares[w][d] # 0
        /\ w < v \/ (w = v /\ (k = 0 \/ d < k))
        => del_row[w][d] = del_shares[w][d] \/ (w = v /\ b[d] = del_shares[w][d])

DelegationsLone(p) ==
    del_pc[p] # "idle" /\ p \notin del_shared => ReadTo(p, del_at[p], del_key[p], del_page[p])

DelegationsInv ==
    /\ Del!TypeOK /\ DelegationsShared
    /\ \A p \in Passes : DelegationsAt(p) /\ PageIsCurrent(p) /\ DelegationsLone(p)

\* The table is current: what ReadTo says when nothing is left.
Copied(p) ==
    \A w \in Del!Validator, d \in Del!Delegator :
        <<w, d>> \notin del_touched[p] /\ del_shares[w][d] # 0 => del_row'[w][d] = del_shares[w][d]

LEMMA DelegationsAssumed ==
    /\ MaxDelegated \in Nat \ {0} /\ MaxDelegator \in Nat \ {0} /\ MaxShares \in Nat \ {0}
    /\ PageSize \in Nat \ {0} /\ MaxChanges \in Nat /\ MaxFailures \in Nat
    /\ Del!Empty \in Del!Page /\ 0 \in 0..MaxDelegated /\ 0 \in 0..MaxDelegator
BY ServicesAssumption DEF Del!DelegationsAssumption, Del!Empty, Del!Page

\* What a pass has read outlasts the steps of those that it does not know of.
LEMMA DelegationsStay ==
    ASSUME DelegationsInv, NEW q \in Passes,
           del_pc'[q] = del_pc[q], del_at'[q] = del_at[q], del_key'[q] = del_key[q],
           del_page'[q] = del_page[q], del_touched'[q] = del_touched[q], del_shares' = del_shares,
           del_pc[q] # "idle" /\ q \notin del_shared' => q \notin del_shared /\ del_row' = del_row
    PROVE  DelegationsAt(q)' /\ PageIsCurrent(q)' /\ DelegationsLone(q)'
<1>1. DelegationsAt(q) /\ PageIsCurrent(q) /\ DelegationsLone(q)
  BY DEF DelegationsInv
<1>2. DelegationsAt(q)'
  BY <1>1 DEF DelegationsAt, Del!Empty, Del!Delegator, Del!Validator
<1>3. PageIsCurrent(q)'
  BY <1>1 DEF PageIsCurrent, Del!Delegator
<1>4. DelegationsLone(q)'
  <2>. SUFFICES ASSUME del_pc[q] # "idle", q \notin del_shared'
                PROVE  ReadTo(q, del_at[q], del_key[q], del_page[q])'
    BY DEF DelegationsLone
  <2>1. ReadTo(q, del_at[q], del_key[q], del_page[q])
    BY <1>1 DEF DelegationsLone
  <2>. QED
    BY <2>1 DEF ReadTo, Del!Delegator, Del!Validator
<1>. QED
  BY <1>2, <1>3, <1>4

\* A pass that goes on with the page b and the key k is where ReadTo says; if
\* nothing is left it has copied all.
LEMMA GoOnReads ==
    ASSUME DelegationsInv, NEW p \in Passes, del_pc[p] # "idle", NEW b \in Del!Page,
           NEW k \in 0..MaxDelegator, Del!GoOn(p, b, k),
           UNCHANGED <<del_shares, del_bounds>>, del_row' \in [Del!Validator -> Del!Page],
           \A d \in Del!Delegator :
               <<del_at[p], d>> \notin del_touched[p] /\ b[d] # 0 => b[d] = del_shares[del_at[p]][d],
           p \notin del_shared =>
               \A w \in Del!Validator, d \in Del!Delegator :
                   /\ <<w, d>> \notin del_touched[p] /\ del_shares[w][d] # 0
                   /\ w < del_at[p] \/ (w = del_at[p] /\ (k = 0 \/ d < k))
                   => del_row'[w][d] = del_shares[w][d]
                      \/ (w = del_at[p] /\ b[d] = del_shares[w][d]),
           \A q \in Passes \ {p} : del_pc[q] # "idle" /\ q \notin del_shared => del_row' = del_row
    PROVE  /\ DelegationsInv'
           /\ del_pc'[p] = "idle" /\ p \notin del_shared => Copied(p)
<1>. USE DEF DelegationsInv
<1>1. del_at[p] \in Del!Validator /\ del_at[p] \in 1..MaxDelegated /\ MaxDelegated \in Nat
  BY DelegationsAssumed DEF DelegationsAt, Del!Validator
<1>2. CASE b = Del!Empty /\ k = 0 /\ del_at[p] = MaxDelegated
  <2>1. /\ del_pc' = [del_pc EXCEPT ![p] = "idle"] /\ del_at' = [del_at EXCEPT ![p] = 0]
        /\ del_key' = [del_key EXCEPT ![p] = 0] /\ del_page' = [del_page EXCEPT ![p] = Del!Empty]
        /\ del_touched' = [del_touched EXCEPT ![p] = {}] /\ del_shared' = del_shared \ {p}
    BY <1>2 DEF Del!GoOn, Del!End
  <2>2. Del!TypeOK'
    BY <2>1, DelegationsAssumed DEF Del!TypeOK, Del!Page, Del!Validator, Del!Delegator
  <2>3. DelegationsShared'
    BY <2>1 DEF DelegationsShared, Del!TypeOK
  <2>4. DelegationsAt(p)' /\ PageIsCurrent(p)' /\ DelegationsLone(p)'
    BY <2>1 DEF DelegationsAt, PageIsCurrent, DelegationsLone, Del!TypeOK, Del!Empty, Del!Delegator
  <2>5. ASSUME NEW q \in Passes, q # p
        PROVE  DelegationsAt(q)' /\ PageIsCurrent(q)' /\ DelegationsLone(q)'
    <3>1. /\ del_pc'[q] = del_pc[q] /\ del_at'[q] = del_at[q] /\ del_key'[q] = del_key[q]
          /\ del_page'[q] = del_page[q] /\ del_touched'[q] = del_touched[q]
          /\ q \notin del_shared' => q \notin del_shared
      BY <2>1, <2>5
    <3>. QED
      BY <2>5, <3>1, DelegationsStay
  <2>6. p \notin del_shared => Copied(p)
    BY <1>1, <1>2 DEF Copied, Del!Validator, Del!Delegator, Del!Empty
  <2>. QED
    BY <2>2, <2>3, <2>4, <2>5, <2>6
<1>3. CASE ~(b = Del!Empty /\ k = 0 /\ del_at[p] = MaxDelegated)
  <2>. DEFINE on == b = Del!Empty /\ k = 0
              v == IF on THEN del_at[p] + 1 ELSE del_at[p]
              key == IF on THEN 1 ELSE k
              to == IF b = Del!Empty THEN "list" ELSE "save"
  <2>1. /\ del_pc' = [del_pc EXCEPT ![p] = to] /\ del_at' = [del_at EXCEPT ![p] = v]
        /\ del_key' = [del_key EXCEPT ![p] = key] /\ del_page' = [del_page EXCEPT ![p] = b]
        /\ UNCHANGED <<del_touched, del_shared>>
    <3>1. /\ del_pc' = [del_pc EXCEPT ![p] = to] /\ del_page' = [del_page EXCEPT ![p] = b]
          /\ UNCHANGED <<del_touched, del_shared>>
      BY <1>3 DEF Del!GoOn
    <3>2. CASE on
      BY <1>3, <3>1, <3>2 DEF Del!GoOn
    <3>3. CASE ~on
      BY <1>3, <3>1, <3>3 DEF Del!GoOn, Del!TypeOK
    <3>. QED
      BY <3>2, <3>3
  <2>2. v \in Del!Validator /\ v \in 0..MaxDelegated /\ key \in 0..MaxDelegator /\ to # "idle"
    BY <1>1, <1>3, DelegationsAssumed DEF Del!Validator
  <2>3. /\ del_pc'[p] = to /\ del_at'[p] = v /\ del_key'[p] = key /\ del_page'[p] = b
        /\ \A q \in Passes \ {p} : /\ del_pc'[q] = del_pc[q] /\ del_at'[q] = del_at[q]
                                   /\ del_key'[q] = del_key[q] /\ del_page'[q] = del_page[q]
    BY <2>1 DEF Del!TypeOK
  <2>4. Del!TypeOK'
    <3>1. to \in {"idle", "list", "save"}
      OBVIOUS
    <3>. HIDE DEF v, key, to
    <3>. QED
      BY <2>1, <2>2, <3>1 DEF Del!TypeOK, Del!Page, Del!Validator, Del!Delegator
  <2>5. DelegationsShared'
    BY <2>1, <2>3 DEF DelegationsShared
  <2>6. DelegationsAt(p)'
    BY <2>2, <2>3 DEF DelegationsAt, Del!Validator, Del!Empty, Del!Delegator
  <2>7. PageIsCurrent(p)'
    <3>1. CASE on
      BY <2>3, <3>1 DEF PageIsCurrent, Del!Empty, Del!Delegator
    <3>2. CASE ~on
      BY <2>1, <2>3, <3>2 DEF PageIsCurrent, Del!Delegator
    <3>. QED
      BY <3>1, <3>2
  <2>8. DelegationsLone(p)'
    <3>. SUFFICES ASSUME p \notin del_shared, NEW w \in Del!Validator, NEW d \in Del!Delegator,
                         <<w, d>> \notin del_touched[p], del_shares[w][d] # 0,
                         w < v \/ (w = v /\ (key = 0 \/ d < key))
                  PROVE  del_row'[w][d] = del_shares[w][d] \/ (w = v /\ b[d] = del_shares[w][d])
      <4>. HIDE DEF v, key
      <4>. QED
        BY <2>1, <2>3 DEF DelegationsLone, ReadTo, Del!Validator, Del!Delegator
    <3>1. w \in Nat /\ d \in Nat /\ d >= 1
      BY DEF Del!Validator, Del!Delegator
    <3>2. w < del_at[p] \/ (w = del_at[p] /\ (k = 0 \/ d < k))
      BY <1>1, <3>1
    <3>3. del_row'[w][d] = del_shares[w][d] \/ (w = del_at[p] /\ b[d] = del_shares[w][d])
      BY <3>2
    <3>. QED
      BY <3>3 DEF Del!Empty
  <2>9. ASSUME NEW q \in Passes, q # p
        PROVE  DelegationsAt(q)' /\ PageIsCurrent(q)' /\ DelegationsLone(q)'
    BY <2>1, <2>3, <2>9, DelegationsStay
  <2>. QED
    BY <2>2, <2>3, <2>4, <2>5, <2>6, <2>7, <2>8, <2>9
<1>. QED
  BY <1>2, <1>3

\* The page that is read has all delegations up to the key of the next one.
LEMMA DelegationsList ==
    ASSUME DelegationsInv, NEW p \in Passes, Del!List(p)
    PROVE  DelegationsInv' /\ (del_pc'[p] = "idle" /\ p \notin del_shared => Copied(p))
<1>. USE DEF DelegationsInv
<1>. DEFINE v == del_at[p]
            key == del_key[p]
            page == Del!OnPage(v, key)
            left == Del!Rest(v, key) \ page
            k == Del!NextKey(left)
            b == [d \in Del!Delegator |-> IF d \in page THEN del_shares[v][d] ELSE 0]
<1>1. del_pc[p] = "list" /\ Del!GoOn(p, b, k) /\ UNCHANGED <<del_shares, del_row, del_bounds>>
  BY DEF Del!List
<1>2. v \in Del!Validator /\ key \in Nat \ {0} /\ del_page[p] = Del!Empty
  BY <1>1, DelegationsAssumed DEF DelegationsAt, Del!TypeOK
<1>3. /\ \A d \in Del!Delegator : del_shares[v][d] \in 0..MaxShares
      /\ page \subseteq Del!Delegator /\ \A d \in page : del_shares[v][d] # 0
  BY <1>2 DEF Del!TypeOK, Del!Page, Del!OnPage, Del!Rest
<1>4. left \in SUBSET Nat /\ left \subseteq Del!Delegator
  BY DEF Del!Rest, Del!Delegator
<1>5. /\ left = {} => k = 0
      /\ left # {} => k \in left /\ \A x \in left : k <= x
  <2>1. Del!Min(left) = Bal!Min(left)
    BY DEF Del!Min, Bal!Min
  <2>. QED
    BY <1>4, <2>1, MinIsLeast DEF Del!NextKey
<1>6. b \in Del!Page /\ k \in 0..MaxDelegator
  BY <1>3, <1>4, <1>5, DelegationsAssumed DEF Del!Page, Del!Delegator
<1>7. ASSUME NEW d \in Del!Delegator, del_shares[v][d] # 0, key <= d, k = 0 \/ d < k
      PROVE  b[d] = del_shares[v][d]
  <2>1. d \in Del!Rest(v, key) /\ d \in Nat
    BY <1>2, <1>7 DEF Del!Rest, Del!Delegator
  <2>2. d \notin left
    BY <1>4, <1>5, <1>7, <2>1 DEF Del!Delegator
  <2>. QED
    BY <2>1, <2>2
<1>8. \A d \in Del!Delegator : b[d] # 0 => b[d] = del_shares[v][d]
  OBVIOUS
<1>. HIDE DEF page, left, k, b
<1>9. p \notin del_shared =>
        \A w \in Del!Validator, d \in Del!Delegator :
            /\ <<w, d>> \notin del_touched[p] /\ del_shares[w][d] # 0
            /\ w < v \/ (w = v /\ (k = 0 \/ d < k))
            => del_row'[w][d] = del_shares[w][d] \/ (w = v /\ b[d] = del_shares[w][d])
  <2>. SUFFICES ASSUME p \notin del_shared, NEW w \in Del!Validator, NEW d \in Del!Delegator,
                       <<w, d>> \notin del_touched[p], del_shares[w][d] # 0,
                       w < v \/ (w = v /\ (k = 0 \/ d < k))
                PROVE  del_row[w][d] = del_shares[w][d] \/ (w = v /\ b[d] = del_shares[w][d])
    BY <1>1
  <2>1. ReadTo(p, v, key, Del!Empty)
    BY <1>1, <1>2 DEF DelegationsLone
  <2>2. Del!Empty[d] = 0 /\ d \in Nat
    BY DEF Del!Empty, Del!Delegator
  <2>3. CASE w < v \/ (w = v /\ d < key)
    BY <2>1, <2>2, <2>3 DEF ReadTo
  <2>4. CASE ~(w < v \/ (w = v /\ d < key))
    BY <1>2, <1>7, <2>2, <2>4
  <2>. QED
    BY <2>3, <2>4
<1>10. del_row' \in [Del!Validator -> Del!Page]
  BY <1>1 DEF Del!TypeOK
<1>11. \A q \in Passes \ {p} : del_pc[q] # "idle" /\ q \notin del_shared => del_row' = del_row
  BY <1>1
<1>. QED
  BY <1>1, <1>6, <1>8, <1>9, <1>10, <1>11, GoOnReads

\* What is saved is what the chain says, unless it changed.
LEMMA DelegationsSave ==
    ASSUME DelegationsInv, NEW p \in Passes, Del!Save(p)
    PROVE  DelegationsInv' /\ (del_pc'[p] = "idle" /\ p \notin del_shared => Copied(p))
<1>. USE DEF DelegationsInv
<1>. DEFINE v == del_at[p]
            some == {e \in Del!Delegator : del_page[p][e] # 0}
            m == Del!Min(some)
            b == [del_page[p] EXCEPT ![m] = 0]
<1>1. /\ del_pc[p] = "save" /\ Del!GoOn(p, b, del_key[p])
      /\ del_row' = [del_row EXCEPT ![v] = [del_row[v] EXCEPT ![m] = del_page[p][m]]]
      /\ UNCHANGED <<del_shares, del_bounds>>
  BY DEF Del!Save
<1>2. v \in Del!Validator /\ del_page[p] # Del!Empty /\ del_page[p] \in Del!Page
      /\ del_key[p] \in 0..MaxDelegator
  BY <1>1 DEF DelegationsAt, Del!TypeOK
<1>3. m \in Del!Delegator /\ del_page[p][m] # 0
  <2>1. some \in SUBSET Nat
    BY DEF Del!Delegator
  <2>2. some # {}
    BY <1>2 DEF Del!Page, Del!Empty
  <2>3. Del!Min(some) = Bal!Min(some)
    BY DEF Del!Min, Bal!Min
  <2>4. m \in some
    BY <2>1, <2>2, <2>3, MinIsLeast
  <2>. QED
    BY <2>4
<1>. HIDE DEF m, b
<1>4. /\ b \in Del!Page /\ b[m] = 0 /\ \A d \in Del!Delegator : d # m => b[d] = del_page[p][d]
  BY <1>2, <1>3, DelegationsAssumed DEF b, Del!Page
<1>5. [del_row[v] EXCEPT ![m] = del_page[p][m]] \in Del!Page
  BY <1>2, <1>3 DEF Del!TypeOK, Del!Page
<1>6. /\ del_row' \in [Del!Validator -> Del!Page]
      /\ del_row'[v][m] = del_page[p][m]
      /\ \A w \in Del!Validator, d \in Del!Delegator :
             ~(w = v /\ d = m) => del_row'[w][d] = del_row[w][d]
  BY <1>1, <1>2, <1>3, <1>5 DEF Del!TypeOK, Del!Page
<1>7. \A d \in Del!Delegator :
          <<v, d>> \notin del_touched[p] /\ del_page[p][d] # 0 => del_page[p][d] = del_shares[v][d]
  BY <1>1 DEF PageIsCurrent
<1>8. p \notin del_shared =>
        \A w \in Del!Validator, d \in Del!Delegator :
            /\ <<w, d>> \notin del_touched[p] /\ del_shares[w][d] # 0
            /\ w < v \/ (w = v /\ (del_key[p] = 0 \/ d < del_key[p]))
            => del_row'[w][d] = del_shares[w][d] \/ (w = v /\ b[d] = del_shares[w][d])
  <2>. SUFFICES ASSUME p \notin del_shared, NEW w \in Del!Validator, NEW d \in Del!Delegator,
                       <<w, d>> \notin del_touched[p], del_shares[w][d] # 0,
                       w < v \/ (w = v /\ (del_key[p] = 0 \/ d < del_key[p]))
                PROVE  del_row'[w][d] = del_shares[w][d] \/ (w = v /\ b[d] = del_shares[w][d])
    OBVIOUS
  <2>1. del_row[w][d] = del_shares[w][d] \/ (w = v /\ del_page[p][d] = del_shares[w][d])
    BY <1>1 DEF DelegationsLone, ReadTo
  <2>2. CASE w = v /\ d = m
    BY <1>3, <1>6, <1>7, <2>2
  <2>3. CASE ~(w = v /\ d = m)
    BY <1>4, <1>6, <2>1, <2>3
  <2>. QED
    BY <2>2, <2>3
<1>9. \A d \in Del!Delegator :
          <<v, d>> \notin del_touched[p] /\ b[d] # 0 => b[d] = del_shares[v][d]
  BY <1>4, <1>7
<1>10. \A q \in Passes \ {p} : del_pc[q] # "idle" /\ q \notin del_shared => del_row' = del_row
  BY <1>1 DEF DelegationsShared
<1>. QED
  BY <1>1, <1>2, <1>4, <1>6, <1>8, <1>9, <1>10, GoOnReads

LEMMA DelegationsBegin ==
    ASSUME DelegationsInv, NEW p \in Passes, Del!Begin(p)
    PROVE  DelegationsInv'
<1>. USE DEF DelegationsInv
<1>1. /\ del_pc[p] = "idle" /\ del_pc' = [del_pc EXCEPT ![p] = "list"]
      /\ del_at' = [del_at EXCEPT ![p] = 1] /\ del_key' = [del_key EXCEPT ![p] = 1]
      /\ UNCHANGED <<del_shares, del_row, del_page, del_touched, del_bounds>>
  BY DEF Del!Begin
<1>2. del_shared' = IF Del!Running = {} THEN del_shared ELSE del_shared \cup Del!Running \cup {p}
  BY DEF Del!Begin
<1>3. /\ del_pc'[p] = "list" /\ del_at'[p] = 1 /\ del_key'[p] = 1
      /\ \A q \in Passes \ {p} : /\ del_pc'[q] = del_pc[q] /\ del_at'[q] = del_at[q]
                                 /\ del_key'[q] = del_key[q]
  BY <1>1 DEF Del!TypeOK
<1>4. 1 \in Del!Validator /\ 1 \in 0..MaxDelegated /\ 1 \in 0..MaxDelegator
  BY DelegationsAssumed DEF Del!Validator
<1>5. Del!TypeOK'
  <2>1. del_shared' \subseteq Passes
    BY <1>2 DEF Del!TypeOK, Del!Running
  <2>2. /\ del_pc' \in [Passes -> {"idle", "list", "save"}] /\ del_at' \in [Passes -> 0..MaxDelegated]
        /\ del_key' \in [Passes -> 0..MaxDelegator]
    BY <1>1, <1>4 DEF Del!TypeOK
  <2>. QED
    BY <1>1, <2>1, <2>2 DEF Del!TypeOK, Del!Page, Del!Validator, Del!Delegator
<1>6. DelegationsShared'
  BY <1>2, <1>3 DEF DelegationsShared, Del!Running
<1>7. del_page'[p] = Del!Empty
  BY <1>1 DEF DelegationsAt
<1>8. DelegationsAt(p)' /\ PageIsCurrent(p)'
  BY <1>3, <1>4, <1>7 DEF DelegationsAt, PageIsCurrent, Del!Empty, Del!Delegator, Del!Validator
<1>9. DelegationsLone(p)'
  BY <1>3 DEF DelegationsLone, ReadTo, Del!Validator, Del!Delegator
<1>10. ASSUME NEW q \in Passes, q # p
       PROVE  DelegationsAt(q)' /\ PageIsCurrent(q)' /\ DelegationsLone(q)'
  <2>1. q \notin del_shared' => q \notin del_shared
    BY <1>2
  <2>. QED
    BY <1>1, <1>3, <1>10, <2>1, DelegationsStay
<1>. QED
  BY <1>5, <1>6, <1>8, <1>9, <1>10

LEMMA DelegationsFail ==
    ASSUME DelegationsInv, NEW p \in Passes, Del!Fail(p)
    PROVE  DelegationsInv' /\ del_bounds'.failures # del_bounds.failures
<1>. USE DEF DelegationsInv
<1>1. /\ del_pc' = [del_pc EXCEPT ![p] = "idle"] /\ del_at' = [del_at EXCEPT ![p] = 0]
      /\ del_key' = [del_key EXCEPT ![p] = 0] /\ del_page' = [del_page EXCEPT ![p] = Del!Empty]
      /\ del_touched' = [del_touched EXCEPT ![p] = {}] /\ del_shared' = del_shared \ {p}
      /\ UNCHANGED <<del_shares, del_row>>
  BY DEF Del!Fail, Del!End
<1>2. /\ del_bounds.failures < MaxFailures
      /\ del_bounds' = [del_bounds EXCEPT !.failures = del_bounds.failures + 1]
      /\ del_bounds \in [changes : 0..MaxChanges, failures : 0..MaxFailures]
  BY DEF Del!Fail, Del!TypeOK
<1>3. /\ del_bounds' \in [changes : 0..MaxChanges, failures : 0..MaxFailures]
      /\ del_bounds'.failures # del_bounds.failures
  BY <1>2, DelegationsAssumed
<1>4. Del!TypeOK'
  BY <1>1, <1>3, DelegationsAssumed DEF Del!TypeOK, Del!Page, Del!Validator, Del!Delegator
<1>5. DelegationsShared'
  BY <1>1 DEF DelegationsShared, Del!TypeOK
<1>6. DelegationsAt(p)' /\ PageIsCurrent(p)' /\ DelegationsLone(p)'
  BY <1>1 DEF DelegationsAt, PageIsCurrent, DelegationsLone, Del!TypeOK, Del!Empty, Del!Delegator
<1>7. ASSUME NEW q \in Passes, q # p
      PROVE  DelegationsAt(q)' /\ PageIsCurrent(q)' /\ DelegationsLone(q)'
  <2>1. /\ del_pc'[q] = del_pc[q] /\ del_at'[q] = del_at[q] /\ del_key'[q] = del_key[q]
        /\ del_page'[q] = del_page[q] /\ del_touched'[q] = del_touched[q]
        /\ q \notin del_shared' => q \notin del_shared
    BY <1>1, <1>7
  <2>. QED
    BY <1>1, <2>1, DelegationsStay
<1>. QED
  BY <1>3, <1>4, <1>5, <1>6, <1>7

\* A delegation that changes is not among those a running pass relies on.
LEMMA DelegationsChange ==
    ASSUME DelegationsInv, NEW v \in Del!Validator, NEW d \in Del!Delegator,
           NEW n \in 0..MaxShares, Del!Delegate(v, d, n)
    PROVE  DelegationsInv'
<1>. USE DEF DelegationsInv
<1>1. /\ del_shares' = [del_shares EXCEPT ![v] = [del_shares[v] EXCEPT ![d] = n]]
      /\ del_touched' = [p \in Passes |-> IF p \in Del!Running THEN del_touched[p] \cup {<<v, d>>} ELSE {}]
      /\ UNCHANGED <<del_row, del_at, del_key, del_page, del_pc, del_shared>>
  BY DEF Del!Delegate
<1>2. /\ del_bounds.changes < MaxChanges
      /\ del_bounds' = [del_bounds EXCEPT !.changes = del_bounds.changes + 1]
      /\ del_bounds \in [changes : 0..MaxChanges, failures : 0..MaxFailures]
  BY DEF Del!Delegate, Del!TypeOK
<1>3. del_bounds' \in [changes : 0..MaxChanges, failures : 0..MaxFailures]
  BY <1>2, DelegationsAssumed
<1>4. /\ del_shares' \in [Del!Validator -> Del!Page]
      /\ \A w \in Del!Validator, e \in Del!Delegator :
             ~(w = v /\ e = d) => del_shares'[w][e] = del_shares[w][e]
  <2>1. [del_shares[v] EXCEPT ![d] = n] \in Del!Page
    BY DEF Del!TypeOK, Del!Page
  <2>. QED
    BY <1>1, <2>1 DEF Del!TypeOK, Del!Page
<1>5. Del!TypeOK'
  <2>1. del_touched' \in [Passes -> SUBSET (Del!Validator \X Del!Delegator)]
    BY <1>1 DEF Del!TypeOK
  <2>. QED
    BY <1>1, <1>3, <1>4, <2>1 DEF Del!TypeOK, Del!Page, Del!Validator, Del!Delegator
<1>6. DelegationsShared'
  BY <1>1 DEF DelegationsShared
<1>7. ASSUME NEW p \in Passes
      PROVE  DelegationsAt(p)' /\ PageIsCurrent(p)' /\ DelegationsLone(p)'
  <2>1. DelegationsAt(p)'
    BY <1>1 DEF DelegationsAt, Del!Empty, Del!Delegator, Del!Validator
  <2>2. ASSUME del_pc[p] # "idle"
        PROVE  /\ del_at[p] \in Del!Validator
               /\ \A w \in Del!Validator, e \in Del!Delegator :
                      <<w, e>> \notin del_touched'[p] =>
                          <<w, e>> \notin del_touched[p] /\ del_shares'[w][e] = del_shares[w][e]
    <3>1. del_touched'[p] = del_touched[p] \cup {<<v, d>>}
      BY <1>1, <2>2 DEF Del!Running
    <3>. QED
      BY <1>4, <2>2, <3>1 DEF DelegationsAt
  <2>3. PageIsCurrent(p)'
    <3>. SUFFICES ASSUME del_pc[p] # "idle", NEW e \in Del!Delegator,
                         <<del_at[p], e>> \notin del_touched'[p], del_page[p][e] # 0
                  PROVE  del_page[p][e] = del_shares'[del_at[p]][e]
      BY <1>1 DEF PageIsCurrent, Del!Delegator
    <3>. QED
      BY <2>2 DEF PageIsCurrent
  <2>4. DelegationsLone(p)'
    <3>. SUFFICES ASSUME del_pc[p] # "idle", p \notin del_shared,
                         NEW w \in Del!Validator, NEW e \in Del!Delegator,
                         <<w, e>> \notin del_touched'[p], del_shares'[w][e] # 0,
                         w < del_at[p] \/ (w = del_at[p] /\ (del_key[p] = 0 \/ e < del_key[p]))
                  PROVE  \/ del_row[w][e] = del_shares'[w][e]
                         \/ w = del_at[p] /\ del_page[p][e] = del_shares'[w][e]
      BY <1>1 DEF DelegationsLone, ReadTo, Del!Validator, Del!Delegator
    <3>1. <<w, e>> \notin del_touched[p] /\ del_shares'[w][e] = del_shares[w][e]
      BY <2>2
    <3>2. ReadTo(p, del_at[p], del_key[p], del_page[p])
      BY DEF DelegationsLone
    <3>. QED
      BY <3>1, <3>2 DEF ReadTo
  <2>. QED
    BY <2>1, <2>3, <2>4
<1>. QED
  BY <1>5, <1>6, <1>7

LEMMA DelegationsStep ==
    ASSUME DelegationsInv, [Del!Next]_del
    PROVE  DelegationsInv'
<1>1. CASE UNCHANGED del
  <2>1. /\ UNCHANGED <<del_shares, del_row, del_at, del_key, del_page, del_pc, del_touched>>
        /\ UNCHANGED <<del_shared, del_bounds>>
    BY <1>1 DEF del
  <2>2. Del!TypeOK' /\ DelegationsShared'
    BY <2>1 DEF DelegationsInv, Del!TypeOK, DelegationsShared, Del!Page, Del!Validator, Del!Delegator
  <2>3. \A q \in Passes : DelegationsAt(q)' /\ PageIsCurrent(q)' /\ DelegationsLone(q)'
    BY <2>1, DelegationsStay
  <2>. QED
    BY <2>2, <2>3 DEF DelegationsInv
<1>. QED
  BY <1>1, DelegationsChange, DelegationsBegin, DelegationsList, DelegationsSave, DelegationsFail
  DEF Del!Next

LEMMA DelegationsInductive == ServicesSpec => []DelegationsInv
<1>1. ServicesInit => DelegationsInv
  <2>. SUFFICES ASSUME Del!Init PROVE DelegationsInv
    BY DEF ServicesInit
  <2>1. Del!TypeOK
    <3>1. [changes |-> 0, failures |-> 0] \in [changes : 0..MaxChanges, failures : 0..MaxFailures]
      BY DelegationsAssumed
    <3>. QED
      BY <3>1, DelegationsAssumed DEF Del!Init, Del!TypeOK
  <2>2. DelegationsShared
    BY DEF Del!Init, DelegationsShared
  <2>3. \A p \in Passes : DelegationsAt(p) /\ PageIsCurrent(p) /\ DelegationsLone(p)
    BY DEF Del!Init, DelegationsAt, PageIsCurrent, DelegationsLone
  <2>. QED
    BY <2>1, <2>2, <2>3 DEF DelegationsInv
<1>2. DelegationsInv /\ [ServicesNext]_all => DelegationsInv'
  BY Moves, DelegationsStep
<1>. QED
  BY <1>1, <1>2, PTL DEF ServicesSpec

\* When a pass of delegationSync that ran alone ends, the table has the shares of every
\* delegation that did not change or end meanwhile, for all sizes of a page and however
\* the others come and go between the pages.
THEOREM LonePassCopies == ServicesSpec => LonePassIsCurrent
<1>1. DelegationsInv /\ [ServicesNext]_all => [Del!EndsCurrent]_del
  <2>. SUFFICES ASSUME DelegationsInv, [Del!Next]_del, NEW p \in Passes,
                       del_pc[p] # "idle", del_pc'[p] = "idle", p \notin del_shared,
                       del_bounds'.failures = del_bounds.failures
                PROVE  Copied(p)
    BY Moves DEF Del!EndsCurrent, Copied
  <2>1. ~UNCHANGED del /\ \A v, d, n : ~Del!Delegate(v, d, n)
    BY DEF del, Del!Delegate
  <2>2. PICK q \in Passes : Del!Begin(q) \/ Del!List(q) \/ Del!Save(q) \/ Del!Fail(q)
    BY <2>1 DEF Del!Next
  <2>3. ~Del!Fail(q)
    BY DelegationsFail
  <2>4. q = p
    <3>1. DOMAIN del_pc = Passes
      BY DEF DelegationsInv, Del!TypeOK
    <3>2. \E s : del_pc' = [del_pc EXCEPT ![q] = s]
      BY <2>2 DEF Del!Begin, Del!List, Del!Save, Del!Fail, Del!GoOn, Del!End
    <3>. QED
      BY <3>1, <3>2
  <2>5. Del!List(p) \/ Del!Save(p)
    BY <2>2, <2>3, <2>4 DEF Del!Begin
  <2>. QED
    BY <2>5, DelegationsList, DelegationsSave
<1>. QED
  BY <1>1, DelegationsInductive, PTL DEF ServicesSpec, LonePassIsCurrent

-----------------------------------------------------------------------------
(* Market: a process has one answer, and the hours follow each other.       *)

\* The price is that of the answer which the process keeps.
FromAnswer(price, s) ==
    mkt_info # Absence /\ s \in mkt_info.has /\ price = mkt_info.at

MarketRows ==
    \A r \in mkt_rows :
        /\ r.key = Mkt!KeyOf(r.at) /\ r.at <= mkt_now
        /\ mkt_next # 0 \/ ~mkt_fired => r.at < mkt_now

MarketInv ==
    /\ Mkt!TypeOK /\ MarketRows /\ OneHourARow
    /\ mkt_next # 0 => mkt_fired
    /\ \A s \in Mkt!Symbols : mkt_data[s] # 0 => FromAnswer(mkt_data[s], s)

LEMMA MarketAssumed ==
    /\ Stamp \in Seq((1..12) \X (1..31) \X (0..23)) /\ Len(Stamp) \in Nat \ {0}
    /\ Mkt!Times = 1..Len(Stamp) /\ MaxSymbol \in Nat \ {0}
    /\ \A t \in Mkt!Times : /\ Stamp[t][1] \in Int /\ Stamp[t][2] \in Int /\ Stamp[t][3] \in Int
    /\ \A t, u \in Mkt!Times : t < u => Mkt!Less(Stamp[t], Stamp[u])
    /\ Mkt!Zeros \in Mkt!Prices
<1>1. /\ Stamp \in Seq((1..12) \X (1..31) \X (0..23)) /\ Stamp # <<>> /\ MaxSymbol \in Nat \ {0}
      /\ \A t, u \in Mkt!Times : t < u => Mkt!Less(Stamp[t], Stamp[u])
  BY ServicesAssumption DEF Mkt!MarketAssumption
<1>2. Len(Stamp) \in Nat \ {0} /\ Mkt!Times = 1..Len(Stamp)
  BY <1>1 DEF Mkt!Times
<1>3. \A t \in Mkt!Times : Stamp[t] \in (1..12) \X (1..31) \X (0..23)
  BY <1>1, <1>2
<1>4. \A t \in Mkt!Times : Stamp[t][1] \in Int /\ Stamp[t][2] \in Int /\ Stamp[t][3] \in Int
  BY <1>3
<1>5. Mkt!Zeros \in Mkt!Prices
  BY <1>2 DEF Mkt!Zeros, Mkt!Prices
<1>. QED
  BY <1>1, <1>2, <1>4, <1>5

\* Within a month the keys follow the hours.
LEMMA KeysFollow ==
    ASSUME NEW t \in Mkt!Times, NEW u \in Mkt!Times, t < u, Stamp[t][1] = Stamp[u][1]
    PROVE  Mkt!Less(Mkt!KeyOf(t), Mkt!KeyOf(u)) /\ ~Mkt!Less(Mkt!KeyOf(u), Mkt!KeyOf(t))
<1>1. Mkt!Less(Stamp[t], Stamp[u])
  BY MarketAssumed
<1>2. \/ Stamp[t][2] < Stamp[u][2]
      \/ Stamp[t][2] = Stamp[u][2] /\ Stamp[t][3] < Stamp[u][3]
  BY <1>1, MarketAssumed DEF Mkt!Less
<1>3. /\ Mkt!KeyOf(t)[1] = Stamp[t][2] /\ Mkt!KeyOf(t)[2] = Stamp[t][1] /\ Mkt!KeyOf(t)[3] = Stamp[t][3]
      /\ Mkt!KeyOf(u)[1] = Stamp[u][2] /\ Mkt!KeyOf(u)[2] = Stamp[u][1] /\ Mkt!KeyOf(u)[3] = Stamp[u][3]
  BY DEF Mkt!KeyOf
<1>4. ~Mkt!Less(Mkt!KeyOf(u), Mkt!KeyOf(t))
  BY <1>2, <1>3, MarketAssumed DEF Mkt!Less
<1>. QED
  BY <1>2, <1>3, <1>4, MarketAssumed DEF Mkt!Less

LEMMA MarketPrice ==
    ASSUME MarketInv, NEW answer \in Mkt!Answers, Mkt!Price(answer)
    PROVE  MarketInv'
<1>. USE DEF MarketInv
<1>. DEFINE s0 == mkt_next
            price == Mkt!PriceIn(answer, s0)
            prices == [mkt_data EXCEPT ![s0] = price]
            last == s0 = MaxSymbol
            Answered(p, s) == answer # Absence /\ s \in answer.has /\ p = answer.at
            new == [key |-> Mkt!KeyOf(mkt_now), at |-> mkt_now, price |-> prices]
<1>1. /\ s0 # 0 /\ (answer # mkt_info => mkt_info = Absence) /\ mkt_info' = answer
      /\ mkt_next' = (IF last THEN 0 ELSE s0 + 1)
      /\ mkt_data' = (IF last THEN Mkt!Zeros ELSE prices)
      /\ mkt_rows' = (IF last THEN Mkt!Stored(prices) ELSE mkt_rows)
      /\ UNCHANGED <<mkt_now, mkt_fired, mkt_life>>
  BY DEF Mkt!Price, Mkt!Asks
<1>2. /\ s0 \in Mkt!Symbols /\ mkt_now \in Mkt!Times /\ mkt_fired /\ mkt_life \in 1..Len(Stamp)
      /\ mkt_data \in Mkt!Prices
  BY <1>1 DEF Mkt!TypeOK, Mkt!Symbols
<1>3. answer \in [at : Mkt!Times, has : SUBSET Mkt!Symbols] \cup {Absence}
  BY <1>2 DEF Mkt!Answers, Mkt!TypeOK
<1>4. mkt_info # Absence => mkt_info' = mkt_info
  BY <1>1
<1>5. price \in 0..Len(Stamp) /\ (price # 0 => answer # Absence /\ s0 \in answer.has /\ price = answer.at)
  BY <1>3, MarketAssumed DEF Mkt!PriceIn
<1>6. prices \in Mkt!Prices
  BY <1>2, <1>5 DEF Mkt!Prices
<1>7. prices[s0] = price /\ \A s \in Mkt!Symbols : s # s0 => prices[s] = mkt_data[s]
  BY <1>2 DEF Mkt!Prices
<1>. HIDE DEF price, prices
<1>8. ASSUME NEW s \in Mkt!Symbols, prices[s] # 0
      PROVE  Answered(prices[s], s)
  <2>1. CASE s = s0
    BY <1>1, <1>5, <1>7, <1>8, <2>1
  <2>2. CASE s # s0
    BY <1>1, <1>4, <1>7, <1>8, <2>2 DEF FromAnswer
  <2>. QED
    BY <2>1, <2>2
<1>10. CASE ~last
  <2>1. /\ mkt_next' = s0 + 1 /\ mkt_data' = prices /\ mkt_rows' = mkt_rows /\ s0 + 1 \in 0..MaxSymbol
        /\ s0 \in Nat
    BY <1>1, <1>2, <1>10, MarketAssumed DEF Mkt!Symbols
  <2>2. Mkt!TypeOK'
    BY <1>1, <1>3, <1>6, <2>1 DEF Mkt!TypeOK, Mkt!Prices, Mkt!Symbols, Mkt!Times
  <2>3. MarketRows'
    BY <1>1, <2>1 DEF MarketRows, Mkt!KeyOf
  <2>4. OneHourARow'
    BY <2>1 DEF OneHourARow, Mkt!OneHourARow, Mkt!Symbols
  <2>5. mkt_fired' /\ \A s \in Mkt!Symbols : mkt_data'[s] # 0 => Answered(mkt_data'[s], s)
    BY <1>1, <1>2, <1>8, <2>1
  <2>. QED
    BY <1>1, <2>2, <2>3, <2>4, <2>5 DEF FromAnswer, Mkt!Symbols
<1>11. CASE last
  <2>1. /\ mkt_next' = 0 /\ mkt_data' = Mkt!Zeros
        /\ mkt_rows' = {r \in mkt_rows : r.key # Mkt!KeyOf(mkt_now)} \cup {new}
    BY <1>1, <1>11 DEF Mkt!Stored
  <2>2. \A r \in mkt_rows' : r = new \/ r \in mkt_rows
    BY <2>1
  <2>3. new.key = Mkt!KeyOf(new.at) /\ new.at = mkt_now /\ new.price = prices
    OBVIOUS
  <2>. HIDE DEF new
  <2>4. Mkt!TypeOK'
    <3>1. \A r \in mkt_rows' : r.at \in Mkt!Times /\ r.price \in Mkt!Prices
      BY <1>2, <1>6, <2>2, <2>3 DEF Mkt!TypeOK
    <3>2. 0 \in 0..MaxSymbol /\ mkt_info' \in [at : Mkt!Times, has : SUBSET Mkt!Symbols] \cup {Absence}
      BY <1>1, <1>3, MarketAssumed
    <3>. QED
      BY <1>1, <2>1, <3>1, <3>2, MarketAssumed DEF Mkt!TypeOK, Mkt!Prices, Mkt!Symbols, Mkt!Times
  <2>5. MarketRows'
    <3>. SUFFICES ASSUME NEW r \in mkt_rows'
                  PROVE  r.key = Mkt!KeyOf(r.at) /\ r.at <= mkt_now
      BY <1>1, <1>2, <2>1 DEF MarketRows, Mkt!KeyOf
    <3>1. mkt_now \in Int
      BY <1>2, MarketAssumed
    <3>. QED
      BY <2>2, <2>3, <3>1 DEF MarketRows
  <2>6. OneHourARow'
    <3>. SUFFICES ASSUME NEW r \in mkt_rows', NEW s \in Mkt!Symbols, NEW t \in Mkt!Symbols,
                         r.price[s] # 0, r.price[t] # 0
                  PROVE  r.price[s] = r.price[t]
      BY DEF OneHourARow, Mkt!OneHourARow, Mkt!Symbols
    <3>1. CASE r = new
      BY <1>8, <2>3, <3>1
    <3>2. CASE r \in mkt_rows
      BY <3>2 DEF OneHourARow, Mkt!OneHourARow
    <3>. QED
      BY <2>2, <3>1, <3>2
  <2>7. \A s \in Mkt!Symbols : mkt_data'[s] = 0
    BY <2>1 DEF Mkt!Zeros
  <2>. QED
    BY <2>1, <2>4, <2>5, <2>6, <2>7 DEF Mkt!Symbols
<1>. QED
  BY <1>10, <1>11

LEMMA MarketStep ==
    ASSUME MarketInv, [Mkt!Next]_mkt
    PROVE  MarketInv'
<1>. USE DEF MarketInv
<1>1. CASE UNCHANGED mkt
  BY <1>1 DEF mkt, Mkt!TypeOK, MarketRows, OneHourARow, Mkt!OneHourARow, FromAnswer,
              Mkt!KeyOf, Mkt!Symbols, Mkt!Times, Mkt!Prices
<1>2. CASE Mkt!Hour
  <2>. USE <1>2 DEF Mkt!Hour
  <2>1. mkt_now \in Int /\ mkt_now' = mkt_now + 1 /\ mkt_now' \in Mkt!Times
    BY MarketAssumed DEF Mkt!TypeOK
  <2>2. Mkt!TypeOK'
    BY <2>1 DEF Mkt!TypeOK, Mkt!Symbols, Mkt!Times, Mkt!Prices
  <2>3. \A r \in mkt_rows : r.at \in Int /\ r.at <= mkt_now
    BY MarketAssumed DEF Mkt!TypeOK, MarketRows
  <2>4. MarketRows'
    BY <2>1, <2>3 DEF MarketRows, FromAnswer, Mkt!KeyOf, Mkt!Symbols
  <2>. QED
    BY <2>2, <2>4 DEF OneHourARow, Mkt!OneHourARow, FromAnswer, Mkt!Symbols
<1>3. CASE Mkt!Begin
  <2>. USE <1>3 DEF Mkt!Begin
  <2>1. Mkt!TypeOK'
    <3>1. mkt_next' \in 0..MaxSymbol
      BY MarketAssumed
    <3>2. mkt_fired' \in BOOLEAN
      BY Zenon
    <3>. QED
      BY <3>1, <3>2 DEF Mkt!TypeOK, Mkt!Symbols, Mkt!Times, Mkt!Prices
  <2>2. \A s \in Mkt!Symbols : ~(s < mkt_next')
    BY DEF Mkt!Symbols
  <2>3. MarketRows'
    BY <2>2 DEF MarketRows, FromAnswer, Mkt!KeyOf, Mkt!Symbols
  <2>. QED
    BY <2>1, <2>3 DEF OneHourARow, Mkt!OneHourARow, FromAnswer, Mkt!Symbols
<1>4. CASE Mkt!Restart
  <2>. USE <1>4 DEF Mkt!Restart
  <2>1. /\ mkt_life \in Int /\ mkt_life' = mkt_life + 1 /\ mkt_life' \in 1..Len(Stamp)
        /\ mkt_next' = 0 /\ mkt_info' = Absence /\ mkt_data' = Mkt!Zeros
    BY MarketAssumed DEF Mkt!TypeOK
  <2>2. Mkt!TypeOK'
    <3>1. mkt_next' \in 0..MaxSymbol /\ mkt_data' \in Mkt!Prices
      BY <2>1, MarketAssumed
    <3>. QED
      BY <2>1, <3>1 DEF Mkt!TypeOK, Mkt!Symbols, Mkt!Times, Mkt!Prices
  <2>4. MarketRows'
    BY <2>1 DEF MarketRows, Mkt!KeyOf
  <2>5. \A s \in Mkt!Symbols : mkt_data'[s] = 0
    BY <2>1 DEF Mkt!Zeros
  <2>. QED
    BY <2>1, <2>2, <2>4, <2>5 DEF OneHourARow, Mkt!OneHourARow, Mkt!Symbols
<1>5. ASSUME NEW answer \in Mkt!Answers, Mkt!Price(answer) PROVE MarketInv'
  BY <1>5, MarketPrice
<1>. QED
  BY <1>1, <1>2, <1>3, <1>4, <1>5 DEF Mkt!Next

LEMMA MarketStart == Mkt!Init => MarketInv
<1>. SUFFICES ASSUME Mkt!Init PROVE MarketInv
  OBVIOUS
<1>1. mkt_now = 1 /\ mkt_rows = {} /\ mkt_next = 0 /\ mkt_data = Mkt!Zeros /\ mkt_info = Absence /\ mkt_life = 1
  BY DEF Mkt!Init
<1>2. Mkt!TypeOK
  <2>1. 1 \in 1..Len(Stamp) /\ mkt_next \in 0..MaxSymbol /\ mkt_now \in Mkt!Times
    BY <1>1, MarketAssumed
  <2>2. mkt_data \in Mkt!Prices /\ \A r \in mkt_rows : r.price \in Mkt!Prices
    BY <1>1, MarketAssumed
  <2>3. mkt_fired \in BOOLEAN
    BY Zenon DEF Mkt!Init
  <2>. QED
    BY <1>1, <2>1, <2>2, <2>3 DEF Mkt!TypeOK
<1>3. \A s \in Mkt!Symbols : mkt_data[s] = 0
  BY <1>1 DEF Mkt!Zeros
<1>. QED
  BY <1>1, <1>2, <1>3 DEF MarketInv, MarketRows, OneHourARow, Mkt!OneHourARow

THEOREM MarketInductive == ServicesSpec => []MarketInv
<1>1. ServicesInit => MarketInv
  BY MarketStart DEF ServicesInit
<1>2. MarketInv /\ [ServicesNext]_all => MarketInv'
  BY Moves, MarketStep
<1>. QED
  BY <1>1, <1>2, PTL DEF ServicesSpec

\* No row mixes prices of two hours, whatever the API answers, leaves out or rejects
\* while a pass asks for one symbol after the other (MarketScheduler.MarketSync).
THEOREM RowsAreSnapshots == ServicesSpec => []OneHourARow
<1>1. MarketInv => OneHourARow
  BY DEF MarketInv
<1>. QED
  BY <1>1, MarketInductive, PTL

LEMMA LatestIsLast == MarketInv => LatestWithinMonth
<1>. SUFFICES ASSUME MarketInv, \A q, r \in mkt_rows : Stamp[q.at][1] = Stamp[r.at][1],
                     NEW r0 \in mkt_rows
              PROVE  r0.at <= Mkt!Latest.at
  BY DEF LatestWithinMonth, Mkt!LatestWithinMonth
<1>. USE DEF MarketInv
<1>1. \A r \in mkt_rows : r.key = Mkt!KeyOf(r.at) /\ r.at \in Mkt!Times
  BY DEF MarketRows, Mkt!TypeOK
<1>2. \A q, r \in mkt_rows : q.at < r.at => Mkt!Less(q.key, r.key) /\ ~Mkt!Less(r.key, q.key)
  BY <1>1, KeysFollow
<1>. DEFINE Left(r) == Len(Stamp) - r.at
            T == {Left(r) : r \in mkt_rows}
<1>3. T \subseteq Nat /\ T # {}
  BY <1>1, MarketAssumed
<1>4. PICK m \in T : \A n \in T : m <= n
  BY <1>3, MinIsLeast
<1>5. PICK top \in mkt_rows : m = Left(top)
  BY <1>4
<1>6. \A r \in mkt_rows : r.at <= top.at
  <2>1. \A r \in mkt_rows : Left(top) <= Left(r)
    BY <1>4, <1>5
  <2>. QED
    BY <1>1, <2>1, MarketAssumed
<1>7. \A r \in mkt_rows : ~Mkt!Less(top.key, r.key)
  <2>. SUFFICES ASSUME NEW r \in mkt_rows PROVE ~Mkt!Less(top.key, r.key)
    OBVIOUS
  <2>1. CASE r.at < top.at
    BY <1>2, <2>1
  <2>2. CASE r.at = top.at
    BY <1>1, <2>2, MarketAssumed DEF Mkt!Less, Mkt!KeyOf
  <2>. QED
    BY <1>1, <1>6, <2>1, <2>2, MarketAssumed
<1>8. Mkt!Latest \in mkt_rows /\ \A r \in mkt_rows : ~Mkt!Less(Mkt!Latest.key, r.key)
  BY <1>7 DEF Mkt!Latest
<1>9. ~(Mkt!Latest.at < r0.at)
  BY <1>2, <1>8
<1>. QED
  BY <1>1, <1>8, <1>9, MarketAssumed

\* Within a month, the row that fetchLatestMarketData returns is the last one that was
\* saved (market.service.ts).
THEOREM LatestIsTheLastOne == ServicesSpec => []LatestWithinMonth
BY LatestIsLast, MarketInductive, PTL

-----------------------------------------------------------------------------
(* Campaigns.  Unless two requests for a campaign and wallet overlapped, at *)
(* most one of them is on its way, and it saves a row only if there is none. *)

\* Who did not race is looked after by one request at a time ...
OneForEach ==
    \A e \in Cam!Entrants \ cam_raced : \A q, r \in Passes :
        cam_pc[q] # "idle" /\ cam_pc[r] # "idle" /\ cam_for[q] = e /\ cam_for[r] = e => q = r

\* ... which saves the first row.
FirstRow ==
    \A r \in Passes :
        cam_pc[r] = "save" /\ cam_for[r] \notin cam_raced => cam_members[cam_for[r]] = 0

SoleRequest == OneForEach /\ FirstRow /\ Cam!TwiceNeedsOverlap

CampaignsInv == Cam!TypeOK /\ SoleRequest

\* The entrant that the requests begin with is one.
LEMMA SomeEntrant ==
    ASSUME Cam!CampaignsAssumption
    PROVE  (CHOOSE e \in Cam!Entrants : TRUE) \in Cam!Entrants
<1>1. PICK c \in Campaigns, w \in Wallets : TRUE
  BY DEF Cam!CampaignsAssumption
<1>2. <<c, w>> \in Cam!Entrants
  BY <1>1 DEF Cam!Entrants
<1>. QED
  BY <1>2

LEMMA CampaignsInit ==
    ASSUME Cam!CampaignsAssumption, Cam!Init
    PROVE  CampaignsInv
<1>1. MaxMembers \in Nat \ {0}
  BY DEF Cam!CampaignsAssumption
<1>2. cam_for \in [Passes -> Cam!Entrants]
  BY SomeEntrant DEF Cam!Init
<1>3. Cam!TypeOK
  BY <1>1, <1>2 DEF Cam!Init, Cam!TypeOK
<1>4. OneForEach /\ FirstRow
  BY DEF Cam!Init, OneForEach, FirstRow
<1>5. Cam!TwiceNeedsOverlap
  BY DEF Cam!Init, Cam!TwiceNeedsOverlap
<1>. QED
  BY <1>3, <1>4, <1>5 DEF CampaignsInv, SoleRequest

\* A request that moves on or ends, with the rows as they are, keeps the invariant
\* if it is right about having found no row.
LEMMA CampaignsGoto ==
    ASSUME CampaignsInv, NEW r \in Passes, NEW to \in {"idle", "password", "member", "save"},
           cam_pc[r] # "idle", Cam!Goto(r, to), UNCHANGED <<cam_there, cam_members, cam_for, cam_raced>>,
           to = "save" => cam_members[cam_for[r]] = 0
    PROVE  CampaignsInv'
<1>1. /\ cam_pc' = [cam_pc EXCEPT ![r] = to] /\ cam_pc \in [Passes -> {"idle", "password", "member", "save"}]
  BY DEF Cam!Goto, CampaignsInv, Cam!TypeOK
<1>2. Cam!TypeOK'
  BY <1>1 DEF CampaignsInv, Cam!TypeOK
<1>3. \A q \in Passes : cam_pc'[q] # "idle" => cam_pc[q] # "idle"
  BY <1>1
<1>4. OneForEach'
  BY <1>3 DEF CampaignsInv, SoleRequest, OneForEach
<1>5. FirstRow'
  <2>. SUFFICES ASSUME NEW q \in Passes, cam_pc'[q] = "save", cam_for[q] \notin cam_raced
                PROVE  cam_members[cam_for[q]] = 0
    BY DEF FirstRow
  <2>1. CASE q = r
    BY <1>1, <2>1
  <2>2. CASE q # r
    BY <1>1, <2>2 DEF CampaignsInv, SoleRequest, FirstRow
  <2>. QED
    BY <2>1, <2>2
<1>6. Cam!TwiceNeedsOverlap'
  BY DEF CampaignsInv, SoleRequest, Cam!TwiceNeedsOverlap
<1>. QED
  BY <1>2, <1>4, <1>5, <1>6 DEF CampaignsInv, SoleRequest

LEMMA CampaignsRequest ==
    ASSUME CampaignsInv, NEW r \in Passes, NEW e \in Cam!Entrants, Cam!Request(r, e)
    PROVE  CampaignsInv'
<1>1. /\ cam_pc[r] = "idle" /\ cam_pc' = [cam_pc EXCEPT ![r] = "password"]
      /\ cam_for' = [cam_for EXCEPT ![r] = e]
      /\ UNCHANGED <<cam_there, cam_members>>
      /\ cam_raced \subseteq cam_raced' /\ cam_raced' \subseteq cam_raced \cup {e}
      /\ cam_pc \in [Passes -> {"idle", "password", "member", "save"}]
      /\ cam_for \in [Passes -> Cam!Entrants]
  BY DEF Cam!Request, Cam!Goto, CampaignsInv, Cam!TypeOK
<1>2. e \notin cam_raced' => \A q \in Passes \ {r} : ~(cam_pc[q] # "idle" /\ cam_for[q] = e)
  BY DEF Cam!Request
<1>3. Cam!TypeOK'
  BY <1>1 DEF CampaignsInv, Cam!TypeOK
<1>4. \A q \in Passes \ {r} : cam_pc'[q] = cam_pc[q] /\ cam_for'[q] = cam_for[q]
  BY <1>1
<1>5. OneForEach'
  <2>. SUFFICES ASSUME NEW f \in Cam!Entrants, f \notin cam_raced', NEW q \in Passes, NEW s \in Passes,
                       cam_pc'[q] # "idle", cam_pc'[s] # "idle", cam_for'[q] = f, cam_for'[s] = f
                PROVE  q = s
    BY DEF OneForEach
  <2>1. CASE f = e
    BY <1>2, <1>4, <2>1
  <2>2. CASE f # e
    <3>1. q # r /\ s # r
      BY <1>1, <2>2
    <3>. QED
      BY <1>1, <1>4, <3>1 DEF CampaignsInv, SoleRequest, OneForEach
  <2>. QED
    BY <2>1, <2>2
<1>6. FirstRow'
  BY <1>1, <1>4 DEF CampaignsInv, SoleRequest, FirstRow
<1>7. Cam!TwiceNeedsOverlap'
  BY <1>1 DEF CampaignsInv, SoleRequest, Cam!TwiceNeedsOverlap
<1>. QED
  BY <1>3, <1>5, <1>6, <1>7 DEF CampaignsInv, SoleRequest

\* The row that is saved is the first one, or its entrant raced.
LEMMA CampaignsSave ==
    ASSUME Cam!CampaignsAssumption, CampaignsInv, NEW r \in Passes, Cam!Save(r)
    PROVE  CampaignsInv'
<1>. DEFINE e == cam_for[r]
<1>1. /\ cam_pc[r] = "save" /\ cam_pc' = [cam_pc EXCEPT ![r] = "idle"]
      /\ cam_members[e] < MaxMembers /\ cam_members' = [cam_members EXCEPT ![e] = cam_members[e] + 1]
      /\ UNCHANGED <<cam_there, cam_for, cam_raced>>
      /\ cam_pc \in [Passes -> {"idle", "password", "member", "save"}]
      /\ cam_members \in [Cam!Entrants -> 0..MaxMembers] /\ e \in Cam!Entrants
      /\ MaxMembers \in Nat
  BY DEF Cam!Save, Cam!Goto, CampaignsInv, Cam!TypeOK, Cam!CampaignsAssumption
<1>2. Cam!TypeOK'
  <2>1. cam_members[e] + 1 \in 0..MaxMembers
    BY <1>1
  <2>. QED
    BY <1>1, <2>1 DEF CampaignsInv, Cam!TypeOK
<1>3. \A q \in Passes : cam_pc'[q] # "idle" => q # r /\ cam_pc[q] = cam_pc'[q]
  BY <1>1
<1>4. OneForEach'
  BY <1>1, <1>3 DEF CampaignsInv, SoleRequest, OneForEach
<1>5. FirstRow'
  <2>. SUFFICES ASSUME NEW q \in Passes, cam_pc'[q] = "save", cam_for[q] \notin cam_raced
                PROVE  cam_members'[cam_for[q]] = 0
    BY <1>1 DEF FirstRow
  <2>1. q # r /\ cam_pc[q] = "save"
    BY <1>3
  <2>2. cam_for[q] \in Cam!Entrants
    BY DEF CampaignsInv, Cam!TypeOK
  <2>3. cam_for[q] # e
    BY <1>1, <2>1, <2>2 DEF CampaignsInv, SoleRequest, OneForEach
  <2>. QED
    BY <1>1, <2>1, <2>2, <2>3 DEF CampaignsInv, SoleRequest, FirstRow
<1>6. Cam!TwiceNeedsOverlap'
  <2>. SUFFICES ASSUME NEW f \in Cam!Entrants, cam_members'[f] > 1
                PROVE  f \in cam_raced
    BY <1>1 DEF Cam!TwiceNeedsOverlap
  <2>1. CASE f = e
    <3>1. cam_members[e] # 0
      BY <1>1, <2>1
    <3>. QED
      BY <1>1, <2>1, <3>1 DEF CampaignsInv, SoleRequest, FirstRow
  <2>2. CASE f # e
    BY <1>1, <2>2 DEF CampaignsInv, SoleRequest, Cam!TwiceNeedsOverlap
  <2>. QED
    BY <2>1, <2>2
<1>. QED
  BY <1>2, <1>4, <1>5, <1>6 DEF CampaignsInv, SoleRequest

LEMMA CampaignsStep ==
    ASSUME Cam!CampaignsAssumption, CampaignsInv, [Cam!Next]_cam
    PROVE  CampaignsInv'
<1>1. ASSUME NEW c \in Campaigns, Cam!Make(c)
      PROVE  CampaignsInv'
  BY <1>1 DEF Cam!Make, CampaignsInv, Cam!TypeOK, SoleRequest, OneForEach, FirstRow,
         Cam!TwiceNeedsOverlap
<1>2. ASSUME NEW r \in Passes, NEW e \in Cam!Entrants, Cam!Request(r, e)
      PROVE  CampaignsInv'
  BY <1>2, CampaignsRequest
<1>3. ASSUME NEW r \in Passes, NEW right \in BOOLEAN, Cam!Compare(r, right)
      PROVE  CampaignsInv'
  <2>1. cam_pc[r] = "password" /\ Cam!Goto(r, IF right THEN "member" ELSE "idle")
        /\ UNCHANGED <<cam_there, cam_members, cam_for, cam_raced>>
    BY <1>3 DEF Cam!Compare
  <2>2. PICK to \in {"member", "idle"} : Cam!Goto(r, to)
    BY <2>1
  <2>. QED
    BY <2>1, <2>2, CampaignsGoto
<1>4. ASSUME NEW r \in Passes, Cam!FindMember(r)
      PROVE  CampaignsInv'
  <2>1. cam_pc[r] = "member"
        /\ Cam!Goto(r, IF cam_members[cam_for[r]] # 0 THEN "idle" ELSE "save")
        /\ UNCHANGED <<cam_there, cam_members, cam_for, cam_raced>>
    BY <1>4 DEF Cam!FindMember, Cam!Participates
  <2>2. PICK to \in {"idle", "save"} :
           Cam!Goto(r, to) /\ (to = "save" => cam_members[cam_for[r]] = 0)
    BY <2>1
  <2>. QED
    BY <2>1, <2>2, CampaignsGoto
<1>5. ASSUME NEW r \in Passes, Cam!Save(r)
      PROVE  CampaignsInv'
  BY <1>5, CampaignsSave
<1>6. ASSUME NEW r \in Passes, Cam!Fail(r)
      PROVE  CampaignsInv'
  BY <1>6, CampaignsGoto DEF Cam!Fail
<1>7. ASSUME UNCHANGED cam
      PROVE  CampaignsInv'
  BY <1>7 DEF cam, CampaignsInv, Cam!TypeOK, SoleRequest, OneForEach, FirstRow,
         Cam!TwiceNeedsOverlap
<1>. QED
  BY <1>1, <1>2, <1>3, <1>4, <1>5, <1>6, <1>7 DEF Cam!Next

LEMMA CampaignsInductive == ServicesSpec => []CampaignsInv
<1>1. ServicesInit => CampaignsInv
  BY CampaignsInit, ServicesAssumption DEF ServicesInit
<1>2. CampaignsInv /\ [ServicesNext]_all => CampaignsInv'
  BY CampaignsStep, Moves, ServicesAssumption
<1>. QED
  BY <1>1, <1>2, PTL DEF ServicesSpec

LEMMA CampaignsTyped == ServicesSpec => []Cam!TypeOK
<1>1. CampaignsInv => Cam!TypeOK
  BY DEF CampaignsInv
<1>. QED
  BY <1>1, CampaignsInductive, PTL

\* A wallet is twice in a campaign only if two of its requests for it overlapped,
\* however many requests there are (MillionsController.participateCampaign).
THEOREM NobodyIsTwice == ServicesSpec => []TwiceNeedsOverlap
<1>1. CampaignsInv => TwiceNeedsOverlap
  BY DEF CampaignsInv, SoleRequest, TwiceNeedsOverlap
<1>. QED
  BY <1>1, CampaignsInductive, PTL

-----------------------------------------------------------------------------
(* Metrics: what MetricsProofs shows holds of this part, whatever the others *)
(* do.                                                                      *)

MetP == INSTANCE MetricsProofs WITH
          None <- Absence, chain <- met_chain, gauge <- met_gauge,
          page <- met_page, counted <- met_counted, kept <- met_kept,
          disturbed <- met_disturbed, bounds <- met_bounds

LEMMA MetricsNames ==
    /\ MetP!Items = Met!Items /\ MetP!Deposits = Met!Deposits /\ MetP!States = Met!States
    /\ MetP!Nothing = Met!Nothing /\ MetP!Running = Met!Running
    /\ MetP!LastPage = Met!LastPage /\ MetP!Broadcast = Met!Broadcast
    /\ \A k : MetP!ItemOf(k) = Met!ItemOf(k)
    /\ \A c : MetP!Held(c) = Met!Held(c)
    /\ \A c, s : MetP!CountIn(c, s) = Met!CountIn(c, s)
<1>1. MetP!Items = Met!Items /\ MetP!Deposits = Met!Deposits /\ MetP!States = Met!States
  BY DEF MetP!Items, Met!Items, MetP!Deposits, Met!Deposits, MetP!States, Met!States
<1>2. MetP!LastPage = Met!LastPage /\ MetP!Broadcast = Met!Broadcast
  BY DEF MetP!LastPage, Met!LastPage, MetP!Broadcast, Met!Broadcast
<1>3. MetP!Nothing = Met!Nothing /\ MetP!Running = Met!Running
  BY <1>1 DEF MetP!Nothing, Met!Nothing, MetP!Running, Met!Running
<1>4. \A k : MetP!ItemOf(k) = Met!ItemOf(k)
  BY DEF MetP!ItemOf, Met!ItemOf
<1>5. \A c : MetP!Held(c) = Met!Held(c)
  BY <1>1 DEF MetP!Held, Met!Held
<1>6. \A c, s : MetP!CountIn(c, s) = Met!CountIn(c, s)
  <2>. SUFFICES ASSUME NEW c, NEW s
                PROVE  MetP!CountIn(c, s) = Met!CountIn(c, s)
    OBVIOUS
  <2>1. {i \in MetP!Items : c[i] = s} = {i \in Met!Items : c[i] = s}
    BY <1>1
  <2>2. ASSUME NEW S
        PROVE  MetP!Cardinality(S) = Met!Cardinality(S)
    BY DEF MetP!Cardinality, Met!Cardinality
  <2>. QED
    BY <2>1, <2>2 DEF MetP!CountIn, Met!CountIn
<1>. QED
  BY <1>1, <1>2, <1>3, <1>4, <1>5, <1>6

LEMMA MetricsMove == MetP!MetricsAssumption /\ (ServicesSpec => MetP!Spec)
<1>1. MetP!MetricsAssumption
  BY ServicesAssumption, MetricsNames DEF Met!MetricsAssumption, MetP!MetricsAssumption
<1>2. ServicesInit => MetP!Init
  BY MetricsNames DEF ServicesInit, Met!Init, MetP!Init
<1>3. \A c : Met!Change(c) = MetP!Change(c)
  BY MetricsNames DEF Met!Change, MetP!Change
<1>4. /\ \A d, s : /\ Met!Deposit(d, s) => MetP!Deposit(d, s)
                   /\ Met!Withdraw(d, s) => MetP!Withdraw(d, s)
                   /\ Met!Unbond(d, s) => MetP!Unbond(d, s)
  BY <1>3 DEF Met!Deposit, MetP!Deposit, Met!Withdraw, MetP!Withdraw, Met!Unbond, MetP!Unbond
<1>5. \A p : Met!Begin(p) => MetP!Begin(p)
  BY MetricsNames DEF Met!Begin, MetP!Begin, Met!Fresh, MetP!Fresh
<1>6. \A p : Met!ReadPage(p) => MetP!ReadPage(p)
  BY MetricsNames DEF Met!ReadPage, MetP!ReadPage
<1>7. \A p : Met!SetGauges(p) = MetP!SetGauges(p)
  BY MetricsNames DEF Met!SetGauges, MetP!SetGauges, Met!End, MetP!End
<1>8. \A p : Met!Fail(p) => MetP!Fail(p)
  BY MetricsNames DEF Met!Fail, MetP!Fail, Met!End, MetP!End
<1>9. [ServicesNext]_all => [MetP!Next]_MetP!vars
  BY <1>4, <1>5, <1>6, <1>7, <1>8, Moves, MetricsNames DEF met, MetP!vars, Met!Next, MetP!Next
<1>. QED
  BY <1>1, <1>2, <1>9, PTL DEF ServicesSpec, MetP!Spec

\* Whatever happens meanwhile, a pass counts every deposit that was there when it began
\* and has not left the chain (MetricScheduler.updateMillionsBasic).
THEOREM KeptIsCounted == ServicesSpec => []KeptAreCounted
<1>1. MetP!Spec => []MetP!KeptAreCounted
  BY MetricsMove, MetP!NothingKeptIsMissed
<1>2. MetP!KeptAreCounted => KeptAreCounted
  BY MetricsNames DEF MetP!KeptAreCounted, KeptAreCounted, Met!KeptAreCounted
<1>. QED
  BY <1>1, <1>2, MetricsMove, PTL

\* A pass that nothing disturbed leaves the right count on every gauge but those whose
\* state nothing is in (MetricScheduler.updateMillionsBasic).
THEOREM UndisturbedCounts == ServicesSpec => UndisturbedGauges
<1>1. MetP!Spec => [][MetP!SetsCounts]_MetP!vars
  BY MetricsMove, MetP!UndisturbedIsCounted DEF MetP!UndisturbedGauges
<1>2. [MetP!SetsCounts]_MetP!vars => [Met!SetsCounts]_met
  <2>1. \A p : Met!SetGauges(p) = MetP!SetGauges(p)
    BY MetricsNames DEF Met!SetGauges, MetP!SetGauges, Met!End, MetP!End
  <2>. QED
    BY <2>1, MetricsNames DEF MetP!SetsCounts, Met!SetsCounts, MetP!vars, met
<1>. QED
  BY <1>1, <1>2, MetricsMove, PTL DEF UndisturbedGauges

LEMMA MetricsTyped == ServicesSpec => []Met!TypeOK
<1>1. MetP!Spec => []MetP!TypeOK
  BY MetricsMove, MetP!TypeCorrect
<1>2. MetP!TypeOK => Met!TypeOK
  BY MetricsNames DEF MetP!TypeOK, Met!TypeOK
<1>. QED
  BY <1>1, <1>2, MetricsMove, PTL

-----------------------------------------------------------------------------
(* The neighbours in the ranking.  What a request relies on as long as the  *)
(* ranking is steady: every row that is there is the one that the chain's   *)
(* deposits give, and so is every row that a pass will write (Steady).      *)

NeiP == INSTANCE MillionsDepositorsProofs WITH
          Passes <- Ranking, Failing <- Ranking, deposit <- nei_deposit,
          table <- nei_table, pc <- nei_pc, page <- nei_page, read <- nei_read,
          known <- nei_known, shared <- nei_shared

LEMMA RankingNames ==
    /\ NeiP!Deposits = Nei!Deposits /\ NeiP!States = Nei!States
    /\ NeiP!NoRow = Nei!NoRow /\ NeiP!Running = Nei!Running
    /\ \A r : NeiP!Depositors(r) = Nei!Depositors(r)
    /\ \A r, a : NeiP!RawAmount(r, a) = Nei!RawAmount(r, a)
    /\ \A r, a : NeiP!RowOf(r, a) = Nei!RowOf(r, a)
    /\ \A S : NeiP!Cardinality(S) = Nei!Cardinality(S)
<1>1. NeiP!Deposits = Nei!Deposits /\ NeiP!States = Nei!States
  BY DEF NeiP!Deposits, Nei!Deposits, NeiP!States, Nei!States
<1>2. NeiP!NoRow = Nei!NoRow /\ NeiP!Running = Nei!Running
  BY DEF NeiP!NoRow, Nei!NoRow, NeiP!Running, Nei!Running
<1>3. ASSUME NEW S
      PROVE  NeiP!Cardinality(S) = Nei!Cardinality(S)
  BY DEF NeiP!Cardinality, Nei!Cardinality
<1>4. ASSUME NEW r, NEW a
      PROVE  NeiP!Counted(r, a) = Nei!Counted(r, a)
  BY <1>1 DEF NeiP!Counted, Nei!Counted
<1>5. ASSUME NEW r
      PROVE  NeiP!Depositors(r) = Nei!Depositors(r)
  BY <1>4 DEF NeiP!Depositors, Nei!Depositors
<1>6. ASSUME NEW r, NEW a
      PROVE  NeiP!RawAmount(r, a) = Nei!RawAmount(r, a)
  BY <1>4 DEF NeiP!RawAmount, Nei!RawAmount, NeiP!MapThenSumSet, Nei!MapThenSumSet,
              NeiP!MapThenFoldSet, Nei!MapThenFoldSet
<1>7. ASSUME NEW r, NEW a, NEW b
      PROVE  NeiP!Precedes(r, a, b) <=> Nei!Precedes(r, a, b)
  BY <1>4, <1>6 DEF NeiP!Precedes, Nei!Precedes, NeiP!Min, Nei!Min
<1>8. ASSUME NEW r, NEW a
      PROVE  NeiP!RowOf(r, a) = Nei!RowOf(r, a)
  <2>1. {b \in NeiP!Depositors(r) : NeiP!Precedes(r, b, a)}
        = {b \in Nei!Depositors(r) : Nei!Precedes(r, b, a)}
    BY <1>5, <1>7
  <2>. QED
    BY <1>3, <1>6, <2>1 DEF NeiP!RowOf, Nei!RowOf
<1>. QED
  BY <1>1, <1>2, <1>3, <1>5, <1>6, <1>8

LEMMA RankingMove ==
    NeiP!MillionsDepositorsAssumption /\ (ServicesSpec => NeiP!Spec)
<1>1. NeiP!MillionsDepositorsAssumption
  BY ServicesAssumption
     DEF Nei!NeighboursAssumption, NeiP!MillionsDepositorsAssumption, Nei!MillionsDepositorsAssumption,
         NeiP!IsFiniteSet, Nei!IsFiniteSet
<1>2. ServicesInit => NeiP!Init
  BY RankingNames DEF ServicesInit, Nei!Init, NeiP!Init
<1>3. ASSUME NEW p
      PROVE  Nei!End(p) => NeiP!End(p)
  BY RankingNames DEF Nei!End, NeiP!End, Nei!Goto, NeiP!Goto
<1>4. ASSUME NEW d, NEW s
      PROVE  Nei!Change(d, s) => NeiP!Change(d, s)
  BY DEF Nei!Change, NeiP!Change
<1>5. ASSUME NEW p
      PROVE  Nei!Begin(p) => NeiP!Begin(p)
  BY RankingNames DEF Nei!Begin, NeiP!Begin, Nei!Goto, NeiP!Goto
<1>6. ASSUME NEW p
      PROVE  Nei!ReadPage(p) => NeiP!ReadPage(p)
  BY DEF Nei!ReadPage, NeiP!ReadPage, Nei!Goto, NeiP!Goto
<1>7. ASSUME NEW p
      PROVE  Nei!Delete(p) => NeiP!Delete(p)
  BY RankingNames DEF Nei!Delete, NeiP!Delete, Nei!Goto, NeiP!Goto
<1>8. ASSUME NEW p
      PROVE  Nei!Select(p) => NeiP!Select(p)
  BY RankingNames DEF Nei!Select, NeiP!Select, Nei!Goto, NeiP!Goto
<1>9. ASSUME NEW p
      PROVE  NeiP!Inserted(p) = Nei!Inserted(p)
  BY RankingNames DEF Nei!Inserted, NeiP!Inserted
<1>10. ASSUME NEW p
       PROVE  NeiP!Written(p) = Nei!Written(p)
  BY <1>9, RankingNames DEF Nei!Written, NeiP!Written
<1>11. ASSUME NEW p
       PROVE  Nei!Write(p) => NeiP!Write(p)
  BY <1>9, <1>10, RankingNames DEF Nei!Write, NeiP!Write, Nei!Goto, NeiP!Goto
<1>12. ASSUME NEW p
       PROVE  Nei!WriteConflicts(p) => NeiP!WriteConflicts(p)
  BY <1>3, <1>9, RankingNames DEF Nei!WriteConflicts, NeiP!WriteConflicts
<1>13. ASSUME NEW p
       PROVE  /\ Nei!Finish(p) => NeiP!Finish(p)
              /\ Nei!Fail(p) => NeiP!Fail(p)
  BY <1>3 DEF Nei!Finish, NeiP!Finish, Nei!Fail, NeiP!Fail
<1>14. Nei!Next => NeiP!Next
  BY <1>4, <1>5, <1>6, <1>7, <1>8, <1>11, <1>12, <1>13, RankingNames
     DEF Nei!Next, NeiP!Next, Nei!Pass, NeiP!Pass
<1>15. [Nei!RequestNext]_nei => [NeiP!Next]_NeiP!vars
  BY <1>14 DEF Nei!RequestNext, Nei!FindOwn, Nei!FindBefore, Nei!FindAfter, Nei!Answer, nei,
               Nei!vars, NeiP!vars
<1>16. [ServicesNext]_all => [NeiP!Next]_NeiP!vars
  BY <1>15, Moves
<1>. QED
  BY <1>1, <1>2, <1>16, PTL DEF ServicesSpec, NeiP!Spec

LEMMA RankingTyped == ServicesSpec => []Nei!TypeOK
<1>1. NeiP!Spec => []NeiP!TypeOK
  BY RankingMove, NeiP!TypeCorrect
<1>2. NeiP!TypeOK => Nei!TypeOK
  BY RankingNames DEF NeiP!TypeOK, Nei!TypeOK
<1>. QED
  BY <1>1, <1>2, RankingMove, PTL

\* The rows that the chain's deposits give.
Ranks == [a \in Addresses |-> Nei!RowOf(nei_deposit, a)]

LEMMA RanksStay ==
    /\ nei_deposit' = nei_deposit => Ranks' = Ranks
    /\ Nei!NoRow' = Nei!NoRow
<1>1. Nei!NoRow' = Nei!NoRow
  BY DEF Nei!NoRow
<1>3. ASSUME nei_deposit' = nei_deposit PROVE Ranks' = Ranks
  BY <1>3 DEF Ranks, Nei!RowOf, Nei!RawAmount, Nei!Precedes, Nei!Counted, Nei!Depositors,
              Nei!Deposits, Nei!MapThenSumSet, Nei!MapThenFoldSet, Nei!Min, Nei!Cardinality
<1>. QED
  BY <1>1, <1>3

\* What a pass has read is what the chain has.
ReadsCurrent(p) ==
    \A d \in Nei!Deposits :
        nei_pc[p] = "idle" \/ (nei_pc[p] = "pages" /\ d >= nei_page[p]) \/ nei_read[p][d] = nei_deposit[d]

RowsCurrent == \A a \in Addresses : nei_table[a] = Nei!NoRow \/ nei_table[a] = Ranks[a]

OwnCurrent == nei_own.address \in Addresses /\ nei_own.rank = Ranks[nei_own.address].rank

Neighbour(b, k) == b = Absence \/ (b \in Addresses /\ Ranks[b].rank = k)

Steady ==
    /\ nei_step # "idle" /\ OwnCurrent /\ RowsCurrent
    /\ \A p \in Ranking : ReadsCurrent(p)
    /\ Neighbour(nei_before, nei_own.rank - 1) /\ Neighbour(nei_after, nei_own.rank + 1)

\* A pass begins with the first page.
FirstPage == \A p \in Ranking : nei_pc[p] # "pages" => nei_page[p] = 1

\* Before a request has looked for a neighbour it has none.
NotYet ==
    /\ nei_step \in {"idle", "before"} => nei_before = Absence
    /\ nei_step # "answered" => nei_after = Absence

RequestInv == Nei!RequestTypeOK /\ FirstPage /\ NotYet /\ (nei_steady => Steady)

LEMMA RankIsPositive == \A a \in Addresses : Ranks[a].rank \in Nat \ {0} /\ Ranks[a] # Nei!NoRow
BY RankingMove, RankingNames, NeiP!RowIs DEF Ranks

\* What the request itself does.
LEMMA RequestSteps ==
    ASSUME Nei!TypeOK, RequestInv, UNCHANGED Nei!vars,
           (\E a \in Addresses : Nei!FindOwn(a)) \/ Nei!FindBefore \/ Nei!FindAfter \/ Nei!Answer
    PROVE  RequestInv'
<1>1. Ranks' = Ranks /\ Nei!NoRow' = Nei!NoRow
  BY RanksStay DEF Nei!vars
<1>2. FirstPage' /\ (RowsCurrent => RowsCurrent') /\ \A p \in Ranking : ReadsCurrent(p) => ReadsCurrent(p)'
  BY <1>1 DEF Nei!vars, RequestInv, FirstPage, RowsCurrent, ReadsCurrent, Nei!Deposits
<1>3. ASSUME NEW a \in Addresses, Nei!FindOwn(a)
      PROVE  RequestInv'
  <2>1. /\ nei_step = "idle" /\ nei_step' = "before" /\ nei_table[a] # Nei!NoRow
        /\ nei_own' = [address |-> a, rank |-> nei_table[a].rank]
        /\ nei_before' = Absence /\ nei_after' = Absence
    BY <1>3 DEF Nei!FindOwn, RequestInv, NotYet
  <2>2. nei_steady' = Nei!Current
    BY <1>3 DEF Nei!FindOwn
  <2>3. Nei!RequestTypeOK'
    <3>1. nei_steady' \in BOOLEAN
      <4>1. Nei!Current \in BOOLEAN
        BY Zenon DEF Nei!Current
      <4>. QED
        BY <2>2, <4>1
    <3>2. nei_own' \in [address : Addresses \cup {Absence}, rank : Nat]
      BY <2>1 DEF Nei!TypeOK
    <3>. QED
      BY <2>1, <3>1, <3>2 DEF Nei!RequestTypeOK
  <2>4. ASSUME Nei!Current
        PROVE  Steady'
    <3>1. RowsCurrent /\ \A p \in Ranking : ReadsCurrent(p)
      BY <2>4 DEF Nei!Current, RowsCurrent, ReadsCurrent, Ranks
    <3>2. OwnCurrent'
      BY <1>1, <2>1, <3>1 DEF OwnCurrent, RowsCurrent
    <3>. QED
      BY <1>2, <2>1, <3>1, <3>2 DEF Steady, Neighbour
  <2>. QED
    BY <1>2, <2>1, <2>2, <2>3, <2>4 DEF RequestInv, NotYet
<1>4. ASSUME NEW k
      PROVE  \A b \in Nei!AtRank(k) :
                b \in Addresses \cup {Absence} /\ (RowsCurrent => Neighbour(b, k))
  BY DEF Nei!AtRank, RowsCurrent, Neighbour
<1>5. ASSUME Nei!FindBefore
      PROVE  RequestInv'
  <2>1. /\ nei_step' = "after" /\ nei_step = "before" /\ nei_before' \in Nei!AtRank(nei_own.rank - 1)
        /\ UNCHANGED <<nei_own, nei_after, nei_steady>>
    BY <1>5 DEF Nei!FindBefore
  <2>2. Nei!RequestTypeOK'
    BY <1>4, <2>1 DEF RequestInv, Nei!RequestTypeOK
  <2>3. Steady => Steady'
    <3>1. OwnCurrent => OwnCurrent'
      BY <1>1, <2>1 DEF OwnCurrent
    <3>2. Steady => Neighbour(nei_before, nei_own.rank - 1)'
      BY <1>1, <1>4, <2>1 DEF Steady, Neighbour
    <3>3. Steady => Neighbour(nei_after, nei_own.rank + 1)'
      BY <1>1, <2>1 DEF Steady, Neighbour
    <3>. QED
      BY <1>2, <2>1, <3>1, <3>2, <3>3 DEF Steady
  <2>. QED
    BY <1>2, <2>1, <2>2, <2>3 DEF RequestInv, NotYet
<1>6. ASSUME Nei!FindAfter
      PROVE  RequestInv'
  <2>1. /\ nei_step' = "answered" /\ nei_step = "after" /\ nei_after' \in Nei!AtRank(nei_own.rank + 1)
        /\ UNCHANGED <<nei_own, nei_before, nei_steady>>
    BY <1>6 DEF Nei!FindAfter
  <2>2. Nei!RequestTypeOK'
    BY <1>4, <2>1 DEF RequestInv, Nei!RequestTypeOK
  <2>3. Steady => Steady'
    <3>1. OwnCurrent => OwnCurrent'
      BY <1>1, <2>1 DEF OwnCurrent
    <3>2. Steady => Neighbour(nei_after, nei_own.rank + 1)'
      BY <1>1, <1>4, <2>1 DEF Steady, Neighbour
    <3>3. Steady => Neighbour(nei_before, nei_own.rank - 1)'
      BY <1>1, <2>1 DEF Steady, Neighbour
    <3>. QED
      BY <1>2, <2>1, <3>1, <3>2, <3>3 DEF Steady
  <2>. QED
    BY <1>2, <2>1, <2>2, <2>3 DEF RequestInv, NotYet
<1>7. ASSUME Nei!Answer
      PROVE  RequestInv'
  BY <1>2, <1>7 DEF Nei!Answer, Nei!NoOwn, RequestInv, NotYet, Nei!RequestTypeOK
<1>. QED
  BY <1>3, <1>5, <1>6, <1>7

\* What the passes do, as long as the chain's deposits stay as they are.
LEMMA PassSteps ==
    ASSUME Nei!TypeOK, RequestInv, Nei!Next, nei_deposit' = nei_deposit, UNCHANGED Nei!request,
           Steady
    PROVE  Steady'
<1>1. Ranks' = Ranks /\ Nei!NoRow' = Nei!NoRow
  BY RanksStay
<1>2. UNCHANGED <<nei_step, nei_own, nei_before, nei_after>>
  BY DEF Nei!request
<1>3. ASSUME RowsCurrent', \A p \in Ranking : ReadsCurrent(p)'
      PROVE  Steady'
  BY <1>1, <1>2, <1>3 DEF Steady, OwnCurrent, Neighbour
<1>4. \A q \in Ranking : nei_pc'[q] = nei_pc[q] /\ nei_page'[q] = nei_page[q] /\ nei_read'[q] = nei_read[q]
                         => ReadsCurrent(q)'
  BY DEF ReadsCurrent, Steady, Nei!Deposits
<1>5. nei_table' = nei_table => RowsCurrent'
  BY <1>1 DEF Steady, RowsCurrent
<1>6. ASSUME NEW p \in Ranking, Nei!End(p)
      PROVE  Steady'
  <2>1. /\ nei_pc' = [nei_pc EXCEPT ![p] = "idle"] /\ nei_table' = nei_table
        /\ \A q \in Ranking \ {p} : nei_page'[q] = nei_page[q] /\ nei_read'[q] = nei_read[q]
    BY <1>6 DEF Nei!End, Nei!Goto, Nei!TypeOK
  <2>2. ReadsCurrent(p)'
    BY <2>1 DEF ReadsCurrent, Nei!TypeOK, Nei!Deposits
  <2>. QED
    BY <1>3, <1>4, <1>5, <2>1, <2>2 DEF Nei!TypeOK
<1>7. ASSUME NEW p \in Ranking, Nei!Begin(p)
      PROVE  Steady'
  <2>1. /\ nei_pc[p] = "idle" /\ nei_pc' = [nei_pc EXCEPT ![p] = "pages"] /\ nei_table' = nei_table
        /\ nei_page' = nei_page /\ nei_read' = nei_read
    BY <1>7 DEF Nei!Begin, Nei!Goto
  <2>2. nei_page[p] = 1
    BY <2>1 DEF RequestInv, FirstPage
  <2>3. ReadsCurrent(p)'
    BY <2>1, <2>2 DEF ReadsCurrent, Nei!TypeOK, Nei!Deposits
  <2>. QED
    BY <1>3, <1>4, <1>5, <2>1, <2>3 DEF Nei!TypeOK
<1>8. ASSUME NEW p \in Ranking, Nei!ReadPage(p)
      PROVE  Steady'
  <2>. DEFINE d == nei_page[p]
  <2>1. /\ nei_pc[p] = "pages" /\ nei_table' = nei_table
        /\ nei_read' = [nei_read EXCEPT ![p] = [nei_read[p] EXCEPT ![d] = nei_deposit[d]]]
    BY <1>8 DEF Nei!ReadPage
  <2>2. \A q \in Ranking \ {p} :
           nei_pc'[q] = nei_pc[q] /\ nei_page'[q] = nei_page[q] /\ nei_read'[q] = nei_read[q]
    BY <1>8 DEF Nei!ReadPage, Nei!Goto, Nei!TypeOK
  <2>3. /\ nei_read[p] \in [Nei!Deposits -> Nei!States] /\ d \in 1..MaxDeposit
        /\ \A e \in 1..MaxDeposit : e >= d \/ nei_read[p][e] = nei_deposit[e]
    BY <2>1 DEF Nei!TypeOK, Nei!Deposits, Steady, ReadsCurrent
  <2>4. \A e \in 1..MaxDeposit : e > d \/ nei_read'[p][e] = nei_deposit[e]
    <3>1. nei_read'[p] = [nei_read[p] EXCEPT ![d] = nei_deposit[d]]
      BY <2>1 DEF Nei!TypeOK
    <3>. QED
      <4>1. ASSUME NEW e \in 1..MaxDeposit, ~(e > d)
            PROVE  nei_read'[p][e] = nei_deposit[e]
        <5>1. e \in Nei!Deposits /\ d \in Nei!Deposits /\ nei_read[p] \in [Nei!Deposits -> Nei!States]
          BY <2>3 DEF Nei!Deposits
        <5>2. CASE e = d
          BY <3>1, <5>1, <5>2
        <5>3. CASE e # d
          <6>1. nei_read'[p][e] = nei_read[p][e]
            BY <3>1, <5>1, <5>3
          <6>2. ~(e >= d)
            BY <2>3, <4>1, <5>3
          <6>. QED
            BY <2>3, <6>1, <6>2
        <5>. QED
          BY <5>2, <5>3
      <4>. QED
        BY <4>1
  <2>5. \/ d < MaxDeposit /\ nei_page'[p] = d + 1 /\ nei_pc'[p] = "pages"
        \/ ~(d < MaxDeposit)
    BY <1>8, <2>1 DEF Nei!ReadPage, Nei!TypeOK
  <2>6. ReadsCurrent(p)'
    BY <2>3, <2>4, <2>5, ServicesAssumption
       DEF ReadsCurrent, Nei!Deposits, Nei!NeighboursAssumption, Nei!MillionsDepositorsAssumption
  <2>. QED
    BY <1>3, <1>4, <1>5, <2>1, <2>2, <2>6
<1>9. ASSUME NEW p \in Ranking, nei_pc[p] \in {"delete", "select", "write"}, nei_read' = nei_read,
             nei_page' = nei_page, NEW to \in {"select", "write", "done"}, nei_pc' = [nei_pc EXCEPT ![p] = to]
      PROVE  \A q \in Ranking : ReadsCurrent(q)'
  <2>1. ReadsCurrent(p)'
    BY <1>9 DEF ReadsCurrent, Steady, Nei!TypeOK, Nei!Deposits
  <2>. QED
    BY <1>4, <1>9, <2>1 DEF Nei!TypeOK
<1>10. ASSUME NEW p \in Ranking, Nei!Delete(p)
       PROVE  Steady'
  <2>1. RowsCurrent'
    BY <1>1, <1>10 DEF Nei!Delete, RowsCurrent
  <2>. QED
    BY <1>3, <1>9, <1>10, <2>1 DEF Nei!Delete, Nei!Goto
<1>11. ASSUME NEW p \in Ranking, Nei!Select(p)
       PROVE  Steady'
  BY <1>3, <1>5, <1>9, <1>11 DEF Nei!Select, Nei!Goto
<1>12. ASSUME NEW p \in Ranking, Nei!Write(p)
       PROVE  Steady'
  <2>1. nei_read[p] = nei_deposit
    <3>1. \A d \in Nei!Deposits : nei_read[p][d] = nei_deposit[d]
      BY <1>12 DEF Steady, ReadsCurrent, Nei!Write
    <3>. QED
      BY <3>1 DEF Nei!TypeOK
  <2>2. RowsCurrent'
    BY <1>1, <1>12, <2>1 DEF Nei!Write, Nei!Written, Steady, RowsCurrent, Ranks
  <2>. QED
    BY <1>3, <1>9, <1>12, <2>2 DEF Nei!Write, Nei!Goto
<1>13. ASSUME NEW d \in Nei!Deposits, NEW s \in Nei!States, Nei!Change(d, s)
       PROVE  Steady'
  BY <1>3, <1>4, <1>5, <1>13 DEF Nei!Change
<1>. QED
  BY <1>6, <1>7, <1>8, <1>10, <1>11, <1>12, <1>13
     DEF Nei!Next, Nei!Pass, Nei!WriteConflicts, Nei!Finish, Nei!Fail

LEMMA FirstPageStays ==
    ASSUME Nei!TypeOK, FirstPage, Nei!Next
    PROVE  FirstPage'
<1>1. ASSUME NEW p \in Ranking, Nei!End(p) PROVE FirstPage'
  BY <1>1 DEF FirstPage, Nei!End, Nei!Goto, Nei!TypeOK
<1>2. ASSUME NEW p \in Ranking, Nei!Begin(p) \/ Nei!Delete(p) \/ Nei!Select(p) \/ Nei!Write(p)
      PROVE  FirstPage'
  BY <1>2 DEF FirstPage, Nei!Begin, Nei!Delete, Nei!Select, Nei!Write, Nei!Goto, Nei!TypeOK
<1>3. ASSUME NEW p \in Ranking, Nei!ReadPage(p) PROVE FirstPage'
  BY <1>3 DEF FirstPage, Nei!ReadPage, Nei!Goto, Nei!TypeOK
<1>4. ASSUME NEW d \in Nei!Deposits, NEW s \in Nei!States, Nei!Change(d, s) PROVE FirstPage'
  BY <1>4 DEF FirstPage, Nei!Change
<1>. QED
  BY <1>1, <1>2, <1>3, <1>4
     DEF Nei!Next, Nei!Pass, Nei!WriteConflicts, Nei!Finish, Nei!Fail

LEMMA RequestStep ==
    ASSUME Nei!TypeOK, RequestInv, [Nei!RequestNext]_nei
    PROVE  RequestInv'
<1>1. ASSUME Nei!Next, nei_steady' = (nei_steady /\ nei_deposit' = nei_deposit),
             UNCHANGED <<nei_step, nei_own, nei_before, nei_after>>
      PROVE  RequestInv'
  <2>1. FirstPage'
    BY <1>1, FirstPageStays DEF RequestInv
  <2>2. NotYet'
    BY <1>1 DEF RequestInv, NotYet
  <2>3. nei_steady' \in BOOLEAN
    BY <1>1, Zenon
  <2>4. Nei!RequestTypeOK'
    BY <1>1, <2>3 DEF RequestInv, Nei!RequestTypeOK
  <2>5. ASSUME nei_steady' PROVE Steady'
    <3>1. nei_steady /\ nei_deposit' = nei_deposit
      BY <1>1, <2>5, Zenon
    <3>. QED
      BY <1>1, <3>1, PassSteps DEF RequestInv, Nei!request
  <2>. QED
    BY <2>1, <2>2, <2>4, <2>5 DEF RequestInv
<1>2. ASSUME UNCHANGED nei
      PROVE  RequestInv'
  <2>1. Ranks' = Ranks /\ Nei!NoRow' = Nei!NoRow
    BY <1>2, RanksStay DEF nei
  <2>2. Steady => Steady'
    BY <1>2, <2>1 DEF nei, Steady, OwnCurrent, RowsCurrent, ReadsCurrent, Neighbour, Nei!Deposits
  <2>. QED
    BY <1>2, <2>2 DEF nei, RequestInv, FirstPage, NotYet, Nei!RequestTypeOK
<1>. QED
  BY <1>1, <1>2, RequestSteps DEF Nei!RequestNext

LEMMA RequestInductive == ServicesSpec => []RequestInv
<1>1. ServicesInit => RequestInv
  <2>. SUFFICES ASSUME ServicesInit PROVE RequestInv
    OBVIOUS
  <2>1. /\ nei_step = "idle" /\ nei_own = [address |-> Absence, rank |-> 0]
        /\ nei_before = Absence /\ nei_after = Absence
    BY DEF ServicesInit, Nei!RequestInit, Nei!NoOwn
  <2>2. nei_steady = FALSE
    BY DEF ServicesInit, Nei!RequestInit
  <2>3. FirstPage
    BY DEF ServicesInit, Nei!Init, FirstPage
  <2>4. nei_steady \in BOOLEAN /\ ~nei_steady
    BY <2>2, Zenon
  <2>. QED
    BY <2>1, <2>3, <2>4 DEF RequestInv, Nei!RequestTypeOK, NotYet
<1>2. Nei!TypeOK /\ RequestInv /\ [ServicesNext]_all => RequestInv'
  BY RequestStep, Moves
<1>. QED
  BY <1>1, <1>2, RankingTyped, PTL DEF ServicesSpec

\* While the deposits stay as they are, the answer names the right neighbours or leaves
\* one out, although the ranking is deleted and saved again between its three reads
\* (MillionsController.depositorsByPoolIdAndAddress).
THEOREM NeighboursAreRight == ServicesSpec => []SteadyNeighbours
<1>1. RequestInv => SteadyNeighbours
  <2>. SUFFICES ASSUME RequestInv, nei_step = "answered", nei_steady
                PROVE  LET rank(a) == IF a = Absence THEN 0 ELSE Nei!RowOf(nei_deposit, a).rank
                       IN /\ nei_before = Absence \/ rank(nei_before) = rank(nei_own.address) - 1
                          /\ nei_after = Absence \/ rank(nei_after) = rank(nei_own.address) + 1
    BY DEF SteadyNeighbours, Nei!SteadyNeighbours
  <2>1. Steady
    BY DEF RequestInv
  <2>2. Absence \notin Addresses
    BY ServicesAssumption DEF Nei!NeighboursAssumption
  <2>. QED
    BY <2>1, <2>2 DEF Steady, OwnCurrent, Neighbour, Ranks
<1>. QED
  BY <1>1, RequestInductive, PTL

-----------------------------------------------------------------------------
(* Pages: rows that are stored meanwhile only move the others on to later   *)
(* pages, so that what the client was not given is still in front of him.   *)

Ahead(r, S) == {q \in S : Time[q] > Time[r]}
AloneIn(r, S) == \A q \in S \ {r} : Time[q] # Time[r]

\* The row r is on the client's next page of S, or on a later one.
Behind(r, S) == r \in S /\ pag_page * Limit <= Cardinality(Ahead(r, S))

ByTime(s) == \A i, j \in 1..Len(s) : i < j => Time[s[i]] >= Time[s[j]]

\* The entry holds its page of the rows that there were.
HasPage(e) == \E s \in Pag!SetToSeqs(e.of) : ByTime(s) /\ e.rows = Pag!Page(s, e.page)

IsPage(e) ==
    e \in Pag!Entry /\ e.query <= pag_queries /\ e.of \subseteq pag_stored /\ HasPage(e)

Cached == {k \in Pag!Pages : pag_cache[k] # Absence}
Entries == pag_filling \cup {pag_cache[k] : k \in Cached}

EntriesInv ==
    /\ \A e \in Entries : IsPage(e)
    /\ \A k \in Cached : pag_cache[k].page = k
    /\ \A e, f \in Entries : e.query <= f.query => e.of \subseteq f.of

WalkInv ==
    pag_page # -1 /\ ~pag_stale =>
        \A r \in pag_began \ pag_got : AloneIn(r, pag_stored) =>
            /\ Behind(r, pag_stored)
            /\ \A e \in Entries : pag_last <= e.query => Behind(r, e.of)

PagesInv == Pag!TypeOK /\ EntriesInv /\ WalkInv /\ PagesMissNothing

LEMMA PagesAssumed ==
    /\ Time \in Seq(Nat) /\ Len(Time) \in Nat /\ Pag!Rows = 1..Len(Time)
    /\ \A r \in Pag!Rows : Time[r] \in Nat
    /\ Limit \in Nat \ {0} /\ MaxQueries \in Nat
    /\ IsFiniteSet(Pag!Rows) /\ Cardinality(Pag!Rows) = Len(Time)
<1>1. Time \in Seq(Nat) /\ Limit \in Nat \ {0} /\ MaxQueries \in Nat
  BY ServicesAssumption DEF Pag!ApiPagesAssumption
<1>2. Len(Time) \in Nat /\ Pag!Rows = 1..Len(Time)
  BY <1>1 DEF Pag!Rows
<1>3. \A r \in Pag!Rows : Time[r] \in Nat
  BY <1>1, <1>2
<1>4. IsFiniteSet(1..Len(Time)) /\ Cardinality(1..Len(Time)) = Len(Time)
  <2>. DEFINE n == Len(Time)
  <2>. HIDE DEF n
  <2>1. n \in Nat
    BY <1>2 DEF n
  <2>2. IsFiniteSet(1..n) /\ Cardinality(1..n) = IF 1 > n THEN 0 ELSE n - 1 + 1
    BY <2>1, FS_Interval
  <2>3. IsFiniteSet(1..n) /\ Cardinality(1..n) = n
    BY <2>1, <2>2
  <2>. QED
    BY <2>3 DEF n
<1>. QED
  BY <1>1, <1>2, <1>3, <1>4

LEMMA Limits ==
    ASSUME NEW k \in Nat
    PROVE  /\ k * Limit \in Nat /\ (k + 1) * Limit = k * Limit + Limit /\ k <= k * Limit
           /\ Pag!Skip(k) = k * Limit
<1>1. Limit \in Nat /\ Limit >= 1
  BY PagesAssumed
<1>2. k * Limit \in Nat /\ (k + 1) * Limit = k * Limit + Limit
  BY <1>1
<1>3. k <= k * Limit
  BY <1>1
<1>. QED
  BY <1>2, <1>3 DEF Pag!Skip

\* The cardinality that the module speaks of.
LEMMA SameCardinality == \A S : Pag!Cardinality(S) = Cardinality(S)
<1>. SUFFICES ASSUME NEW S
              PROVE  Pag!Cardinality(S) = Cardinality(S)
  OBVIOUS
<1>. QED
  BY DEF Pag!Cardinality, Cardinality

\* A set of rows and one that has more of them.
LEMMA AheadGrows ==
    ASSUME NEW S \in SUBSET Pag!Rows, NEW T \in SUBSET S, NEW r
    PROVE  /\ Cardinality(Ahead(r, T)) \in Nat /\ Cardinality(Ahead(r, S)) \in Nat
           /\ Cardinality(Ahead(r, T)) <= Cardinality(Ahead(r, S))
           /\ AloneIn(r, S) => AloneIn(r, T)
<1>1. IsFiniteSet(Ahead(r, S)) /\ Ahead(r, T) \in SUBSET Ahead(r, S)
  BY PagesAssumed, FS_Subset DEF Ahead
<1>2. IsFiniteSet(Ahead(r, T)) /\ Cardinality(Ahead(r, T)) <= Cardinality(Ahead(r, S))
  BY <1>1, FS_Subset
<1>3. AloneIn(r, S) => AloneIn(r, T)
  BY DEF AloneIn
<1>. QED
  BY <1>1, <1>2, <1>3, FS_CardinalityType

\* The order of the rows has each of them once.
LEMMA OrderIs ==
    ASSUME NEW S \in SUBSET Pag!Rows, NEW s \in Pag!SetToSeqs(S)
    PROVE  /\ Len(s) \in Nat /\ Len(s) = Cardinality(S) /\ Len(s) <= Len(Time)
           /\ s \in [1..Len(s) -> S]
           /\ \A i, j \in 1..Len(s) : i # j => s[i] # s[j]
           /\ \A r \in S : \E i \in 1..Len(s) : s[i] = r
<1>. DEFINE n == Cardinality(S)
<1>1. IsFiniteSet(S) /\ n \in Nat /\ n <= Len(Time)
  BY PagesAssumed, FS_Subset, FS_CardinalityType
<1>2. s \in [1..n -> S] /\ \A i, j \in 1..n : i # j => s[i] # s[j]
  BY SameCardinality DEF Pag!SetToSeqs
<1>3. Len(s) = n
  BY <1>1, <1>2
<1>4. s \in Injection(1..n, S)
  BY <1>2 DEF Injection, IsInjective
<1>5. Cardinality(1..n) = n
  BY <1>1, FS_Interval
<1>6. s \in Surjection(1..n, S)
  BY <1>1, <1>4, <1>5, FS_Injection
<1>7. \A r \in S : \E i \in 1..n : s[i] = r
  BY <1>6 DEF Surjection
<1>8. s \in [1..Len(s) -> S] /\ \A i, j \in 1..Len(s) : i # j => s[i] # s[j]
  BY <1>2, <1>3
<1>9. \A r \in S : \E i \in 1..Len(s) : s[i] = r
  BY <1>3, <1>7
<1>. QED
  BY <1>1, <1>3, <1>8, <1>9

\* Those before a row that is alone in its time are the later ones.
LEMMA AheadAre ==
    ASSUME NEW S \in SUBSET Pag!Rows, NEW s \in Pag!SetToSeqs(S), ByTime(s),
           NEW i \in 1..Len(s), AloneIn(s[i], S)
    PROVE  Cardinality(Ahead(s[i], S)) = i - 1
<1>. DEFINE r == s[i]
            f == [j \in 1..(i - 1) |-> s[j]]
<1>1. /\ Len(s) \in Nat /\ s \in [1..Len(s) -> S] /\ r \in S
      /\ \A j, k \in 1..Len(s) : j # k => s[j] # s[k]
      /\ \A q \in S : \E j \in 1..Len(s) : s[j] = q
  BY OrderIs
<1>2. \A j \in 1..(i - 1) : j \in 1..Len(s) /\ j < i
  BY <1>1
<1>3. \A q \in S : Time[q] \in Nat
  BY PagesAssumed
<1>4. ASSUME NEW j \in 1..(i - 1)
      PROVE  s[j] \in Ahead(r, S)
  <2>1. s[j] \in S /\ s[j] # r /\ Time[s[j]] >= Time[r]
    BY <1>1, <1>2 DEF ByTime
  <2>2. Time[s[j]] # Time[r]
    BY <2>1 DEF AloneIn
  <2>3. Time[s[j]] > Time[r]
    BY <1>1, <1>3, <2>1, <2>2
  <2>. QED
    BY <2>1, <2>3 DEF Ahead
<1>5. ASSUME NEW q \in Ahead(r, S)
      PROVE  \E j \in 1..(i - 1) : s[j] = q
  <2>1. q \in S /\ Time[q] > Time[r]
    BY DEF Ahead
  <2>2. PICK j \in 1..Len(s) : s[j] = q
    BY <1>1, <2>1
  <2>3. ~(i < j) /\ i # j
    <3>1. ~(Time[r] >= Time[q])
      BY <1>1, <1>3, <2>1
    <3>2. i < j => Time[r] >= Time[q]
      BY <2>2 DEF ByTime
    <3>3. Time[q] # Time[r]
      BY <1>1, <1>3, <2>1
    <3>. QED
      BY <2>2, <3>1, <3>2, <3>3
  <2>4. j \in 1..(i - 1)
    BY <1>1, <2>3
  <2>. QED
    BY <2>2, <2>4
<1>6. f \in Bijection(1..(i - 1), Ahead(r, S))
  <2>1. f \in [1..(i - 1) -> Ahead(r, S)]
    BY <1>4
  <2>2. \A j, k \in 1..(i - 1) : f[j] = f[k] => j = k
    BY <1>1, <1>2
  <2>3. \A q \in Ahead(r, S) : \E j \in 1..(i - 1) : f[j] = q
    BY <1>5
  <2>. QED
    BY <2>1, <2>2, <2>3 DEF Bijection, Injection, IsInjective, Surjection
<1>7. IsFiniteSet(1..(i - 1)) /\ Cardinality(1..(i - 1)) = i - 1
  <2>1. i \in Nat /\ i >= 1 /\ i - 1 \in Int /\ 1 \in Int
    BY <1>1
  <2>2. IsFiniteSet(1..(i - 1)) /\ Cardinality(1..(i - 1)) = IF 1 > i - 1 THEN 0 ELSE (i - 1) - 1 + 1
    BY <2>1, FS_Interval
  <2>. QED
    BY <2>1, <2>2
<1>8. ExistsBijection(1..(i - 1), Ahead(r, S))
  BY <1>6 DEF ExistsBijection
<1>. QED
  BY <1>7, <1>8, FS_Bijection

\* What a page does not have of the rows that follow is on the next one, and the page is
\* full and not the last one that there can be.
LEMMA PageHas ==
    ASSUME NEW e \in Pag!Entry, HasPage(e), NEW r \in e.of \ e.rows, AloneIn(r, e.of),
           e.page * Limit <= Cardinality(Ahead(r, e.of))
    PROVE  /\ (e.page + 1) * Limit <= Cardinality(Ahead(r, e.of))
           /\ Limit <= Cardinality(e.rows) /\ e.page # Len(Time)
<1>. DEFINE k == e.page
            from == k * Limit
<1>1. PICK s \in Pag!SetToSeqs(e.of) : ByTime(s) /\ e.rows = Pag!Page(s, k)
  BY DEF HasPage
<1>2. e.of \in SUBSET Pag!Rows /\ k \in 0..Len(Time) /\ k \in Nat
  BY PagesAssumed DEF Pag!Entry, Pag!Pages
<1>3. /\ Len(s) \in Nat /\ Len(s) <= Len(Time) /\ s \in [1..Len(s) -> e.of]
      /\ \A i, j \in 1..Len(s) : i # j => s[i] # s[j]
  BY <1>2, OrderIs
<1>4. PICK i \in 1..Len(s) : s[i] = r
  BY <1>2, OrderIs
<1>5. Cardinality(Ahead(r, e.of)) = i - 1
  BY <1>1, <1>2, <1>4, AheadAre
<1>6. /\ from \in Nat /\ (k + 1) * Limit = from + Limit /\ k <= from /\ Pag!Skip(k) = from
      /\ Limit \in Nat \ {0}
  BY <1>2, Limits, PagesAssumed
<1>7. e.rows = {s[j] : j \in {h \in 1..Len(s) : from < h /\ h <= from + Limit}}
  BY <1>1, <1>6 DEF Pag!Page
<1>. HIDE DEF from, k
<1>8. from <= i - 1
  BY <1>5 DEF from, k
<1>9. ~(from < i /\ i <= from + Limit)
  BY <1>4, <1>7
<1>10. from + Limit <= i - 1 /\ from + Limit <= Len(s)
  BY <1>3, <1>6, <1>8, <1>9
<1>11. e.page # Len(Time)
  BY <1>2, <1>3, <1>6, <1>10, PagesAssumed DEF k
<1>12. Limit <= Cardinality(e.rows)
  <2>. DEFINE f == [j \in 1..Limit |-> s[from + j]]
  <2>1. \A j \in 1..Limit : from + j \in 1..Len(s) /\ from < from + j /\ from + j <= from + Limit
    BY <1>3, <1>6, <1>10
  <2>2. \A j \in 1..Limit : s[from + j] \in e.rows
    BY <1>7, <2>1
  <2>3. \A j, h \in 1..Limit : f[j] = f[h] => j = h
    <3>. SUFFICES ASSUME NEW j \in 1..Limit, NEW h \in 1..Limit, s[from + j] = s[from + h]
                  PROVE  j = h
      OBVIOUS
    <3>1. from + j = from + h
      BY <1>3, <2>1
    <3>. QED
      BY <1>6, <3>1
  <2>4. f \in Injection(1..Limit, e.rows)
    <3>1. f \in [1..Limit -> e.rows]
      BY <2>2
    <3>. QED
      BY <2>3, <3>1 DEF Injection, IsInjective
  <2>5. IsFiniteSet(e.rows)
    <3>1. e.rows \in SUBSET Pag!Rows
      BY DEF Pag!Entry
    <3>. QED
      BY <3>1, PagesAssumed, FS_Subset
  <2>6. Cardinality(1..Limit) = Limit
    BY <1>6, FS_Interval
  <2>. QED
    BY <2>4, <2>5, <2>6, FS_Injection
<1>. QED
  BY <1>5, <1>6, <1>10, <1>11, <1>12 DEF k

-----------------------------------------------------------------------------

\* A client who waits, while rows are added, and entries of what was stored.
LEMMA PagesKept ==
    ASSUME PagesInv, \A e \in Entries' : e \in Entries \/ e.of = pag_stored, Pag!TypeOK', EntriesInv',
           pag_stored \subseteq pag_stored', UNCHANGED <<pag_page, pag_got, pag_began, pag_last, pag_stale>>
    PROVE  PagesInv'
<1>1. pag_stored' \in SUBSET Pag!Rows
  BY DEF Pag!TypeOK, Pag!Rows
<1>2. \A r : AloneIn(r, pag_stored') => AloneIn(r, pag_stored)
  BY DEF AloneIn
<1>3. WalkInv'
  <2>. SUFFICES ASSUME pag_page # -1, ~pag_stale, NEW r \in pag_began \ pag_got, AloneIn(r, pag_stored')
                PROVE  /\ r \in pag_stored' /\ pag_page * Limit <= Cardinality(Ahead(r, pag_stored'))
                       /\ \A e \in Entries' : pag_last <= e.query =>
                            r \in e.of /\ pag_page * Limit <= Cardinality(Ahead(r, e.of))
    BY DEF WalkInv, Behind, AloneIn, Ahead
  <2>1. Behind(r, pag_stored) /\ \A e \in Entries : pag_last <= e.query => Behind(r, e.of)
    BY <1>2 DEF PagesInv, WalkInv
  <2>2. /\ Cardinality(Ahead(r, pag_stored)) \in Nat /\ Cardinality(Ahead(r, pag_stored')) \in Nat
        /\ Cardinality(Ahead(r, pag_stored)) <= Cardinality(Ahead(r, pag_stored'))
    BY <1>1, AheadGrows
  <2>3. pag_page * Limit \in Nat
    <3>1. pag_page \in Nat
      BY PagesAssumed DEF PagesInv, Pag!TypeOK, Pag!Pages
    <3>. QED
      BY <3>1, Limits
  <2>. QED
    BY <2>1, <2>2, <2>3 DEF Behind
<1>4. PagesMissNothing'
  BY DEF PagesInv, PagesMissNothing, Pag!PagesMissNothing
<1>. QED
  BY <1>3, <1>4 DEF PagesInv

\* The client is given a page that is as new as the one before it, and that has all rows
\* which were in front of him.
LEMMA GivenKeeps ==
    ASSUME PagesInv, NEW e, Pag!Given(e), pag_page # -1, e \in Entries', e.page = pag_page,
           Pag!TypeOK', EntriesInv', pag_stored' = pag_stored,
           ~pag_stale /\ pag_last <= e.query =>
              \A r \in pag_began \ pag_got : AloneIn(r, pag_stored) => Behind(r, e.of)
    PROVE  PagesInv'
<1>. DEFINE done == Cardinality(e.rows) < Limit \/ pag_page = Len(Time)
<1>1. /\ pag_got' = pag_got \cup e.rows /\ pag_stale' = (pag_stale \/ e.query < pag_last)
      /\ pag_last' = e.query /\ pag_page' = (IF done THEN -1 ELSE pag_page + 1)
      /\ pag_began' = (IF pag_page = 0 THEN e.of ELSE pag_began)
  BY SameCardinality DEF Pag!Given
<1>2. /\ e \in Pag!Entry /\ e.of \subseteq pag_stored /\ pag_stored \subseteq Pag!Rows
      /\ pag_last \in Int /\ e.query \in Int /\ pag_page \in Nat /\ pag_page * Limit \in Nat
      /\ HasPage(e)
  <2>1. IsPage(e)'
    BY DEF EntriesInv
  <2>2. e \in Pag!Entry /\ e.of \subseteq pag_stored
    BY <2>1 DEF IsPage, Pag!Entry, Pag!Pages, Pag!Rows
  <2>3. HasPage(e)
    BY <2>1 DEF IsPage, HasPage, ByTime, Pag!Page, Pag!Skip
  <2>4. pag_page \in Nat
    BY PagesAssumed DEF PagesInv, Pag!TypeOK, Pag!Pages
  <2>5. pag_page * Limit \in Nat
    BY <2>4, Limits
  <2>6. e.query \in Int
    BY <2>2, PagesAssumed DEF Pag!Entry
  <2>7. pag_last \in Int /\ pag_stored \subseteq Pag!Rows
    BY PagesAssumed DEF PagesInv, Pag!TypeOK
  <2>. QED
    BY <2>2, <2>3, <2>4, <2>5, <2>6, <2>7
\* What he still misses is further on.
<1>3. ASSUME ~pag_stale', NEW r \in pag_began' \ pag_got', AloneIn(r, pag_stored)
      PROVE  /\ r \in e.of /\ (pag_page + 1) * Limit <= Cardinality(Ahead(r, e.of)) /\ ~done
  <2>1. ~pag_stale /\ pag_last <= e.query
    <3>1. ~pag_stale /\ ~(e.query < pag_last)
      BY <1>1, <1>3, Zenon
    <3>. QED
      BY <1>2, <3>1
  <2>2. r \in e.of /\ pag_page * Limit <= Cardinality(Ahead(r, e.of))
    <3>1. CASE pag_page = 0
      <4>1. Cardinality(Ahead(r, e.of)) \in Nat
        BY <1>2, AheadGrows
      <4>. QED
        BY <1>1, <1>3, <3>1, <4>1, PagesAssumed
    <3>2. CASE pag_page # 0
      BY <1>1, <1>3, <2>1, <3>2 DEF Behind
    <3>. QED
      BY <3>1, <3>2
  <2>3. AloneIn(r, e.of) /\ r \notin e.rows
    BY <1>1, <1>2, <1>3 DEF AloneIn
  <2>4. /\ (e.page + 1) * Limit <= Cardinality(Ahead(r, e.of))
        /\ Limit <= Cardinality(e.rows) /\ e.page # Len(Time)
    BY <1>2, <2>2, <2>3, PageHas
  <2>5. Cardinality(e.rows) \in Nat
    <3>1. e.rows \in SUBSET Pag!Rows
      BY <1>2 DEF Pag!Entry
    <3>. QED
      BY <3>1, PagesAssumed, FS_Subset, FS_CardinalityType
  <2>. QED
    BY <2>2, <2>4, <2>5, PagesAssumed
<1>. HIDE DEF done
<1>4. WalkInv'
  <2>. SUFFICES ASSUME pag_page' # -1, ~pag_stale', NEW r \in pag_began' \ pag_got', AloneIn(r, pag_stored)
                PROVE  /\ r \in pag_stored /\ pag_page' * Limit <= Cardinality(Ahead(r, pag_stored))
                       /\ \A f \in Entries' : e.query <= f.query =>
                            r \in f.of /\ pag_page' * Limit <= Cardinality(Ahead(r, f.of))
    BY <1>1 DEF WalkInv, Behind, AloneIn, Ahead
  <2>1. r \in e.of /\ (pag_page + 1) * Limit <= Cardinality(Ahead(r, e.of)) /\ pag_page' = pag_page + 1
    BY <1>1, <1>3
  <2>2. (pag_page + 1) * Limit \in Nat
    BY <1>2, Limits
  <2>3. ASSUME NEW S \in SUBSET Pag!Rows, e.of \subseteq S
        PROVE  r \in S /\ pag_page' * Limit <= Cardinality(Ahead(r, S))
    <3>1. /\ Cardinality(Ahead(r, e.of)) \in Nat /\ Cardinality(Ahead(r, S)) \in Nat
          /\ Cardinality(Ahead(r, e.of)) <= Cardinality(Ahead(r, S))
      BY <2>3, AheadGrows
    <3>. QED
      BY <2>1, <2>2, <2>3, <3>1
  <2>4. \A f \in Entries' : f.of \subseteq Pag!Rows /\ (e.query <= f.query => e.of \subseteq f.of)
    BY DEF EntriesInv, IsPage, Pag!Entry, Pag!Pages, Pag!Rows
  <2>. QED
    BY <1>2, <2>3, <2>4
<1>5. PagesMissNothing'
  <2>. SUFFICES ASSUME pag_page' = -1, ~pag_stale', NEW r \in pag_began' \ pag_got', AloneIn(r, pag_stored)
                PROVE  FALSE
    BY DEF PagesMissNothing, Pag!PagesMissNothing, AloneIn
  <2>. QED
    BY <1>1, <1>2, <1>3
<1>. QED
  BY <1>4, <1>5 DEF PagesInv

\* What a query for a page may answer.
LEMMA AnswerIs ==
    ASSUME PagesInv, NEW k \in Pag!Pages, NEW e \in Pag!Answers(k), Pag!Query(e), pag_stored' = pag_stored
    PROVE  /\ e.page = k /\ e.query = pag_queries + 1 /\ e.of = pag_stored /\ IsPage(e)'
           /\ pag_queries' = pag_queries + 1 /\ pag_queries' \in 0..MaxQueries /\ pag_queries \in Nat
           /\ e \in Pag!Entry
<1>1. PICK s \in Pag!Orders :
         e = [page |-> k, rows |-> Pag!Page(s, k), query |-> pag_queries + 1, of |-> pag_stored]
  BY DEF Pag!Answers
<1>2. s \in Pag!SetToSeqs(pag_stored) /\ ByTime(s)
  BY <1>1 DEF Pag!Orders, ByTime
<1>3. /\ pag_queries' = pag_queries + 1 /\ pag_queries' \in 0..MaxQueries /\ pag_queries \in Nat
      /\ pag_queries + 1 \in 1..MaxQueries
  BY PagesAssumed DEF PagesInv, Pag!TypeOK, Pag!Query
<1>4. Pag!Page(s, k) \subseteq pag_stored /\ pag_stored \in SUBSET Pag!Rows
  <2>1. pag_stored \in SUBSET Pag!Rows
    BY DEF PagesInv, Pag!TypeOK
  <2>. QED
    BY <1>2, <2>1, OrderIs DEF Pag!Page
<1>5. e \in Pag!Entry
  BY <1>1, <1>3, <1>4 DEF Pag!Entry
<1>6. /\ e.page = k /\ e.query = pag_queries + 1 /\ e.of = pag_stored /\ e.rows = Pag!Page(s, k)
  BY <1>1
<1>. QED
  BY <1>2, <1>3, <1>5, <1>6 DEF IsPage, HasPage, ByTime, Pag!Page, Pag!Skip, Pag!Entry, Pag!Pages, Pag!Rows

\* A query gives the entries one more, the newest.
LEMMA QueryKeeps ==
    ASSUME PagesInv, NEW k \in Pag!Pages, NEW e \in Pag!Answers(k), Pag!Query(e),
           UNCHANGED <<pag_stored, pag_cache>>
    PROVE  /\ EntriesInv' /\ Entries' = Entries \cup {e}
           /\ pag_filling' \subseteq Pag!Entry
<1>1. Cached' = Cached /\ pag_filling' = pag_filling \cup {e} /\ Entries' = Entries \cup {e}
  BY DEF Pag!Query, Cached, Entries, Pag!Pages
<1>2. \A f \in Entries : /\ IsPage(f) /\ f.of \subseteq pag_stored /\ f.query <= pag_queries
                         /\ f.query \in Int
  BY PagesAssumed DEF PagesInv, EntriesInv, IsPage, Pag!Entry
<1>3. \A f \in Entries : IsPage(f)'
  <2>1. pag_queries \in Int /\ pag_queries' = pag_queries + 1
    BY AnswerIs
  <2>. QED
    BY <1>2, <2>1 DEF IsPage, HasPage, ByTime, Pag!Page, Pag!Skip, Pag!Entry, Pag!Pages, Pag!Rows
<1>4. \A f, g \in Entries' : f.query <= g.query => f.of \subseteq g.of
  <2>. SUFFICES ASSUME NEW f \in Entries', NEW g \in Entries', f.query <= g.query
                PROVE  f.of \subseteq g.of
    OBVIOUS
  <2>1. e.query = pag_queries + 1 /\ e.of = pag_stored /\ pag_queries \in Int
    BY AnswerIs
  <2>2. CASE f = e
    BY <1>1, <1>2, <2>1, <2>2
  <2>3. CASE f \in Entries /\ g = e
    BY <1>2, <2>1, <2>3
  <2>4. CASE f \in Entries /\ g \in Entries
    BY <2>4 DEF PagesInv, EntriesInv
  <2>. QED
    BY <1>1, <2>2, <2>3, <2>4
<1>5. IsPage(e)' /\ e \in Pag!Entry
  BY AnswerIs
<1>6. EntriesInv'
  <2>1. \A f \in Entries' : IsPage(f)'
    BY <1>1, <1>3, <1>5
  <2>2. \A h \in Cached' : pag_cache'[h].page = h
    BY <1>1 DEF PagesInv, EntriesInv
  <2>. QED
    BY <1>4, <2>1, <2>2 DEF EntriesInv
<1>. QED
  BY <1>1, <1>5, <1>6 DEF PagesInv, Pag!TypeOK

LEMMA HitKeeps == ASSUME PagesInv, Pag!Hit PROVE PagesInv'
<1>1. PICK e : e = pag_cache[pag_page]
  OBVIOUS
<1>2. /\ pag_page # -1 /\ pag_cache[pag_page] # Absence /\ Pag!Given(e)
      /\ UNCHANGED <<pag_stored, pag_cache, pag_filling, pag_queries>>
  BY <1>1 DEF Pag!Hit, Pag!Key
<1>3. pag_page \in Pag!Pages /\ pag_page \in Cached /\ e \in Entries /\ e.page = pag_page
  BY <1>1, <1>2 DEF PagesInv, Pag!TypeOK, Cached, Entries, EntriesInv
<1>4. Entries' = Entries /\ EntriesInv' /\ Cached' = Cached
  BY <1>2 DEF PagesInv, EntriesInv, Entries, Cached, IsPage, HasPage, ByTime, Pag!Page, Pag!Skip,
              Pag!Entry, Pag!Pages, Pag!Rows
<1>5. Pag!TypeOK'
  <2>1. e \in Pag!Entry
    BY <1>3 DEF PagesInv, EntriesInv, IsPage
  <2>2. /\ pag_page' = (IF Pag!Cardinality(e.rows) < Limit \/ pag_page = Len(Time) THEN -1 ELSE pag_page + 1)
        /\ pag_got' = pag_got \cup e.rows /\ pag_last' = e.query
        /\ pag_began' = (IF pag_page = 0 THEN e.of ELSE pag_began)
    BY <1>2 DEF Pag!Given
  <2>3. pag_stale' \in BOOLEAN
    BY <1>2, Zenon DEF Pag!Given
  <2>4. pag_page' \in Pag!Pages \cup {-1}
    BY <1>3, <2>2, PagesAssumed DEF Pag!Pages
  <2>5. pag_got' \subseteq Pag!Rows /\ pag_began' \subseteq Pag!Rows /\ pag_last' \in 0..MaxQueries
    <3>1. e.rows \subseteq Pag!Rows /\ e.of \subseteq Pag!Rows /\ e.query \in 1..MaxQueries
      BY <2>1 DEF Pag!Entry
    <3>2. pag_got \subseteq Pag!Rows /\ pag_began \subseteq Pag!Rows
      BY DEF PagesInv, Pag!TypeOK
    <3>3. e.query \in 0..MaxQueries
      BY <3>1, PagesAssumed
    <3>. QED
      BY <2>2, <3>1, <3>2, <3>3
  <2>. QED
    BY <1>2, <2>3, <2>4, <2>5 DEF PagesInv, Pag!TypeOK, Pag!Entry, Pag!Pages, Pag!Rows
<1>6. ASSUME ~pag_stale, pag_last <= e.query, NEW r \in pag_began \ pag_got, AloneIn(r, pag_stored)
      PROVE  Behind(r, e.of)
  BY <1>2, <1>3, <1>6 DEF PagesInv, WalkInv
<1>. QED
  BY <1>2, <1>3, <1>4, <1>5, <1>6, GivenKeeps

LEMMA MissKeeps == ASSUME PagesInv, Pag!Miss PROVE PagesInv'
<1>1. pag_page # -1 /\ pag_page \in Pag!Pages /\ UNCHANGED <<pag_stored, pag_cache>>
  BY DEF Pag!Miss, PagesInv, Pag!TypeOK
<1>2. PICK k : k = pag_page
  OBVIOUS
<1>3. PICK e \in Pag!Answers(k) : Pag!Query(e) /\ Pag!Given(e)
  BY <1>2 DEF Pag!Miss
<1>4. /\ EntriesInv' /\ Entries' = Entries \cup {e} /\ pag_filling' \subseteq Pag!Entry
      /\ e.page = k /\ e.of = pag_stored /\ e \in Pag!Entry /\ pag_queries' \in 0..MaxQueries
  BY <1>1, <1>2, <1>3, QueryKeeps, AnswerIs
<1>5. Pag!TypeOK'
  <2>1. /\ pag_page' = (IF Pag!Cardinality(e.rows) < Limit \/ pag_page = Len(Time) THEN -1 ELSE pag_page + 1)
        /\ pag_got' = pag_got \cup e.rows /\ pag_last' = e.query
        /\ pag_began' = (IF pag_page = 0 THEN e.of ELSE pag_began)
    BY <1>3 DEF Pag!Given
  <2>2. pag_stale' \in BOOLEAN
    BY <1>3, Zenon DEF Pag!Given
  <2>3. pag_page' \in Pag!Pages \cup {-1}
    BY <1>1, <2>1, PagesAssumed DEF Pag!Pages
  <2>4. pag_got' \subseteq Pag!Rows /\ pag_began' \subseteq Pag!Rows /\ pag_last' \in 0..MaxQueries
    <3>1. e.rows \subseteq Pag!Rows /\ e.of \subseteq Pag!Rows /\ e.query \in 1..MaxQueries
      BY <1>4 DEF Pag!Entry
    <3>2. pag_got \subseteq Pag!Rows /\ pag_began \subseteq Pag!Rows
      BY DEF PagesInv, Pag!TypeOK
    <3>3. e.query \in 0..MaxQueries
      BY <3>1, PagesAssumed
    <3>. QED
      BY <2>1, <3>1, <3>2, <3>3
  <2>. QED
    BY <1>1, <1>4, <2>2, <2>3, <2>4 DEF PagesInv, Pag!TypeOK, Pag!Entry, Pag!Pages, Pag!Rows
<1>6. ASSUME ~pag_stale, NEW r \in pag_began \ pag_got, AloneIn(r, pag_stored)
      PROVE  Behind(r, e.of)
  BY <1>1, <1>4, <1>6 DEF PagesInv, WalkInv
<1>. QED
  BY <1>1, <1>2, <1>3, <1>4, <1>5, <1>6, GivenKeeps

LEMMA PagesStep == ASSUME PagesInv, [Pag!Next]_pag PROVE PagesInv'
<1>1. ASSUME NEW r \in Pag!Rows, Pag!Store(r) PROVE PagesInv'
  <2>1. /\ pag_stored' = pag_stored \cup {r}
        /\ UNCHANGED <<pag_cache, pag_filling, pag_queries, pag_page, pag_got, pag_began, pag_last, pag_stale>>
    BY <1>1 DEF Pag!Store, Pag!client
  <2>2. Pag!TypeOK'
    BY <1>1, <2>1 DEF PagesInv, Pag!TypeOK, Pag!Entry, Pag!Pages, Pag!Rows
  <2>3. Entries' = Entries /\ Cached' = Cached
    BY <2>1 DEF Entries, Cached, Pag!Pages
  <2>4. EntriesInv'
    BY <2>1, <2>3 DEF PagesInv, EntriesInv, IsPage, HasPage, ByTime, Pag!Page, Pag!Skip, Pag!Entry,
                      Pag!Pages, Pag!Rows
  <2>. QED
    BY <2>1, <2>2, <2>3, <2>4, PagesKept
<1>2. ASSUME NEW k \in Pag!Pages, Pag!Expire(k) PROVE PagesInv'
  <2>1. /\ pag_cache' = [pag_cache EXCEPT ![k] = Absence]
        /\ UNCHANGED <<pag_stored, pag_filling, pag_queries, pag_page, pag_got, pag_began, pag_last, pag_stale>>
    BY <1>2 DEF Pag!Expire, Pag!client
  <2>2. Pag!TypeOK'
    BY <2>1 DEF PagesInv, Pag!TypeOK, Pag!Entry, Pag!Pages, Pag!Rows
  <2>3. /\ Cached' \subseteq Cached /\ \A h \in Cached' : pag_cache'[h] = pag_cache[h]
        /\ Entries' \subseteq Entries
    BY <2>1 DEF PagesInv, Pag!TypeOK, Entries, Cached, Pag!Pages
  <2>4. EntriesInv'
    BY <2>1, <2>3 DEF PagesInv, EntriesInv, IsPage, HasPage, ByTime, Pag!Page, Pag!Skip, Pag!Entry,
                      Pag!Pages, Pag!Rows
  <2>. QED
    BY <2>1, <2>2, <2>3, <2>4, PagesKept
<1>3. ASSUME NEW e \in pag_filling, Pag!Fill(e) PROVE PagesInv'
  <2>1. /\ pag_cache' = [pag_cache EXCEPT ![e.page] = e] /\ pag_filling' = pag_filling \ {e}
        /\ UNCHANGED <<pag_stored, pag_queries, pag_page, pag_got, pag_began, pag_last, pag_stale>>
    BY <1>3 DEF Pag!Fill, Pag!client, Pag!Key
  <2>2. e \in Pag!Entry /\ e.page \in Pag!Pages /\ e \in Entries
    BY DEF PagesInv, Pag!TypeOK, Pag!Entry, Entries
  <2>3. Pag!TypeOK'
    BY <2>1, <2>2 DEF PagesInv, Pag!TypeOK, Pag!Entry, Pag!Pages, Pag!Rows
  <2>4. \A h \in Pag!Pages : pag_cache'[h] = IF h = e.page THEN e ELSE pag_cache[h]
    BY <2>1, <2>2 DEF PagesInv, Pag!TypeOK
  <2>5. \A h \in Cached' : h \in Pag!Pages /\ (h # e.page => h \in Cached)
    BY <2>4 DEF Cached, Pag!Pages
  <2>6. Entries' \subseteq Entries
    BY <2>1, <2>2, <2>4, <2>5 DEF Entries
  <2>7. \A h \in Cached' : pag_cache'[h].page = h
    BY <2>4, <2>5 DEF PagesInv, EntriesInv
  <2>8. EntriesInv'
    BY <2>1, <2>6, <2>7 DEF PagesInv, EntriesInv, IsPage, HasPage, ByTime, Pag!Page, Pag!Skip, Pag!Entry,
                            Pag!Pages, Pag!Rows
  <2>. QED
    BY <2>1, <2>3, <2>6, <2>8, PagesKept
<1>4. ASSUME NEW k \in Pag!Pages, Pag!Other(k) PROVE PagesInv'
  <2>1. UNCHANGED <<pag_stored, pag_cache, pag_page, pag_got, pag_began, pag_last, pag_stale>>
    BY <1>4 DEF Pag!Other, Pag!client
  <2>2. PICK e \in Pag!Answers(k) : Pag!Query(e)
    BY <1>4 DEF Pag!Other
  <2>3. /\ EntriesInv' /\ Entries' = Entries \cup {e} /\ pag_filling' \subseteq Pag!Entry
        /\ e.of = pag_stored /\ pag_queries' \in 0..MaxQueries
    BY <2>1, <2>2, QueryKeeps, AnswerIs
  <2>4. Pag!TypeOK'
    BY <2>1, <2>3 DEF PagesInv, Pag!TypeOK, Pag!Entry, Pag!Pages, Pag!Rows
  <2>. QED
    BY <2>1, <2>3, <2>4, PagesKept
<1>5. CASE Pag!Begin
  <2>1. /\ pag_page' = 0 /\ pag_got' = {} /\ pag_began' = {} /\ pag_last' = 0 /\ pag_stale' = FALSE
        /\ UNCHANGED <<pag_stored, pag_cache, pag_filling, pag_queries>>
    BY <1>5 DEF Pag!Begin
  <2>2. 0 \in Pag!Pages /\ 0 \in 0..MaxQueries
    BY PagesAssumed DEF Pag!Pages
  <2>3. Pag!TypeOK'
    BY <2>1, <2>2 DEF PagesInv, Pag!TypeOK, Pag!Entry, Pag!Pages, Pag!Rows
  <2>4. Entries' = Entries /\ Cached' = Cached
    BY <2>1 DEF Entries, Cached, Pag!Pages
  <2>5. EntriesInv'
    BY <2>1, <2>4 DEF PagesInv, EntriesInv, IsPage, HasPage, ByTime, Pag!Page, Pag!Skip, Pag!Entry,
                      Pag!Pages, Pag!Rows
  <2>. QED
    BY <2>1, <2>3, <2>5 DEF PagesInv, WalkInv, PagesMissNothing, Pag!PagesMissNothing
<1>6. CASE UNCHANGED pag
  <2>1. Entries' = Entries /\ Cached' = Cached
    BY <1>6 DEF pag, Entries, Cached, Pag!Pages
  <2>2. EntriesInv' /\ Pag!TypeOK'
    BY <1>6, <2>1 DEF pag, PagesInv, Pag!TypeOK, EntriesInv, IsPage, HasPage, ByTime, Pag!Page, Pag!Skip,
                      Pag!Entry, Pag!Pages, Pag!Rows
  <2>. QED
    BY <1>6, <2>1, <2>2, PagesKept DEF pag
<1>. QED
  BY <1>1, <1>2, <1>3, <1>4, <1>5, <1>6, HitKeeps, MissKeeps DEF Pag!Next

LEMMA PagesStart == Pag!Init => PagesInv
<1>. SUFFICES ASSUME Pag!Init PROVE PagesInv
  OBVIOUS
<1>1. /\ pag_cache = [k \in Pag!Pages |-> Absence] /\ pag_filling = {} /\ pag_queries = 0
      /\ pag_page = -1 /\ pag_got = {} /\ pag_began = {} /\ pag_last = 0 /\ pag_stored \subseteq Pag!Rows
  BY DEF Pag!Init
<1>2. pag_stale \in BOOLEAN
  BY Zenon DEF Pag!Init
<1>3. Pag!TypeOK
  BY <1>1, <1>2, PagesAssumed DEF Pag!TypeOK
<1>4. Entries = {} /\ Cached = {}
  BY <1>1 DEF Entries, Cached
<1>. QED
  BY <1>1, <1>3, <1>4 DEF PagesInv, EntriesInv, WalkInv, PagesMissNothing, Pag!PagesMissNothing

THEOREM PagesInductive == ServicesSpec => []PagesInv
<1>1. ServicesInit => PagesInv
  BY PagesStart DEF ServicesInit
<1>2. PagesInv /\ [ServicesNext]_all => PagesInv'
  BY Moves, PagesStep
<1>. QED
  BY <1>1, <1>2, PTL DEF ServicesSpec

\* A client that walked through all pages, none of them older than the one before it,
\* was given every row that was there when it began and that has a time of its own
\* (PaginationInterceptor and CacheInterceptor).
THEOREM WalkMissesNothing == ServicesSpec => []PagesMissNothing
<1>1. PagesInv => PagesMissNothing
  BY DEF PagesInv
<1>. QED
  BY <1>1, PagesInductive, PTL

-----------------------------------------------------------------------------
(* All parts together.                                                      *)

LEMMA DepositsMove == ServicesSpec => Spec
<1>1. ServicesInit => Init
  BY DEF ServicesInit
<1>2. [ServicesNext]_all => [Next]_vars
  BY Moves
<1>. QED
  BY <1>1, <1>2, PTL DEF ServicesSpec, Spec

\* Every state of every part is well typed, whichever of them move.
THEOREM ServicesTypeCorrect == ServicesSpec => []ServicesTypeOK
<1>1. ServicesSpec => []TypeOK
  BY DepositsMove, TypeCorrect, PTL
<1>2. /\ BootInv => Boot!TypeOK
      /\ BallotsInv => Bal!TypeOK
      /\ ValidatorsInv => Val!TypeOK
      /\ DelegationsInv => Del!TypeOK
      /\ MarketInv => Mkt!TypeOK
      /\ PoolsInv => Poo!TypeOK
      /\ PagesInv => Pag!TypeOK
      /\ RequestInv => Nei!RequestTypeOK
  BY DEF BootInv, BallotsInv, ValidatorsInv, DelegationsInv, MarketInv, PoolsInv, PagesInv, RequestInv
<1>3. /\ TypeOK /\ Boot!TypeOK /\ Bal!TypeOK /\ Val!TypeOK /\ Del!TypeOK /\ Mkt!TypeOK
      /\ Met!TypeOK /\ Cam!TypeOK /\ Poo!TypeOK /\ Pag!TypeOK /\ Nei!TypeOK /\ Nei!RequestTypeOK
      => ServicesTypeOK
  BY DEF ServicesTypeOK
<1>. QED
  BY <1>1, <1>2, <1>3, BootInductive, BallotsInductive, ValidatorsInductive, DelegationsInductive,
     MarketInductive, MetricsTyped, CampaignsTyped, PoolsInductive, PagesInductive, RankingTyped,
     RequestInductive, PTL
===============================================================================
