--------------------------- MODULE GovernanceProofs ---------------------------
(***************************************************************************)
(* Type correctness and NoGapBeforeStored for any number of proposals and  *)
(* passes, every page size and any failures.  A pass goes through a prefix *)
(* of the chain's proposals without leaving one out: in front of the one   *)
(* that it is at, all are stored or deleted (PassInv).                     *)
(***************************************************************************)
EXTENDS Governance, FiniteSetTheorems, WellFoundedInduction, TLAPS

\* A proposal is made after those with lower numbers.
Ordered(s) ==
    \A k \in Proposals : s[k] # "none" => \A j \in 1..(k - 1) : s[j] # "none"

\* What has been deleted remains so.
Known(s) == \A k \in Proposals : s[k] = "deleted" => status[k] = "deleted"

\* Whatever is not after k is stored or deleted.
FilledTo(k) == \A j \in 1..k : row[j] # "none" \/ status[j] = "deleted"

Sound(p) ==
    /\ Ordered(list[p]) /\ Known(list[p])
    /\ pc[p] # "idle" => at[p] \in Kept(list[p]) /\ FilledTo(at[p] - 1)

PassInv == \A p \in Passes : Sound(p)

IInv == TypeOK /\ Ordered(status) /\ PassInv /\ NoGapBeforeStored

\* A step removes no row, and what it finds deleted remains so.
RowsStay ==
    \A k \in Proposals :
        /\ row[k] # "none" => row'[k] # "none"
        /\ status[k] = "deleted" => status'[k] = "deleted"

-----------------------------------------------------------------------------

\* The least of some numbers.
LEMMA MinIsLeast ==
    ASSUME NEW T \in SUBSET Nat, T # {}
    PROVE  Min(T) \in T /\ \A x \in T : Min(T) <= x
<1>. DEFINE R == {ss \in Nat \X Nat : ss[1] < ss[2]}
<1>1. \A x, y \in Nat : <<x, y>> \in R <=> x < y
  OBVIOUS
<1>2. IsWellFoundedOn(R, Nat)
  BY NatLessThanWellFounded DEF OpToRel
<1>. HIDE DEF R
<1>3. PICK m \in T : \A y \in T : ~(<<y, m>> \in R)
  BY <1>2, WFMin
<1>4. ASSUME NEW y \in T PROVE m <= y
  <2>1. m \in Nat /\ y \in Nat
    OBVIOUS
  <2>2. ~(<<y, m>> \in R)
    BY <1>3, Zenon
  <2>3. ~(y < m)
    BY <1>1, <2>1, <2>2
  <2>. QED
    BY <2>1, <2>3
<1>. QED
  BY <1>4 DEF Min

\* The page has no gaps: what is kept and precedes a listed one is listed.
LEMMA ListedIsPrefix ==
    ASSUME GovernanceAssumption, NEW s, NEW a \in Listed(s), NEW j \in Kept(s), j < a
    PROVE  j \in Listed(s)
<1>. DEFINE Before(k) == {i \in Kept(s) : i < k}
<1>1. a \in Kept(s) /\ Cardinality(Before(a)) < PageSize
  BY DEF Listed
<1>2. Kept(s) \subseteq 1..MaxProposals /\ MaxProposals \in Nat /\ PageSize \in Nat
  BY DEF Kept, Proposals, GovernanceAssumption
<1>3. Before(j) \subseteq Before(a) /\ Before(a) \subseteq 1..MaxProposals
  BY <1>1, <1>2
<1>4. IsFiniteSet(Before(a))
  BY <1>2, <1>3, FS_Interval, FS_Subset
<1>5. /\ IsFiniteSet(Before(j)) /\ Cardinality(Before(j)) <= Cardinality(Before(a))
      /\ Cardinality(Before(j)) \in Nat /\ Cardinality(Before(a)) \in Nat
  BY <1>3, <1>4, FS_Subset, FS_CardinalityType
<1>6. Cardinality(Before(j)) < PageSize
  BY <1>1, <1>2, <1>5
<1>. QED
  BY <1>6 DEF Listed

\* What a pass relies on outlasts the steps of the others.
LEMMA SoundStays ==
    ASSUME GovernanceAssumption, TypeOK, NEW q \in Passes, Sound(q), RowsStay,
           pc'[q] = pc[q], at'[q] = at[q], list'[q] = list[q]
    PROVE  Sound(q)'
<1>1. at[q] \in 0..MaxProposals /\ MaxProposals \in Nat
  BY DEF TypeOK, GovernanceAssumption
<1>2. Ordered(list'[q]) /\ \A k \in Proposals : list'[q][k] = "deleted" => status'[k] = "deleted"
  BY DEF Sound, Known, RowsStay
<1>3. ASSUME pc[q] # "idle"
      PROVE  \A j \in 1..(at[q] - 1) : row'[j] # "none" \/ status'[j] = "deleted"
  BY <1>1, <1>3 DEF Sound, FilledTo, RowsStay, Proposals
<1>. QED
  BY <1>2, <1>3 DEF Sound, Known, FilledTo, Ordered

\* A pass that goes on with the list l after k ends, or is at the first one after k.
LEMMA GoOnKeeps ==
    ASSUME GovernanceAssumption, TypeOK, NEW p \in Passes, NEW l \in [Proposals -> Statuses],
           NEW k \in 0..MaxProposals, GoOn(p, l, k), Ordered(l), RowsStay,
           Known(l), \A j \in 1..k : row'[j] # "none" \/ status'[j] = "deleted"
    PROVE  /\ pc' \in [Passes -> {"idle", "content", "save"}]
           /\ at' \in [Passes -> 0..MaxProposals]
           /\ list' \in [Passes -> [Proposals -> Statuses]]
           /\ Sound(p)'
           /\ \A q \in Passes \ {p} : pc'[q] = pc[q] /\ at'[q] = at[q] /\ list'[q] = list[q]
<1>. DEFINE rest == {j \in Listed(l) : j > k}
            none == [j \in Proposals |-> "none"]
<1>1. /\ pc \in [Passes -> {"idle", "content", "save"}] /\ at \in [Passes -> 0..MaxProposals]
      /\ list \in [Passes -> [Proposals -> Statuses]] /\ MaxProposals \in Nat
  BY DEF TypeOK, GovernanceAssumption
<1>2. CASE rest = {}
  <2>1. /\ pc' = [pc EXCEPT ![p] = "idle"] /\ at' = [at EXCEPT ![p] = 0]
        /\ list' = [list EXCEPT ![p] = none]
    BY <1>2 DEF GoOn
  <2>2. none \in [Proposals -> Statuses]
    BY DEF Statuses
  <2>3. list'[p] = none /\ pc'[p] = "idle"
    BY <1>1, <2>1
  <2>4. Sound(p)'
    BY <2>3 DEF Sound, Ordered, Known
  <2>. QED
    BY <1>1, <2>1, <2>2, <2>4
<1>3. CASE rest # {}
  <2>1. /\ pc' = [pc EXCEPT ![p] = "content"] /\ at' = [at EXCEPT ![p] = Min(rest)]
        /\ list' = [list EXCEPT ![p] = l]
    BY <1>3 DEF GoOn
  <2>2. rest \in SUBSET Nat /\ rest \subseteq Kept(l) /\ rest \subseteq 1..MaxProposals
    BY <1>1 DEF Listed, Kept, Proposals
  <2>3. PICK a \in rest : a = Min(rest) /\ \A x \in rest : a <= x
    BY <1>3, <2>2, MinIsLeast
  <2>4. a \in 1..MaxProposals /\ a \in Kept(l) /\ a \in Listed(l) /\ k < a /\ k \in Nat
    BY <1>1, <2>2
  <2>5. \A j \in 1..(a - 1) : row'[j] # "none" \/ status'[j] = "deleted"
    <3>. SUFFICES ASSUME NEW j \in 1..(a - 1)
                  PROVE  row'[j] # "none" \/ status'[j] = "deleted"
      OBVIOUS
    <3>1. CASE j <= k
      BY <2>4, <3>1
    <3>2. CASE ~(j <= k)
      <4>1. j \in Proposals /\ a \in Proposals /\ j < a /\ j > k
        BY <1>1, <2>4, <3>2 DEF Proposals
      <4>2. l[j] # "none"
        BY <2>4, <4>1 DEF Ordered, Kept
      <4>3. j \notin Kept(l)
        <5>. SUFFICES ASSUME j \in Kept(l)
                      PROVE  FALSE
          OBVIOUS
        <5>1. j \in rest
          BY <2>4, <4>1, ListedIsPrefix
        <5>. QED
          BY <2>3, <2>4, <4>1, <5>1 DEF Proposals
      <4>4. l[j] = "deleted"
        BY <4>1, <4>2, <4>3 DEF Kept, Statuses
      <4>. QED
        BY <4>1, <4>4 DEF Known, RowsStay
    <3>. QED
      BY <3>1, <3>2
  <2>6. /\ list'[p] = l /\ at'[p] = a
    BY <1>1, <2>1, <2>3
  <2>7. \A j \in Proposals : l[j] = "deleted" => status'[j] = "deleted"
    BY DEF Known, RowsStay
  <2>8. Sound(p)'
    BY <2>4, <2>5, <2>6, <2>7 DEF Sound, Ordered, Known, FilledTo
  <2>9. Min(rest) \in 0..MaxProposals
    BY <2>3, <2>4
  <2>. HIDE DEF rest
  <2>. QED
    BY <1>1, <2>1, <2>8, <2>9
<1>. QED
  BY <1>2, <1>3

\* A pass that ends has nothing left of its list.
LEMMA EndKeeps ==
    ASSUME GovernanceAssumption, IInv, NEW p \in Passes, End(p), UNCHANGED <<status, row>>
    PROVE  IInv'
<1>1. list[p] \in [Proposals -> Statuses] /\ Ordered(list[p]) /\ Known(list[p])
  BY DEF IInv, TypeOK, PassInv, Sound
<1>. DEFINE rest == {j \in Listed(list[p]) : j > MaxProposals}
<1>2. rest = {} /\ MaxProposals \in Nat
  BY DEF Listed, Kept, Proposals, GovernanceAssumption
<1>3. /\ pc' = [pc EXCEPT ![p] = "idle"] /\ at' = [at EXCEPT ![p] = 0]
      /\ list' = [list EXCEPT ![p] = [j \in Proposals |-> "none"]]
  BY <1>2 DEF End, GoOn
<1>4. TypeOK'
  BY <1>2, <1>3 DEF IInv, TypeOK, Statuses
<1>5. RowsStay
  BY DEF RowsStay
<1>6. Sound(p)'
  <2>1. list'[p] = [j \in Proposals |-> "none"] /\ pc'[p] = "idle"
    BY <1>3 DEF IInv, TypeOK
  <2>. QED
    BY <2>1 DEF Sound, Ordered, Known
<1>7. ASSUME NEW q \in Passes \ {p}
      PROVE  Sound(q)'
  <2>1. pc'[q] = pc[q] /\ at'[q] = at[q] /\ list'[q] = list[q]
    BY <1>3 DEF IInv, TypeOK
  <2>. QED
    BY <1>5, <2>1, SoundStays DEF IInv, PassInv
<1>8. PassInv'
  BY <1>6, <1>7 DEF PassInv
<1>9. Ordered(status)' /\ NoGapBeforeStored'
  BY DEF IInv, Ordered, NoGapBeforeStored
<1>. QED
  BY <1>4, <1>8, <1>9 DEF IInv

LEMMA AdvanceKeeps ==
    ASSUME GovernanceAssumption, IInv, NEW k \in Proposals, NEW s \in Statuses, Advance(k, s)
    PROVE  IInv'
<1>1. /\ s \in Follows[status[k]] /\ \A j \in 1..(k - 1) : status[j] # "none"
      /\ status' = [status EXCEPT ![k] = s] /\ UNCHANGED <<row, pc, at, list>>
  BY DEF Advance
<1>2. status \in [Proposals -> Statuses] /\ status[k] \in Statuses
  BY DEF IInv, TypeOK
<1>3. s # "none" /\ status[k] # "deleted"
  BY <1>1, <1>2 DEF Follows, Statuses
<1>4. TypeOK'
  BY <1>1, <1>2 DEF IInv, TypeOK
<1>5. RowsStay
  BY <1>1, <1>2, <1>3 DEF RowsStay
<1>6. Ordered(status)'
  <2>1. \A i \in Proposals : status'[i] # "none" => i = k \/ status[i] # "none"
    BY <1>1, <1>2
  <2>2. \A i \in Proposals : status[i] # "none" => status'[i] # "none"
    BY <1>1, <1>2, <1>3
  <2>3. \A i \in Proposals : 1..(i - 1) \subseteq Proposals
    BY DEF Proposals, GovernanceAssumption
  <2>. QED
    BY <1>1, <2>1, <2>2, <2>3 DEF IInv, Ordered
<1>7. PassInv'
  BY <1>1, <1>5, SoundStays DEF IInv, PassInv
<1>8. NoGapBeforeStored'
  <2>1. \A i \in Proposals : 1..(i - 1) \subseteq Proposals
    BY DEF Proposals, GovernanceAssumption
  <2>. QED
    BY <1>1, <1>5, <2>1 DEF IInv, NoGapBeforeStored, RowsStay
<1>. QED
  BY <1>4, <1>6, <1>7, <1>8 DEF IInv

\* The pass p goes on, and the others stay where they are.
LEMMA OthersKeep ==
    ASSUME GovernanceAssumption, IInv, NEW p \in Passes, Sound(p)', RowsStay,
           \A q \in Passes \ {p} : pc'[q] = pc[q] /\ at'[q] = at[q] /\ list'[q] = list[q]
    PROVE  PassInv'
BY SoundStays DEF IInv, PassInv

LEMMA BeginKeeps ==
    ASSUME GovernanceAssumption, IInv, NEW p \in Passes, Begin(p)
    PROVE  IInv'
<1>1. /\ GoOn(p, status, 0) /\ UNCHANGED <<status, row>>
      /\ status \in [Proposals -> Statuses] /\ TypeOK /\ Ordered(status) /\ Known(status)
      /\ 0 \in 0..MaxProposals /\ RowsStay
  BY DEF Begin, IInv, TypeOK, Known, RowsStay, GovernanceAssumption
<1>2. /\ pc' \in [Passes -> {"idle", "content", "save"}]
      /\ at' \in [Passes -> 0..MaxProposals]
      /\ list' \in [Passes -> [Proposals -> Statuses]]
      /\ Sound(p)'
      /\ \A q \in Passes \ {p} : pc'[q] = pc[q] /\ at'[q] = at[q] /\ list'[q] = list[q]
  BY <1>1, GoOnKeeps
<1>3. TypeOK'
  BY <1>1, <1>2 DEF TypeOK
<1>4. PassInv'
  BY <1>1, <1>2, OthersKeep
<1>5. Ordered(status)' /\ NoGapBeforeStored'
  BY <1>1 DEF IInv, Ordered, NoGapBeforeStored
<1>. QED
  BY <1>3, <1>4, <1>5 DEF IInv

LEMMA ContentKeeps ==
    ASSUME GovernanceAssumption, IInv, NEW p \in Passes, Content(p)
    PROVE  IInv'
<1>1. /\ pc[p] = "content" /\ pc' = [pc EXCEPT ![p] = "save"]
      /\ UNCHANGED <<status, row, at, list>>
      /\ pc \in [Passes -> {"idle", "content", "save"}]
  BY DEF Content, IInv, TypeOK
<1>2. TypeOK'
  BY <1>1 DEF IInv, TypeOK
<1>3. PassInv'
  BY <1>1 DEF IInv, PassInv, Sound, Ordered, Known, FilledTo
<1>4. Ordered(status)' /\ NoGapBeforeStored'
  BY <1>1 DEF IInv, Ordered, NoGapBeforeStored
<1>. QED
  BY <1>2, <1>3, <1>4 DEF IInv

LEMMA SaveKeeps ==
    ASSUME GovernanceAssumption, IInv, NEW p \in Passes, Save(p)
    PROVE  IInv'
<1>. DEFINE a == at[p]
            l == list[p]
<1>1. /\ pc[p] = "save" /\ row' = [row EXCEPT ![a] = l[a]] /\ GoOn(p, l, a) /\ status' = status
  BY DEF Save, Saved
<1>2. /\ a \in Kept(l) /\ FilledTo(a - 1) /\ Ordered(l) /\ Known(l)
      /\ l \in [Proposals -> Statuses] /\ TypeOK
      /\ row \in [Proposals -> Statuses \ {"deleted"}]
  BY <1>1 DEF IInv, TypeOK, PassInv, Sound
<1>3. a \in 1..MaxProposals /\ a \in Proposals /\ l[a] \in Statuses \ {"none", "deleted"}
      /\ MaxProposals \in Nat
  BY <1>2 DEF Kept, Proposals, Statuses, GovernanceAssumption
<1>4. row' \in [Proposals -> Statuses \ {"deleted"}] /\ row'[a] # "none"
      /\ \A j \in Proposals \ {a} : row'[j] = row[j]
  BY <1>1, <1>2, <1>3
<1>5. RowsStay
  BY <1>1, <1>4 DEF RowsStay
<1>6. \A j \in 1..a : row'[j] # "none" \/ status'[j] = "deleted"
  BY <1>1, <1>2, <1>3, <1>4 DEF FilledTo, Proposals
<1>. HIDE DEF a, l
<1>7. a \in 0..MaxProposals
  BY <1>3
<1>8. /\ pc' \in [Passes -> {"idle", "content", "save"}]
      /\ at' \in [Passes -> 0..MaxProposals]
      /\ list' \in [Passes -> [Proposals -> Statuses]]
      /\ Sound(p)'
      /\ \A q \in Passes \ {p} : pc'[q] = pc[q] /\ at'[q] = at[q] /\ list'[q] = list[q]
  BY <1>1, <1>2, <1>5, <1>6, <1>7, GoOnKeeps
<1>9. TypeOK'
  BY <1>1, <1>4, <1>8 DEF IInv, TypeOK
<1>10. PassInv'
  BY <1>5, <1>8, OthersKeep
<1>11. NoGapBeforeStored'
  <2>. SUFFICES ASSUME NEW k \in Proposals, row'[k] # "none", NEW j \in 1..(k - 1)
                PROVE  row'[j] # "none" \/ status'[j] = "deleted"
    BY DEF NoGapBeforeStored
  <2>1. CASE k = a
    BY <1>3, <1>6, <2>1
  <2>2. CASE k # a
    <3>1. row[j] # "none" \/ status[j] = "deleted"
      BY <1>4, <2>2 DEF IInv, NoGapBeforeStored
    <3>2. j \in Proposals
      BY <1>3 DEF Proposals
    <3>. QED
      BY <1>5, <3>1, <3>2 DEF RowsStay
  <2>. QED
    BY <2>1, <2>2
<1>12. Ordered(status)'
  BY <1>1 DEF IInv, Ordered
<1>. QED
  BY <1>9, <1>10, <1>11, <1>12 DEF IInv

LEMMA StepKeeps ==
    ASSUME GovernanceAssumption, IInv, [Next]_vars
    PROVE  IInv'
<1>1. ASSUME NEW p \in Passes, GatewayRejects(p) \/ Fail(p)
      PROVE  IInv'
  BY <1>1, EndKeeps DEF GatewayRejects, Fail
<1>2. ASSUME UNCHANGED vars
      PROVE  IInv'
  BY <1>2 DEF vars, IInv, TypeOK, PassInv, Sound, Ordered, Known, FilledTo, NoGapBeforeStored
<1>3. Failing \subseteq Passes
  BY DEF GovernanceAssumption
<1>. QED
  BY <1>1, <1>2, <1>3, AdvanceKeeps, BeginKeeps, ContentKeeps, SaveKeeps DEF Next, Step

LEMMA InitKeeps ==
    ASSUME GovernanceAssumption, Init
    PROVE  IInv
<1>1. MaxProposals \in Nat
  BY DEF GovernanceAssumption
<1>2. TypeOK
  BY <1>1 DEF Init, TypeOK, Statuses
<1>3. Ordered(status) /\ NoGapBeforeStored
  BY DEF Init, Ordered, NoGapBeforeStored
<1>4. PassInv
  BY DEF Init, PassInv, Sound, Ordered, Known
<1>. QED
  BY <1>2, <1>3, <1>4 DEF IInv

-----------------------------------------------------------------------------

\* Every state of the proposals' synchronisation is well typed.
THEOREM TypeCorrect ==
    ASSUME GovernanceAssumption
    PROVE  Spec => []TypeOK
<1>1. Init => IInv
  BY InitKeeps
<1>2. IInv /\ [Next]_vars => IInv'
  BY StepKeeps
<1>3. IInv => TypeOK
  BY DEF IInv
<1>. QED
  BY <1>1, <1>2, <1>3, PTL DEF Spec

\* The table of proposals has no gaps but deleted ones, wherever passes stop and
\* however they overlap (governance.scheduler.ts:31-99).
THEOREM NoGaps ==
    ASSUME GovernanceAssumption
    PROVE  Spec => []NoGapBeforeStored
<1>1. Init => IInv
  BY InitKeeps
<1>2. IInv /\ [Next]_vars => IInv'
  BY StepKeeps
<1>3. IInv => NoGapBeforeStored
  BY DEF IInv
<1>. QED
  BY <1>1, <1>2, <1>3, PTL DEF Spec

-----------------------------------------------------------------------------
(* The outcome of a vote, once it is stored, stays.                         *)

\* The outcome of k is stored, and every pass that has yet to come by k read it
\* after the vote was closed.
Settled(k) ==
    /\ status[k] = "closed" /\ row[k] = "closed"
    /\ \A p \in Passes : pc[p] # "idle" /\ at[p] <= k => list[p][k] = "closed"

\* A pass that goes on keeps its list and comes to a later proposal.
LEMMA GoOnIsLater ==
    ASSUME GovernanceAssumption, TypeOK, NEW p \in Passes, NEW l, NEW k \in 0..MaxProposals,
           GoOn(p, l, k)
    PROVE  /\ pc'[p] = "idle" \/ (list'[p] = l /\ at'[p] > k)
           /\ \A q \in Passes \ {p} : pc'[q] = pc[q] /\ at'[q] = at[q] /\ list'[q] = list[q]
<1>. DEFINE rest == {j \in Listed(l) : j > k}
<1>1. CASE rest = {}
  BY <1>1 DEF GoOn, TypeOK
<1>2. CASE rest # {}
  <2>1. /\ list' = [list EXCEPT ![p] = l] /\ at' = [at EXCEPT ![p] = Min(rest)]
        /\ pc' = [pc EXCEPT ![p] = "content"]
    BY <1>2 DEF GoOn
  <2>2. rest \in SUBSET Nat
    BY DEF Listed, Kept, Proposals
  <2>3. Min(rest) \in rest
    BY <1>2, <2>2, MinIsLeast
  <2>4. Min(rest) > k
    BY <2>3
  <2>. QED
    BY <2>1, <2>4 DEF TypeOK
<1>. QED
  BY <1>1, <1>2

\* Once the outcome of a vote is stored and the passes that listed the proposal
\* before have gone by it, no pass ever takes the row back, whichever fail, are
\* rejected by the gateway or overlap (governance.scheduler.ts:31-99): what
\* ClosedIsStored has brought about remains.
THEOREM OutcomesStay ==
    ASSUME GovernanceAssumption
    PROVE  Spec => [][\A k \in Proposals : Settled(k) => Settled(k)']_vars
<1>1. IInv /\ [Next]_vars => [\A k \in Proposals : Settled(k) => Settled(k)']_vars
  <2>. SUFFICES ASSUME IInv, Next, NEW k \in Proposals, Settled(k)
                PROVE  Settled(k)'
    OBVIOUS
  <2>t. TypeOK /\ MaxProposals \in Nat /\ k \in 1..MaxProposals
    BY DEF IInv, GovernanceAssumption, Proposals
  <2>1. ASSUME NEW j \in Proposals, NEW s \in Statuses, Advance(j, s)
        PROVE  Settled(k)'
    <3>1. j # k
      BY <2>1 DEF Advance, Settled, Follows
    <3>. QED
      BY <2>1, <2>t, <3>1 DEF Advance, Settled, TypeOK
  <2>2. ASSUME NEW p \in Passes, Begin(p)
        PROVE  Settled(k)'
    <3>1. /\ pc'[p] = "idle" \/ list'[p] = status
          /\ \A q \in Passes \ {p} : pc'[q] = pc[q] /\ at'[q] = at[q] /\ list'[q] = list[q]
      <4>1. GoOn(p, status, 0) /\ 0 \in 0..MaxProposals
        BY <2>2, <2>t DEF Begin
      <4>. QED
        BY <2>t, <4>1, GoOnIsLater
    <3>2. UNCHANGED <<status, row>>
      BY <2>2 DEF Begin
    <3>. QED
      BY <3>1, <3>2 DEF Settled
  <2>3. ASSUME NEW p \in Passes, Content(p)
        PROVE  Settled(k)'
    BY <2>3, <2>t DEF Content, Settled, TypeOK
  <2>4. ASSUME NEW p \in Passes, Save(p)
        PROVE  Settled(k)'
    <3>1. /\ row' = [row EXCEPT ![at[p]] = list[p][at[p]]] /\ status' = status
          /\ pc[p] # "idle" /\ GoOn(p, list[p], at[p])
      BY <2>4 DEF Save, Saved
    <3>2. at[p] \in 0..MaxProposals
      BY <2>t DEF TypeOK
    <3>3. /\ pc'[p] = "idle" \/ (list'[p] = list[p] /\ at'[p] > at[p])
          /\ \A q \in Passes \ {p} : pc'[q] = pc[q] /\ at'[q] = at[q] /\ list'[q] = list[q]
      BY <2>t, <3>1, <3>2, GoOnIsLater
    <3>4. row'[k] = "closed"
      BY <2>t, <3>1, <3>2 DEF Settled, TypeOK
    <3>5. ASSUME pc'[p] # "idle", at'[p] <= k
          PROVE  list'[p][k] = "closed"
      <4>1. at'[p] \in Nat
        BY <2>4, SaveKeeps DEF IInv, TypeOK
      <4>2. at[p] <= k
        BY <2>t, <3>1, <3>2, <3>3, <3>5, <4>1
      <4>. QED
        BY <3>1, <3>3, <3>5, <4>2 DEF Settled
    <3>. QED
      BY <3>1, <3>3, <3>4, <3>5 DEF Settled
  <2>5. ASSUME NEW p \in Passes, GatewayRejects(p) \/ Fail(p)
        PROVE  Settled(k)'
    <3>1. GoOn(p, list[p], MaxProposals) /\ MaxProposals \in 0..MaxProposals
          /\ UNCHANGED <<status, row>>
      BY <2>5, <2>t DEF GatewayRejects, Fail, End
    <3>2. {j \in Listed(list[p]) : j > MaxProposals} = {}
      BY <2>t DEF Listed, Kept, Proposals
    <3>3. pc'[p] = "idle"
      BY <2>t, <3>1, <3>2 DEF GoOn, TypeOK
    <3>4. \A q \in Passes \ {p} : pc'[q] = pc[q] /\ at'[q] = at[q] /\ list'[q] = list[q]
      BY <2>t, <3>1, GoOnIsLater
    <3>. QED
      BY <3>1, <3>3, <3>4 DEF Settled
  <2>6. Failing \subseteq Passes
    BY DEF GovernanceAssumption
  <2>. QED
    BY <2>1, <2>2, <2>3, <2>4, <2>5, <2>6 DEF Next, Step
<1>2. IInv /\ [Next]_vars => IInv'
  BY StepKeeps
<1>3. Init => IInv
  BY InitKeeps
<1>. QED
  BY <1>1, <1>2, <1>3, PTL DEF Spec
===============================================================================
