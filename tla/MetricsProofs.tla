----------------------------- MODULE MetricsProofs -----------------------------
(***************************************************************************)
(* Type correctness, KeptAreCounted and UndisturbedGauges for any number   *)
(* of deposits, states, pages and passes.  A deposit that stays is         *)
(* counted, or still ahead of the pass: as a deposit, or as the withdrawal *)
(* that took its place (MetInv).  Nothing is both, so that a withdrawal    *)
(* that is over leaves nothing behind.  What an undisturbed pass has       *)
(* passed by is counted as it is on the chain (Seen).  A state is one of   *)
(* deposits or one of withdrawals (Kinds), so that no gauge counts more    *)
(* than there are deposits.                                                *)
(***************************************************************************)
EXTENDS Metrics, FiniteSetTheorems, TLAPS

Dep(d) == <<"deposit", d>>
Wit(d) == <<"withdrawal", d>>

\* What the proof needs of TypeOK.
Typed ==
    /\ chain \in [Items -> States \cup {None}]
    /\ page \in [Passes -> 0..Broadcast]
    /\ counted \in [Passes -> [Items -> States \cup {None}]]
    /\ kept \in [Passes -> SUBSET Deposits]

\* A deposit that is withdrawn is a deposit no more.
Either == \A d \in Deposits : chain[Dep(d)] = None \/ chain[Wit(d)] = None

\* The pass p has met the deposit d, or will if it stays.
Met(p, d) ==
    \/ \E i \in Items : i[2] = d /\ counted[p][i] # None
    \/ chain[Dep(d)] # None /\ page[p] <= d
    \/ chain[Wit(d)] # None /\ page[p] <= MaxDeposit + d

MetInv == \A p \in Passes : page[p] # 0 => \A d \in kept[p] : Met(p, d)

IInv == Typed /\ Either /\ MetInv

-----------------------------------------------------------------------------

\* The items are the deposits and their withdrawals.
LEMMA ItemsAre ==
    /\ \A d \in Deposits : Dep(d) \in Items /\ Wit(d) \in Items
    /\ \A i \in Items : i[2] \in Deposits /\ (i = Dep(i[2]) \/ i = Wit(i[2]))
BY DEF Items, Dep, Wit

\* A deposit is held as one of the two.
LEMMA HeldAs ==
    ASSUME NEW c, NEW d \in Held(c)
    PROVE  d \in Deposits /\ (c[Dep(d)] # None \/ c[Wit(d)] # None)
<1>1. PICK i \in Items : i[2] = d /\ c[i] # None
  BY DEF Held
<1>. QED
  BY <1>1, ItemsAre DEF Held

\* A change of the chain keeps the invariant if what it keeps is met later on: a
\* deposit stays one or becomes a withdrawal, a withdrawal does not become a deposit.
LEMMA ChangeKeeps ==
    ASSUME MetricsAssumption, IInv, NEW c \in [Items -> States \cup {None}], Change(c),
           \A d \in Deposits : c[Dep(d)] = None \/ c[Wit(d)] = None,
           \A d \in Deposits : chain[Wit(d)] # None => c[Dep(d)] = None
    PROVE  IInv'
<1>1. /\ chain' = c /\ UNCHANGED <<page, counted>>
      /\ kept' = [p \in Passes |-> kept[p] \cap Held(c)]
  BY DEF Change
<1>2. Typed'
  BY <1>1 DEF IInv, Typed
<1>3. Either'
  BY <1>1 DEF Either
<1>4. MetInv'
  <2>. SUFFICES ASSUME NEW p \in Passes, page[p] # 0, NEW d \in kept[p], d \in Held(c)
                PROVE  Met(p, d)'
    BY <1>1 DEF MetInv
  <2>1. Met(p, d) /\ d \in Deposits /\ (c[Dep(d)] # None \/ c[Wit(d)] # None)
    BY HeldAs DEF IInv, MetInv
  <2>2. page[p] \in 0..Broadcast /\ MaxDeposit \in Nat /\ d \in 1..MaxDeposit
    BY <2>1 DEF IInv, Typed, Deposits, MetricsAssumption
  <2>3. CASE \E i \in Items : i[2] = d /\ counted[p][i] # None
    BY <1>1, <2>3 DEF Met
  <2>4. CASE chain[Dep(d)] # None /\ page[p] <= d
    <3>1. page[p] <= MaxDeposit + d
      BY <2>2, <2>4 DEF Broadcast, LastPage
    <3>. QED
      BY <1>1, <2>1, <2>4, <3>1 DEF Met
  <2>5. CASE chain[Wit(d)] # None /\ page[p] <= MaxDeposit + d
    <3>1. c[Wit(d)] # None
      BY <2>1, <2>5
    <3>. QED
      BY <1>1, <2>5, <3>1 DEF Met
  <2>. QED
    BY <2>1, <2>3, <2>4, <2>5 DEF Met
<1>. QED
  BY <1>2, <1>3, <1>4 DEF IInv

LEMMA DepositKeeps ==
    ASSUME MetricsAssumption, IInv, NEW d \in Deposits, NEW s \in DepositStates, Deposit(d, s)
    PROVE  IInv'
<1>. DEFINE c == [chain EXCEPT ![Dep(d)] = s]
<1>1. chain[Wit(d)] = None /\ Change(c)
  BY DEF Deposit, Dep, Wit
<1>2. chain \in [Items -> States \cup {None}] /\ Either
  BY DEF IInv, Typed
<1>3. c \in [Items -> States \cup {None}]
  BY <1>2 DEF States
<1>4. \A e \in Deposits : c[Wit(e)] = chain[Wit(e)]
  BY <1>2, ItemsAre DEF Dep, Wit
<1>5. \A e \in Deposits \ {d} : c[Dep(e)] = chain[Dep(e)]
  BY <1>2, ItemsAre DEF Dep
<1>6. \A e \in Deposits : c[Dep(e)] = None \/ c[Wit(e)] = None
  BY <1>1, <1>2, <1>4, <1>5 DEF Either
<1>7. \A e \in Deposits : chain[Wit(e)] # None => c[Dep(e)] = None
  BY <1>1, <1>2, <1>5 DEF Either
<1>. HIDE DEF c
<1>. QED
  BY <1>1, <1>3, <1>6, <1>7, ChangeKeeps

LEMMA WithdrawKeeps ==
    ASSUME MetricsAssumption, IInv, NEW d \in Deposits, NEW s \in WithdrawalStates, Withdraw(d, s)
    PROVE  IInv'
<1>. DEFINE c == [[chain EXCEPT ![Dep(d)] = None] EXCEPT ![Wit(d)] = s]
<1>1. chain[Dep(d)] # None /\ Change(c)
  BY DEF Withdraw, Dep, Wit
<1>2. chain \in [Items -> States \cup {None}] /\ Either
  BY DEF IInv, Typed
<1>3. c \in [Items -> States \cup {None}]
  BY <1>2 DEF States
<1>4. \A e \in Deposits \ {d} : c[Dep(e)] = chain[Dep(e)] /\ c[Wit(e)] = chain[Wit(e)]
  BY <1>2, ItemsAre DEF Dep, Wit
<1>5. c[Dep(d)] = None
  BY <1>2, ItemsAre DEF Dep, Wit
<1>6. \A e \in Deposits : c[Dep(e)] = None \/ c[Wit(e)] = None
  BY <1>2, <1>4, <1>5 DEF Either
<1>7. \A e \in Deposits : chain[Wit(e)] # None => c[Dep(e)] = None
  BY <1>2, <1>4, <1>5 DEF Either
<1>. HIDE DEF c
<1>. QED
  BY <1>1, <1>3, <1>6, <1>7, ChangeKeeps

LEMMA UnbondKeeps ==
    ASSUME MetricsAssumption, IInv, NEW d \in Deposits,
           NEW s \in WithdrawalStates \cup {None}, Unbond(d, s)
    PROVE  IInv'
<1>. DEFINE c == [chain EXCEPT ![Wit(d)] = s]
<1>1. chain[Wit(d)] # None /\ Change(c)
  BY DEF Unbond, Wit
<1>2. chain \in [Items -> States \cup {None}] /\ Either
  BY DEF IInv, Typed
<1>3. c \in [Items -> States \cup {None}]
  BY <1>2 DEF States
<1>4. \A e \in Deposits : c[Dep(e)] = chain[Dep(e)]
  BY <1>2, ItemsAre DEF Dep, Wit
<1>5. \A e \in Deposits \ {d} : c[Wit(e)] = chain[Wit(e)]
  BY <1>2, ItemsAre DEF Wit
<1>6. \A e \in Deposits : c[Dep(e)] = None \/ c[Wit(e)] = None
  BY <1>1, <1>2, <1>4, <1>5 DEF Either
<1>7. \A e \in Deposits : chain[Wit(e)] # None => c[Dep(e)] = None
  BY <1>2, <1>4 DEF Either
<1>. HIDE DEF c
<1>. QED
  BY <1>1, <1>3, <1>6, <1>7, ChangeKeeps

\* A pass that begins has everything ahead of it.
LEMMA BeginKeeps ==
    ASSUME MetricsAssumption, IInv, NEW p \in Passes, Begin(p)
    PROVE  IInv'
<1>1. /\ page' = [page EXCEPT ![p] = 1] /\ counted' = [counted EXCEPT ![p] = Nothing]
      /\ kept' = [kept EXCEPT ![p] = Held(chain)] /\ chain' = chain
  BY DEF Begin, Fresh
<1>2. MaxDeposit \in Nat \ {0} /\ Nothing \in [Items -> States \cup {None}]
      /\ Held(chain) \subseteq Deposits
  BY DEF MetricsAssumption, Nothing, Held
<1>3. Typed'
  <2>1. 1 \in 0..Broadcast
    BY <1>2 DEF Broadcast, LastPage
  <2>. QED
    BY <1>1, <1>2, <2>1 DEF IInv, Typed
<1>4. Either'
  BY <1>1 DEF IInv, Either
<1>5. MetInv'
  <2>. SUFFICES ASSUME NEW q \in Passes, page'[q] # 0, NEW d \in kept'[q]
                PROVE  Met(q, d)'
    BY DEF MetInv
  <2>1. CASE q = p
    <3>1. d \in Held(chain) /\ page'[p] = 1
      BY <1>1, <2>1 DEF IInv, Typed
    <3>2. d \in 1..MaxDeposit /\ (chain[Dep(d)] # None \/ chain[Wit(d)] # None)
      BY <3>1, HeldAs DEF Deposits
    <3>3. 1 <= d /\ 1 <= MaxDeposit + d
      BY <1>2, <3>2
    <3>. QED
      BY <1>1, <2>1, <3>1, <3>2, <3>3 DEF Met
  <2>2. CASE q # p
    <3>1. page'[q] = page[q] /\ counted'[q] = counted[q] /\ kept'[q] = kept[q]
      BY <1>1, <2>2 DEF IInv, Typed
    <3>. QED
      BY <1>1, <3>1 DEF IInv, MetInv, Met
  <2>. QED
    BY <2>1, <2>2
<1>. QED
  BY <1>3, <1>4, <1>5 DEF IInv

\* What a page holds is counted; nothing else is passed by.
LEMMA ReadKeeps ==
    ASSUME MetricsAssumption, IInv, NEW p \in Passes, ReadPage(p)
    PROVE  IInv'
<1>. DEFINE k == page[p]
            i == ItemOf(k)
<1>1. /\ k \in 1..LastPage /\ page' = [page EXCEPT ![p] = k + 1]
      /\ counted' = IF chain[i] = None THEN counted ELSE [counted EXCEPT ![p][i] = chain[i]]
      /\ chain' = chain /\ kept' = kept
  BY DEF ReadPage
<1>2. MaxDeposit \in Nat /\ LastPage = 2 * MaxDeposit /\ Broadcast = LastPage + 1
  BY DEF MetricsAssumption, LastPage, Broadcast
<1>3. /\ chain \in [Items -> States \cup {None}] /\ page \in [Passes -> 0..Broadcast]
      /\ counted \in [Passes -> [Items -> States \cup {None}]]
      /\ kept \in [Passes -> SUBSET Deposits]
  BY DEF IInv, Typed
<1>4. i \in Items
  <2>1. CASE k <= MaxDeposit
    <3>1. k \in Deposits /\ i = Dep(k)
      BY <1>1, <1>2, <2>1 DEF ItemOf, Dep, Deposits
    <3>. QED
      BY <3>1, ItemsAre
  <2>2. CASE ~(k <= MaxDeposit)
    <3>1. k - MaxDeposit \in Deposits /\ i = Wit(k - MaxDeposit)
      BY <1>1, <1>2, <2>2 DEF ItemOf, Wit, Deposits
    <3>. QED
      BY <3>1, ItemsAre
  <2>. QED
    BY <2>1, <2>2
<1>5. \A q \in Passes : \A j \in Items :
        /\ counted[q][j] # None => counted'[q][j] # None
        /\ q = p /\ j = i /\ chain[i] # None => counted'[q][j] # None
  BY <1>1, <1>3, <1>4
<1>6. Typed'
  <2>1. k + 1 \in 0..Broadcast
    BY <1>1, <1>2
  <2>2. page' \in [Passes -> 0..Broadcast]
    BY <1>1, <1>3, <2>1
  <2>3. counted' \in [Passes -> [Items -> States \cup {None}]]
    BY <1>1, <1>3, <1>4
  <2>. QED
    BY <1>1, <1>3, <2>2, <2>3 DEF Typed
<1>7. Either'
  BY <1>1 DEF IInv, Either
<1>8. MetInv'
  <2>. SUFFICES ASSUME NEW q \in Passes, page'[q] # 0, NEW d \in kept[q]
                PROVE  Met(q, d)'
    BY <1>1 DEF MetInv
  <2>1. page[q] # 0
    BY <1>1, <1>2, <1>3
  <2>2. Met(q, d) /\ d \in 1..MaxDeposit
    BY <1>3, <2>1 DEF IInv, MetInv, Deposits
  <2>3. CASE \E j \in Items : j[2] = d /\ counted[q][j] # None
    BY <1>5, <2>3 DEF Met
  <2>4. CASE q # p
    <3>1. page'[q] = page[q]
      BY <1>1, <1>3, <2>4
    <3>2. \A j \in Items : counted[q][j] # None => counted'[q][j] # None
      BY <1>5
    <3>. QED
      BY <1>1, <2>2, <3>1, <3>2 DEF Met
  <2>5. CASE q = p /\ chain[Dep(d)] # None /\ k <= d
    <3>1. CASE k = d
      <4>1. i = Dep(d) /\ Dep(d)[2] = d
        BY <1>1, <1>2, <2>2, <3>1 DEF ItemOf, Dep
      <4>2. Dep(d) \in Items /\ counted'[q][Dep(d)] # None
        BY <1>4, <1>5, <2>5, <4>1
      <4>. QED
        BY <4>1, <4>2 DEF Met
    <3>2. CASE k # d
      <4>1. page'[q] <= d
        <5>1. page'[q] = k + 1
          BY <1>1, <1>3, <2>5
        <5>2. k \in Int /\ d \in Int /\ MaxDeposit \in Int /\ k <= d
          BY <1>1, <1>2, <2>2, <2>5
        <5>. QED
          BY <3>2, <5>1, <5>2
      <4>. QED
        BY <1>1, <2>5, <4>1 DEF Met
    <3>. QED
      BY <3>1, <3>2
  <2>6. CASE q = p /\ chain[Wit(d)] # None /\ k <= MaxDeposit + d
    <3>1. CASE k = MaxDeposit + d
      <4>1. i = Wit(d) /\ Wit(d)[2] = d
        <5>1. ~(k <= MaxDeposit) /\ k - MaxDeposit = d
          BY <1>1, <1>2, <2>2, <3>1
        <5>. QED
          BY <5>1 DEF ItemOf, Wit
      <4>2. Wit(d) \in Items /\ counted'[q][Wit(d)] # None
        BY <1>4, <1>5, <2>6, <4>1
      <4>. QED
        BY <4>1, <4>2 DEF Met
    <3>2. CASE k # MaxDeposit + d
      <4>1. page'[q] <= MaxDeposit + d
        <5>1. page'[q] = k + 1
          BY <1>1, <1>3, <2>6
        <5>2. k \in Int /\ d \in Int /\ MaxDeposit \in Int /\ k <= MaxDeposit + d
          BY <1>1, <1>2, <2>2, <2>6
        <5>. QED
          BY <3>2, <5>1, <5>2
      <4>. QED
        BY <1>1, <2>6, <4>1 DEF Met
    <3>. QED
      BY <3>1, <3>2
  <2>. QED
    BY <2>2, <2>3, <2>4, <2>5, <2>6 DEF Met
<1>. QED
  BY <1>6, <1>7, <1>8 DEF IInv

\* A pass that is over has nothing to count.
LEMMA EndKeeps ==
    ASSUME MetricsAssumption, IInv, NEW p \in Passes, End(p), UNCHANGED <<chain, counted>>
    PROVE  IInv'
<1>1. 0 \in 0..Broadcast
  BY DEF MetricsAssumption, Broadcast, LastPage
<1>2. Typed'
  BY <1>1 DEF End, IInv, Typed
<1>3. Either'
  BY DEF IInv, Either
<1>4. MetInv'
  <2>. SUFFICES ASSUME NEW q \in Passes, page'[q] # 0
                PROVE  \A d \in kept'[q] : Met(q, d)'
    BY DEF MetInv
  <2>1. page'[q] = page[q] /\ kept'[q] = kept[q]
    BY DEF End, IInv, Typed
  <2>. QED
    BY <2>1 DEF IInv, MetInv, Met
<1>. QED
  BY <1>2, <1>3, <1>4 DEF IInv

LEMMA StepKeeps ==
    ASSUME MetricsAssumption, IInv, [Next]_vars
    PROVE  IInv'
<1>1. ASSUME NEW p \in Passes, SetGauges(p) \/ Fail(p)
      PROVE  IInv'
  BY <1>1, EndKeeps DEF SetGauges, Fail
<1>2. ASSUME UNCHANGED vars
      PROVE  IInv'
  BY <1>2 DEF vars, IInv, Typed, Either, MetInv, Met
<1>. QED
  BY <1>1, <1>2, DepositKeeps, WithdrawKeeps, UnbondKeeps, BeginKeeps, ReadKeeps DEF Next

-----------------------------------------------------------------------------

\* The invariant holds of every state.
THEOREM Inductive ==
    ASSUME MetricsAssumption
    PROVE  Spec => []IInv
<1>1. Init => IInv
  <2>. SUFFICES ASSUME Init
                PROVE  IInv
    OBVIOUS
  <2>1. Typed
    BY DEF Init, Typed, Nothing, Broadcast, LastPage, MetricsAssumption
  <2>2. Either
    BY ItemsAre DEF Init, Either, Nothing
  <2>3. MetInv
    BY DEF Init, MetInv
  <2>. QED
    BY <2>1, <2>2, <2>3 DEF IInv
<1>2. IInv /\ [Next]_vars => IInv'
  BY StepKeeps
<1>. QED
  BY <1>1, <1>2, PTL DEF Spec

\* Every deposit that was there when a pass began, and has not left the chain, is
\* counted by it (metric.scheduler.ts:156-210).
THEOREM NothingKeptIsMissed ==
    ASSUME MetricsAssumption
    PROVE  Spec => []KeptAreCounted
<1>1. IInv => KeptAreCounted
  <2>. SUFFICES ASSUME IInv, NEW p \in Passes, page[p] = Broadcast, NEW d \in kept[p]
                PROVE  \E i \in Items : i[2] = d /\ counted[p][i] # None
    BY DEF KeptAreCounted
  <2>1. MaxDeposit \in Nat \ {0} /\ Broadcast = 2 * MaxDeposit + 1 /\ d \in 1..MaxDeposit
    BY DEF MetricsAssumption, Broadcast, LastPage, IInv, Typed, Deposits
  <2>2. Met(p, d)
    BY <2>1 DEF IInv, MetInv
  <2>3. ~(Broadcast <= d) /\ ~(Broadcast <= MaxDeposit + d)
    BY <2>1
  <2>. QED
    BY <2>2, <2>3 DEF Met
<1>. QED
  BY <1>1, Inductive, PTL

-----------------------------------------------------------------------------
(* What an undisturbed pass counts.                                         *)

\* It has counted what it passed by, as it is on the chain, and nothing else.
Seen ==
    \A p \in Passes \ disturbed : page[p] # 0 =>
        \A k \in 1..LastPage :
            counted[p][ItemOf(k)] = IF k < page[p] THEN chain[ItemOf(k)] ELSE None

\* The pages have all items, and no two of them the same one.
LEMMA PagesAreItems ==
    ASSUME MetricsAssumption
    PROVE  /\ LastPage \in Nat /\ LastPage = 2 * MaxDeposit /\ Broadcast = LastPage + 1
           /\ \A k \in 1..LastPage : ItemOf(k) \in Items
           /\ \A k, l \in 1..LastPage : ItemOf(k) = ItemOf(l) => k = l
           /\ \A i \in Items : \E k \in 1..LastPage : i = ItemOf(k)
<1>1. MaxDeposit \in Nat /\ LastPage = 2 * MaxDeposit /\ Broadcast = LastPage + 1
  BY DEF MetricsAssumption, LastPage, Broadcast
<1>2. \A k \in 1..LastPage :
        /\ k <= MaxDeposit => ItemOf(k) = Dep(k) /\ k \in Deposits
        /\ ~(k <= MaxDeposit) => ItemOf(k) = Wit(k - MaxDeposit) /\ k - MaxDeposit \in Deposits
  BY <1>1 DEF ItemOf, Dep, Wit, Deposits
<1>3. \A k \in 1..LastPage : ItemOf(k) \in Items
  BY <1>2, ItemsAre
<1>4. \A d, e : Dep(d) # Wit(e) /\ (Dep(d) = Dep(e) => d = e) /\ (Wit(d) = Wit(e) => d = e)
  BY DEF Dep, Wit
<1>5. ASSUME NEW k \in 1..LastPage, NEW l \in 1..LastPage, ItemOf(k) = ItemOf(l)
      PROVE  k = l
  <2>1. CASE k <= MaxDeposit /\ l <= MaxDeposit
    BY <1>2, <1>4, <1>5, <2>1
  <2>2. CASE ~(k <= MaxDeposit) /\ ~(l <= MaxDeposit)
    <3>1. k - MaxDeposit = l - MaxDeposit
      BY <1>2, <1>4, <1>5, <2>2
    <3>. QED
      BY <1>1, <3>1
  <2>. QED
    BY <1>2, <1>4, <1>5, <2>1, <2>2
<1>6. ASSUME NEW i \in Items
      PROVE  \E k \in 1..LastPage : i = ItemOf(k)
  <2>1. PICK d \in Deposits : i = Dep(d) \/ i = Wit(d)
    BY ItemsAre
  <2>2. /\ d \in 1..LastPage /\ d <= MaxDeposit
        /\ MaxDeposit + d \in 1..LastPage /\ ~(MaxDeposit + d <= MaxDeposit)
        /\ (MaxDeposit + d) - MaxDeposit = d
    BY <1>1 DEF Deposits
  <2>3. ItemOf(d) = Dep(d) /\ ItemOf(MaxDeposit + d) = Wit(d)
    BY <2>2 DEF ItemOf, Dep, Wit
  <2>. QED
    BY <2>1, <2>2, <2>3
<1>. QED
  BY <1>1, <1>3, <1>5, <1>6

LEMMA SeenKeeps ==
    ASSUME MetricsAssumption, IInv, Seen, [Next]_vars
    PROVE  Seen'
<1>. USE DEF IInv, Typed
<1>1. ASSUME NEW c, Change(c)
      PROVE  Seen'
  BY <1>1 DEF Change, Seen, Running
<1>2. ASSUME NEW p \in Passes, Begin(p)
      PROVE  Seen'
  <2>1. /\ page' = [page EXCEPT ![p] = 1] /\ counted' = [counted EXCEPT ![p] = Nothing]
        /\ disturbed' = (IF Running = {} THEN disturbed \ {p} ELSE disturbed \cup Running \cup {p})
    BY <1>2 DEF Begin, Fresh
  <2>. SUFFICES ASSUME NEW q \in Passes, q \notin disturbed', page'[q] # 0, NEW k \in 1..LastPage
                PROVE  counted'[q][ItemOf(k)] = IF k < page'[q] THEN chain'[ItemOf(k)] ELSE None
    BY DEF Seen, ItemOf, LastPage
  <2>2. q = p
    BY <2>1 DEF Running
  <2>3. counted'[q] = Nothing /\ page'[q] = 1 /\ ~(k < 1)
    BY <2>1, <2>2
  <2>. QED
    BY <2>3, PagesAreItems DEF Nothing
<1>3. ASSUME NEW p \in Passes, ReadPage(p)
      PROVE  Seen'
  <2>. DEFINE n == page[p]
              i == ItemOf(n)
  <2>1. /\ n \in 1..LastPage /\ page' = [page EXCEPT ![p] = n + 1]
        /\ counted' = IF chain[i] = None THEN counted
                      ELSE [counted EXCEPT ![p] = [counted[p] EXCEPT ![i] = chain[i]]]
        /\ chain' = chain /\ disturbed' = disturbed
    BY <1>3 DEF ReadPage
  <2>. SUFFICES ASSUME NEW q \in Passes, q \notin disturbed, page'[q] # 0, NEW k \in 1..LastPage
                PROVE  counted'[q][ItemOf(k)] = IF k < page'[q] THEN chain'[ItemOf(k)] ELSE None
    BY <2>1 DEF Seen, ItemOf, LastPage
  <2>2. CASE q # p
    <3>1. page'[q] = page[q] /\ counted'[q] = counted[q]
      BY <2>1, <2>2
    <3>. QED
      BY <2>1, <3>1 DEF Seen
  <2>3. CASE q = p
    <3>1. counted[p][ItemOf(k)] = IF k < n THEN chain[ItemOf(k)] ELSE None
      BY <2>1, <2>3 DEF Seen
    <3>2. /\ page'[q] = n + 1 /\ ItemOf(k) \in Items /\ i \in Items /\ n \in Int /\ k \in Int
          /\ ItemOf(k) = i => k = n
      BY <2>1, <2>3, PagesAreItems
    <3>3. CASE k = n
      <4>1. counted'[p][i] = chain[i]
        BY <2>1, <3>1, <3>2, <3>3
      <4>. QED
        BY <2>1, <2>3, <3>2, <3>3, <4>1
    <3>4. CASE k # n
      <4>1. counted'[p][ItemOf(k)] = counted[p][ItemOf(k)]
        BY <2>1, <3>2, <3>4
      <4>2. n \in Int /\ k \in Int /\ page'[q] = n + 1
        BY <3>2
      <4>3. k < page'[q] <=> k < n
        <5>. HIDE DEF n
        <5>. QED
          BY <3>4, <4>2
      <4>4. counted'[q][ItemOf(k)] = counted[p][ItemOf(k)] /\ chain' = chain
        BY <2>1, <2>3, <4>1
      <4>. QED
        BY <3>1, <4>3, <4>4
    <3>. QED
      BY <3>3, <3>4
  <2>. QED
    BY <2>2, <2>3
<1>4. ASSUME NEW p \in Passes, End(p), UNCHANGED <<chain, counted, disturbed>>
      PROVE  Seen'
  <2>. SUFFICES ASSUME NEW q \in Passes, q \notin disturbed, page'[q] # 0, NEW k \in 1..LastPage
                PROVE  counted[q][ItemOf(k)] = IF k < page'[q] THEN chain[ItemOf(k)] ELSE None
    BY <1>4 DEF Seen, ItemOf, LastPage
  <2>1. page'[q] = page[q]
    BY <1>4 DEF End
  <2>. QED
    BY <2>1 DEF Seen
<1>5. CASE UNCHANGED vars
  BY <1>5 DEF vars, Seen, ItemOf, LastPage
<1>. QED
  BY <1>1, <1>2, <1>3, <1>4, <1>5 DEF Next, Deposit, Withdraw, Unbond, SetGauges, Fail

\* At the end it has counted what is on the chain.
LEMMA SeenIsChain ==
    ASSUME MetricsAssumption, IInv, Seen, NEW p \in Passes \ disturbed, page[p] = Broadcast
    PROVE  counted[p] = chain
<1>1. \A i \in Items : counted[p][i] = chain[i]
  <2>. SUFFICES ASSUME NEW i \in Items
                PROVE  counted[p][i] = chain[i]
    OBVIOUS
  <2>1. PICK k \in 1..LastPage : i = ItemOf(k)
    BY PagesAreItems
  <2>2. page[p] # 0 /\ k < page[p]
    BY PagesAreItems
  <2>. QED
    BY <2>1, <2>2 DEF Seen
<1>. QED
  BY <1>1 DEF IInv, Typed

\* A pass that nothing disturbed leaves the right count on every gauge but those whose
\* state nothing is in (MetricScheduler.updateMillionsBasic).
THEOREM UndisturbedIsCounted ==
    ASSUME MetricsAssumption
    PROVE  Spec => UndisturbedGauges
<1>1. IInv /\ Seen /\ [Next]_vars => [SetsCounts]_vars
  <2>. SUFFICES ASSUME IInv, Seen, NEW p \in Passes, SetGauges(p), p \notin disturbed,
                       NEW s \in States, CountIn(chain, s) # 0
                PROVE  gauge'[s] = CountIn(chain, s)
    BY DEF SetsCounts
  <2>1. counted[p] = chain
    BY SeenIsChain DEF SetGauges
  <2>2. gauge'[s] = IF CountIn(counted[p], s) = 0 THEN gauge[s] ELSE CountIn(counted[p], s)
    BY DEF SetGauges
  <2>. QED
    BY <2>1, <2>2
<1>2. Init => Seen
  BY DEF Init, Seen
<1>3. IInv /\ Seen /\ [Next]_vars => Seen'
  BY SeenKeeps
<1>. QED
  BY <1>1, <1>2, <1>3, Inductive, PTL DEF Spec, UndisturbedGauges

-----------------------------------------------------------------------------
(* Types.                                                                   *)

\* A deposit has the states of deposits, a withdrawal those of withdrawals.
Kinds(c) ==
    \A d \in Deposits : /\ c[Dep(d)] \in DepositStates \cup {None}
                        /\ c[Wit(d)] \in WithdrawalStates \cup {None}

TypeInv == TypeOK /\ Kinds(chain) /\ \A p \in Passes : Kinds(counted[p])

\* No state is counted more often than there are deposits.
LEMMA CountIsBounded ==
    ASSUME MetricsAssumption, NEW c \in [Items -> States \cup {None}], Kinds(c), NEW s \in States
    PROVE  CountIn(c, s) \in 0..MaxDeposit
<1>. DEFINE S == {i \in Items : c[i] = s}
            f == [i \in S |-> i[2]]
<1>1. /\ IsFiniteSet(Deposits) /\ Cardinality(Deposits) = MaxDeposit /\ MaxDeposit \in Nat
      /\ s # None /\ (s \in DepositStates => s \notin WithdrawalStates)
  BY FS_Interval DEF MetricsAssumption, Deposits, States
<1>2. \A i \in S : i[2] \in Deposits /\ i = IF s \in DepositStates THEN Dep(i[2]) ELSE Wit(i[2])
  <2>. SUFFICES ASSUME NEW i \in S
                PROVE  i[2] \in Deposits /\ i = IF s \in DepositStates THEN Dep(i[2]) ELSE Wit(i[2])
    OBVIOUS
  <2>1. i[2] \in Deposits /\ (i = Dep(i[2]) \/ i = Wit(i[2])) /\ c[i] = s
    BY ItemsAre
  <2>2. c[Dep(i[2])] \in DepositStates \cup {None} /\ c[Wit(i[2])] \in WithdrawalStates \cup {None}
    BY <2>1 DEF Kinds
  <2>. QED
    BY <1>1, <2>1, <2>2
<1>3. f \in Injection(S, Deposits)
  <2>1. f \in [S -> Deposits]
    BY <1>2
  <2>2. \A i, j \in S : f[i] = f[j] => i = j
    BY <1>2
  <2>. QED
    BY <2>1, <2>2 DEF Injection, IsInjective
<1>4. IsFiniteSet(S) /\ Cardinality(S) <= Cardinality(Deposits)
  BY <1>1, <1>3, FS_Injection
<1>5. Cardinality(S) \in Nat
  BY <1>4, FS_CardinalityType
<1>. QED
  BY <1>1, <1>4, <1>5 DEF CountIn

\* The changes of the chain.
LEMMA ChangeTyped ==
    ASSUME MetricsAssumption, TypeInv, NEW d \in Deposits,
           \/ \E s \in DepositStates : Deposit(d, s)
           \/ \E s \in WithdrawalStates : Withdraw(d, s)
           \/ \E s \in WithdrawalStates \cup {None} : Unbond(d, s)
    PROVE  TypeInv'
<1>. USE DEF TypeInv, TypeOK
<1>1. PICK c \in [Items -> States \cup {None}] : Change(c) /\ Kinds(c)
  <2>1. Dep(d) \in Items /\ Wit(d) \in Items
    BY ItemsAre
  <2>2. ASSUME NEW e \in Deposits, e # d
        PROVE  Dep(e) # Dep(d) /\ Wit(e) # Wit(d)
    BY <2>2 DEF Dep, Wit
  <2>3. \A e, h : Dep(e) # Wit(h)
    BY DEF Dep, Wit
  <2>4. \A e \in Deposits : Dep(e) \in Items /\ Wit(e) \in Items
    BY ItemsAre
  <2>5. ASSUME NEW s \in DepositStates, Deposit(d, s)
        PROVE  \E c \in [Items -> States \cup {None}] : Change(c) /\ Kinds(c)
    <3>. DEFINE c == [chain EXCEPT ![Dep(d)] = s]
    <3>1. Change(c)
      BY <2>5 DEF Deposit, Dep
    <3>2. c \in [Items -> States \cup {None}]
      BY DEF States
    <3>3. Kinds(c)
      BY <2>1, <2>2, <2>3, <2>4 DEF Kinds
    <3>. QED
      BY <3>1, <3>2, <3>3
  <2>6. ASSUME NEW s \in WithdrawalStates, Withdraw(d, s)
        PROVE  \E c \in [Items -> States \cup {None}] : Change(c) /\ Kinds(c)
    <3>. DEFINE c == [[chain EXCEPT ![Dep(d)] = None] EXCEPT ![Wit(d)] = s]
    <3>1. Change(c)
      BY <2>6 DEF Withdraw, Dep, Wit
    <3>2. c \in [Items -> States \cup {None}]
      BY DEF States
    <3>3. Kinds(c)
      BY <2>1, <2>2, <2>3, <2>4 DEF Kinds
    <3>. QED
      BY <3>1, <3>2, <3>3
  <2>7. ASSUME NEW s \in WithdrawalStates \cup {None}, Unbond(d, s)
        PROVE  \E c \in [Items -> States \cup {None}] : Change(c) /\ Kinds(c)
    <3>. DEFINE c == [chain EXCEPT ![Wit(d)] = s]
    <3>1. Change(c)
      BY <2>7 DEF Unbond, Wit
    <3>2. c \in [Items -> States \cup {None}]
      BY DEF States
    <3>3. Kinds(c)
      BY <2>1, <2>2, <2>3, <2>4 DEF Kinds
    <3>. QED
      BY <3>1, <3>2, <3>3
  <2>. QED
    BY <2>5, <2>6, <2>7
<1>2. /\ chain' = c /\ kept' = [p \in Passes |-> kept[p] \cap Held(c)]
      /\ disturbed' = disturbed \cup Running /\ bounds.changes < MaxChanges
      /\ bounds' = [bounds EXCEPT !.changes = bounds.changes + 1]
      /\ UNCHANGED <<gauge, page, counted>>
  BY <1>1 DEF Change
<1>3. bounds' \in [changes : 0..MaxChanges, failures : 0..MaxFailures]
  <2>1. bounds.changes + 1 \in 0..MaxChanges
    BY <1>2 DEF MetricsAssumption
  <2>. QED
    BY <1>2, <2>1
<1>4. kept' \in [Passes -> SUBSET Deposits] /\ disturbed' \subseteq Passes
  BY <1>2 DEF Running
<1>. QED
  BY <1>1, <1>2, <1>3, <1>4 DEF Kinds, Deposits, Items, States, Broadcast, LastPage, Dep, Wit

LEMMA ReadTyped ==
    ASSUME MetricsAssumption, TypeInv, NEW p \in Passes, ReadPage(p)
    PROVE  TypeInv'
<1>. USE DEF TypeInv, TypeOK
<1>. DEFINE k == page[p]
            i == ItemOf(k)
            new == [counted[p] EXCEPT ![i] = chain[i]]
<1>1. /\ k \in 1..LastPage /\ page' = [page EXCEPT ![p] = k + 1]
      /\ counted' = IF chain[i] = None THEN counted ELSE [counted EXCEPT ![p] = new]
      /\ UNCHANGED <<chain, gauge, kept, disturbed, bounds>>
  BY DEF ReadPage
<1>2. page' \in [Passes -> 0..Broadcast]
  <2>1. k + 1 \in 0..Broadcast
    BY <1>1, PagesAreItems
  <2>. QED
    BY <1>1, <2>1
<1>3. i \in Items
  BY <1>1, PagesAreItems
<1>4. new \in [Items -> States \cup {None}]
  BY <1>3
<1>5. counted' \in [Passes -> [Items -> States \cup {None}]]
  BY <1>1, <1>4
<1>6. Kinds(new)
  <2>1. \A j \in Items : new[j] = IF j = i THEN chain[i] ELSE counted[p][j]
    BY <1>3
  <2>. HIDE DEF new
  <2>. QED
    BY <2>1, ItemsAre DEF Kinds
<1>7. \A q \in Passes : counted'[q] = counted[q] \/ counted'[q] = new
  BY <1>1, <1>4
<1>8. \A q \in Passes : Kinds(counted'[q])
  BY <1>6, <1>7
<1>. QED
  BY <1>1, <1>2, <1>5, <1>8 DEF Kinds, Deposits, Items, States, Broadcast, LastPage, Dep, Wit

LEMMA StepTyped ==
    ASSUME MetricsAssumption, TypeInv, [Next]_vars
    PROVE  TypeInv'
<1>. USE DEF TypeInv, TypeOK
<1>0. /\ MaxDeposit \in Nat \ {0} /\ MaxFailures \in Nat
      /\ 0 \in 0..Broadcast /\ 1 \in 0..Broadcast
  BY DEF MetricsAssumption, Broadcast, LastPage
<1>1. ASSUME NEW p \in Passes, Begin(p) PROVE TypeInv'
  <2>1. /\ page' = [page EXCEPT ![p] = 1] /\ counted' = [counted EXCEPT ![p] = Nothing]
        /\ kept' = [kept EXCEPT ![p] = Held(chain)] /\ disturbed' \subseteq Passes
        /\ UNCHANGED <<chain, gauge, bounds>>
    BY <1>1 DEF Begin, Fresh, Running
  <2>2. Nothing \in [Items -> States \cup {None}] /\ Held(chain) \subseteq Deposits /\ Kinds(Nothing)
    BY ItemsAre DEF Nothing, Held, Kinds
  <2>3. /\ page' \in [Passes -> 0..Broadcast] /\ kept' \in [Passes -> SUBSET Deposits]
        /\ counted' \in [Passes -> [Items -> States \cup {None}]]
    BY <1>0, <2>1, <2>2
  <2>4. \A q \in Passes : Kinds(counted'[q])
    BY <2>1, <2>2
  <2>. QED
    BY <2>1, <2>3, <2>4 DEF Kinds, Deposits, Items, States, Broadcast, LastPage, Dep, Wit
<1>2. ASSUME NEW p \in Passes, SetGauges(p) PROVE TypeInv'
  <2>1. \A s \in States : CountIn(counted[p], s) \in 0..MaxDeposit
    BY CountIsBounded
  <2>2. gauge' \in [States -> 0..MaxDeposit]
    BY <1>2, <2>1 DEF SetGauges
  <2>3. page' \in [Passes -> 0..Broadcast] /\ kept' \in [Passes -> SUBSET Deposits]
    BY <1>0, <1>2 DEF SetGauges, End
  <2>4. UNCHANGED <<chain, counted, disturbed, bounds>>
    BY <1>2 DEF SetGauges
  <2>. QED
    BY <2>2, <2>3, <2>4 DEF Kinds, Deposits, Items, States, Broadcast, LastPage, Dep, Wit
<1>3. ASSUME NEW p \in Passes, Fail(p) PROVE TypeInv'
  <2>1. page' \in [Passes -> 0..Broadcast] /\ kept' \in [Passes -> SUBSET Deposits]
    BY <1>0, <1>3 DEF Fail, End
  <2>2. /\ bounds' = [bounds EXCEPT !.failures = bounds.failures + 1] /\ bounds.failures < MaxFailures
        /\ UNCHANGED <<gauge, chain, counted, disturbed>>
    BY <1>3 DEF Fail
  <2>3. bounds.failures + 1 \in 0..MaxFailures
    BY <1>0, <2>2
  <2>4. bounds' \in [changes : 0..MaxChanges, failures : 0..MaxFailures]
    BY <2>2, <2>3
  <2>. QED
    BY <2>1, <2>2, <2>4 DEF Kinds, Deposits, Items, States, Broadcast, LastPage, Dep, Wit
<1>4. CASE UNCHANGED vars
  BY <1>4 DEF vars, Kinds, Deposits, Items, States, Broadcast, LastPage, Dep, Wit
<1>. QED
  BY <1>1, <1>2, <1>3, <1>4, ChangeTyped, ReadTyped DEF Next

\* Every state of the gauges and passes is well typed; no gauge shows more than there
\* are deposits.
THEOREM TypeCorrect ==
    ASSUME MetricsAssumption
    PROVE  Spec => []TypeOK
<1>1. Init => TypeInv
  <2>. SUFFICES ASSUME Init PROVE TypeInv
    OBVIOUS
  <2>1. TypeOK
    BY DEF Init, TypeOK, Nothing, Broadcast, LastPage, MetricsAssumption
  <2>2. Kinds(Nothing)
    BY ItemsAre DEF Kinds, Nothing
  <2>. QED
    BY <2>1, <2>2 DEF Init, TypeInv
<1>2. TypeInv /\ [Next]_vars => TypeInv'
  BY StepTyped
<1>3. TypeInv => TypeOK
  BY DEF TypeInv
<1>. QED
  BY <1>1, <1>2, <1>3, PTL DEF Spec
================================================================================
