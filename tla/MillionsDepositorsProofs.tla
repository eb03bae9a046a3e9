----------------------- MODULE MillionsDepositorsProofs -----------------------
(***************************************************************************)
(* Type correctness and LonePassReplacesAll for any number of deposits,    *)
(* depositors and passes.  The sums are numbers, the order of the          *)
(* depositors is total, and so the ranks are 1, 2, ... (Ranks).  A pass on *)
(* its own finds the table empty from its delete to its write (LoneInv).   *)
(***************************************************************************)
EXTENDS MillionsDepositors, FiniteSetTheorems, WellFoundedInduction, TLAPS

-----------------------------------------------------------------------------
(* Sums.                                                                    *)

LEMMA LeastOf ==
    ASSUME NEW T \in SUBSET Nat, T # {}
    PROVE  \E m \in T : \A x \in T : m <= x
<1>. DEFINE R == {ss \in Nat \X Nat : ss[1] < ss[2]}
<1>1. \A x, y \in Nat : <<x, y>> \in R <=> x < y
  OBVIOUS
<1>2. IsWellFoundedOn(R, Nat)
  BY NatLessThanWellFounded DEF OpToRel
<1>. HIDE DEF R
<1>3. PICK m \in T : \A y \in T : ~(<<y, m>> \in R)
  BY <1>2, WFMin
<1>4. ASSUME NEW y \in T PROVE m <= y
  <2>1. m \in Nat /\ y \in Nat
    OBVIOUS
  <2>2. ~(<<y, m>> \in R)
    BY <1>3, Zenon
  <2>3. ~(y < m)
    BY <1>1, <2>1, <2>2
  <2>. QED
    BY <2>1, <2>3
<1>. QED
  BY <1>4

\* A set of deposits is finite, and smaller without one of them.
LEMMA DepositsFinite ==
    ASSUME MillionsDepositorsAssumption, NEW S \in SUBSET Deposits
    PROVE  /\ IsFiniteSet(S) /\ Cardinality(S) \in Nat /\ (Cardinality(S) = 0 <=> S = {})
           /\ \A s \in SUBSET S : Cardinality(s) \in Nat /\ Cardinality(s) <= Cardinality(S)
           /\ \A x \in S : Cardinality(S \ {x}) \in Nat /\ Cardinality(S \ {x}) = Cardinality(S) - 1
<1>1. IsFiniteSet(S)
  <2>1. IsFiniteSet(Deposits)
    BY FS_Interval DEF MillionsDepositorsAssumption, Deposits
  <2>. QED
    BY <2>1, FS_Subset
<1>2. Cardinality(S) \in Nat /\ (Cardinality(S) = 0 <=> S = {})
  BY <1>1, FS_CardinalityType, FS_EmptySet
<1>3. \A s \in SUBSET S : Cardinality(s) \in Nat /\ Cardinality(s) <= Cardinality(S)
  BY <1>1, FS_Subset, FS_CardinalityType
<1>4. \A x \in S : Cardinality(S \ {x}) \in Nat /\ Cardinality(S \ {x}) = Cardinality(S) - 1
  BY <1>1, <1>3, FS_RemoveElement
<1>. QED
  BY <1>1, <1>2, <1>3, <1>4

\* The sum over a set of deposits is a number.  It is defined by recursion over the set's
\* subsets; there is a function that obeys the recursion, because there is one for the
\* subsets of at most n elements, for every n.
LEMMA SumIsNumber ==
    ASSUME MillionsDepositorsAssumption, NEW S \in SUBSET Deposits
    PROVE  MapThenSumSet(LAMBDA d : Amount[d], S) \in Nat
<1>. DEFINE P == SUBSET S
            one(s) == CHOOSE x \in s : TRUE
            rest(s) == s \ {one(s)}
            Sums(g) == [s \in P |-> IF s = {} THEN 0 ELSE Amount[one(s)] + g[rest(s)]]
            Upto(n) == \E g \in [P -> Nat] : \A s \in P : Cardinality(s) <= n => g[s] = Sums(g)[s]
<1>1. ASSUME NEW s \in P, s # {}
      PROVE  /\ one(s) \in s /\ Amount[one(s)] \in Nat /\ rest(s) \in P
             /\ Cardinality(s) \in Nat /\ Cardinality(rest(s)) \in Nat
             /\ Cardinality(rest(s)) = Cardinality(s) - 1
  BY <1>1, DepositsFinite DEF MillionsDepositorsAssumption, Deposits
<1>2. \A s \in P : Cardinality(s) \in Nat /\ (Cardinality(s) = 0 <=> s = {})
  BY DepositsFinite
<1>. HIDE DEF P, one, rest
<1>3. ASSUME NEW g \in [P -> Nat] PROVE Sums(g) \in [P -> Nat]
  BY <1>1
<1>4. Upto(0)
  <2>. DEFINE g == [s \in P |-> 0]
  <2>. SUFFICES \A s \in P : Cardinality(s) <= 0 => g[s] = Sums(g)[s]
    OBVIOUS
  <2>. QED
    BY <1>2
<1>5. ASSUME NEW n \in Nat, Upto(n) PROVE Upto(n + 1)
  <2>1. PICK g \in [P -> Nat] : \A s \in P : Cardinality(s) <= n => g[s] = Sums(g)[s]
    BY <1>5
  <2>. DEFINE h == Sums(g)
  <2>2. h \in [P -> Nat]
    BY <1>3
  <2>3. ASSUME NEW s \in P, Cardinality(s) <= n + 1 PROVE h[s] = Sums(h)[s]
    <3>1. CASE s = {}
      BY <3>1
    <3>2. CASE s # {}
      <4>1. rest(s) \in P /\ Cardinality(rest(s)) <= n
        BY <1>1, <2>3, <3>2
      <4>2. g[rest(s)] = h[rest(s)]
        BY <2>1, <4>1
      <4>. QED
        BY <3>2, <4>2
    <3>. QED
      BY <3>1, <3>2
  <2>. HIDE DEF h
  <2>. QED
    BY <2>2, <2>3
<1>. HIDE DEF Upto
<1>6. \A n \in Nat : Upto(n)
  <2>. DEFINE T == {n \in Nat : ~Upto(n)}
  <2>. SUFFICES ASSUME T # {} PROVE FALSE
    OBVIOUS
  <2>1. PICK m \in T : \A x \in T : m <= x
    BY LeastOf
  <2>2. m # 0 /\ m - 1 \in Nat /\ m = (m - 1) + 1 /\ ~(m <= m - 1)
    BY <1>4
  <2>3. Upto(m - 1)
    BY <2>1, <2>2
  <2>. QED
    BY <1>5, <2>2, <2>3
<1>7. \E g : g = Sums(g)
  <2>1. Cardinality(S) \in Nat /\ \A s \in P : Cardinality(s) <= Cardinality(S)
    BY DepositsFinite DEF P
  <2>2. PICK g \in [P -> Nat] : \A s \in P : g[s] = Sums(g)[s]
    BY <1>6, <2>1 DEF Upto
  <2>3. g = Sums(g)
    BY <1>3, <2>2
  <2>. QED
    BY <2>3
<1>. DEFINE iter == CHOOSE g : g = Sums(g)
<1>8. iter = Sums(iter)
  BY <1>7
<1>. HIDE DEF iter
<1>9. \A s \in P : iter[s] \in Nat
  <2>. DEFINE T == {n \in Nat : \E s \in P : Cardinality(s) = n /\ iter[s] \notin Nat}
  <2>. SUFFICES ASSUME T # {} PROVE FALSE
    BY <1>2
  <2>1. PICK m \in T : \A x \in T : m <= x
    BY LeastOf
  <2>2. PICK s \in P : Cardinality(s) = m /\ iter[s] \notin Nat
    BY <2>1
  <2>3. iter[s] = IF s = {} THEN 0 ELSE Amount[one(s)] + iter[rest(s)]
    BY <1>8
  <2>4. s # {}
    BY <2>2, <2>3
  <2>5. rest(s) \in P /\ Cardinality(rest(s)) \in Nat /\ Cardinality(rest(s)) < m
    BY <1>1, <2>2, <2>4
  <2>6. iter[rest(s)] \in Nat
    BY <2>1, <2>5
  <2>. QED
    BY <1>1, <2>2, <2>3, <2>4, <2>6
<1>10. MapThenSumSet(LAMBDA d : Amount[d], S) = iter[S]
  BY DEF MapThenSumSet, MapThenFoldSet, iter, P, one, rest
<1>. QED
  BY <1>9, <1>10 DEF P

-----------------------------------------------------------------------------
(* The ranking.                                                             *)

Readings == [Deposits -> States]
AheadOf(r, a) == {b \in Depositors(r) : Precedes(r, b, a)}

\* The sum of a depositor, and his first deposit, which is nobody else's.
LEMMA SumsAre ==
    ASSUME MillionsDepositorsAssumption, NEW r
    PROVE  /\ \A a : RawAmount(r, a) \in Nat
           /\ \A a \in Depositors(r) : Min(Counted(r, a)) \in Deposits
           /\ \A a, b \in Depositors(r) : Min(Counted(r, a)) = Min(Counted(r, b)) => a = b
<1>1. \A a : RawAmount(r, a) \in Nat
  BY SumIsNumber DEF RawAmount, Counted
<1>2. ASSUME NEW a \in Depositors(r)
      PROVE  Min(Counted(r, a)) \in Deposits /\ Owner[Min(Counted(r, a))] = a
  <2>1. Counted(r, a) \in SUBSET Nat /\ Counted(r, a) # {}
    BY DEF Counted, Depositors, Deposits
  <2>2. \E m \in Counted(r, a) : \A x \in Counted(r, a) : m <= x
    BY <2>1, LeastOf
  <2>3. Min(Counted(r, a)) \in Counted(r, a)
    BY <2>2 DEF Min
  <2>. QED
    BY <2>3 DEF Counted
<1>. QED
  BY <1>1, <1>2

\* Of any two depositors one precedes the other.
LEMMA Order ==
    ASSUME MillionsDepositorsAssumption, NEW r
    PROVE  /\ \A a \in Depositors(r) : ~Precedes(r, a, a)
           /\ \A a, b \in Depositors(r) : a # b => Precedes(r, a, b) \/ Precedes(r, b, a)
           /\ \A a, b, c \in Depositors(r) : Precedes(r, a, b) /\ Precedes(r, b, c) => Precedes(r, a, c)
<1>1. \A a \in Depositors(r) : Min(Counted(r, a)) \in Int /\ RawAmount(r, a) \in Int
  BY SumsAre DEF Deposits
<1>2. \A a \in Depositors(r) : ~Precedes(r, a, a)
  BY <1>1 DEF Precedes
<1>3. \A a, b \in Depositors(r) : a # b => Precedes(r, a, b) \/ Precedes(r, b, a)
  BY <1>1, SumsAre DEF Precedes
<1>4. \A a, b, c \in Depositors(r) : Precedes(r, a, b) /\ Precedes(r, b, c) => Precedes(r, a, c)
  BY <1>1 DEF Precedes
<1>. QED
  BY <1>2, <1>3, <1>4

LEMMA DepositorsFinite ==
    ASSUME MillionsDepositorsAssumption, NEW r, NEW S \in SUBSET Depositors(r)
    PROVE  IsFiniteSet(S) /\ Cardinality(S) \in Nat
<1>1. S \in SUBSET Addresses /\ IsFiniteSet(Addresses)
  BY DEF Depositors, MillionsDepositorsAssumption
<1>. QED
  BY <1>1, FS_Subset, FS_CardinalityType

\* A row has a sum and a rank; it is a row.
LEMMA RowIs ==
    ASSUME MillionsDepositorsAssumption, NEW r, NEW a
    PROVE  /\ RowOf(r, a).amount = RawAmount(r, a) /\ RowOf(r, a).amount \in Nat
           /\ RowOf(r, a).rank = Cardinality(AheadOf(r, a)) + 1
           /\ RowOf(r, a).rank \in Nat \ {0} /\ RowOf(r, a) # NoRow
<1>1. Cardinality(AheadOf(r, a)) \in Nat
  BY DepositorsFinite DEF AheadOf
<1>2. RowOf(r, a).amount = RawAmount(r, a) /\ RowOf(r, a).rank = Cardinality(AheadOf(r, a)) + 1
  BY DEF RowOf, AheadOf
<1>3. RowOf(r, a).rank \in Nat \ {0} /\ NoRow.rank = 0
  BY <1>1, <1>2 DEF NoRow
<1>. QED
  BY <1>2, <1>3, SumsAre

\* Who precedes another has a smaller rank.
LEMMA RankFollows ==
    ASSUME MillionsDepositorsAssumption, NEW r, NEW a \in Depositors(r), NEW b \in Depositors(r),
           Precedes(r, a, b)
    PROVE  RowOf(r, a).rank < RowOf(r, b).rank
<1>1. AheadOf(r, a) \subseteq AheadOf(r, b) /\ a \in AheadOf(r, b) /\ a \notin AheadOf(r, a)
  BY Order DEF AheadOf
<1>2. /\ IsFiniteSet(AheadOf(r, b)) /\ Cardinality(AheadOf(r, b)) \in Nat
      /\ Cardinality(AheadOf(r, a)) \in Nat
  BY DepositorsFinite DEF AheadOf
<1>3. Cardinality(AheadOf(r, a)) <= Cardinality(AheadOf(r, b))
  BY <1>1, <1>2, FS_Subset
<1>4. Cardinality(AheadOf(r, a)) # Cardinality(AheadOf(r, b))
  BY <1>1, <1>2, FS_Subset
<1>. QED
  BY <1>2, <1>3, <1>4, RowIs

\* The ranks that the sort gives the depositors are 1, 2, ... (millions.scheduler.ts:321-330).
THEOREM Ranks ==
    ASSUME MillionsDepositorsAssumption, NEW r
    PROVE  {RowOf(r, a).rank : a \in Depositors(r)} = 1..Cardinality(Depositors(r))
<1>. DEFINE D == Depositors(r)
            n == Cardinality(D)
            f == [a \in D |-> RowOf(r, a).rank]
<1>1. IsFiniteSet(D) /\ n \in Nat
  BY DepositorsFinite
<1>2. ASSUME NEW a \in D PROVE RowOf(r, a).rank \in 1..n
  <2>1. AheadOf(r, a) \in SUBSET D /\ a \notin AheadOf(r, a)
    BY Order DEF AheadOf
  <2>2. Cardinality(AheadOf(r, a)) <= n /\ Cardinality(AheadOf(r, a)) # n
    BY <1>1, <2>1, FS_Subset
  <2>3. Cardinality(AheadOf(r, a)) \in Nat
    BY <2>1, DepositorsFinite
  <2>4. Cardinality(AheadOf(r, a)) + 1 \in 1..n
    BY <1>1, <2>2, <2>3
  <2>. QED
    BY <2>4, RowIs
<1>3. \A a, b \in D : f[a] = f[b] => a = b
  <2>. SUFFICES ASSUME NEW a \in D, NEW b \in D, a # b
                PROVE  RowOf(r, a).rank # RowOf(r, b).rank
    OBVIOUS
  <2>1. Precedes(r, a, b) \/ Precedes(r, b, a)
    BY Order
  <2>2. RowOf(r, a).rank < RowOf(r, b).rank \/ RowOf(r, b).rank < RowOf(r, a).rank
    BY <2>1, RankFollows
  <2>. QED
    BY <2>2, RowIs
<1>4. f \in Injection(D, 1..n)
  <2>1. f \in [D -> 1..n]
    BY <1>2
  <2>. QED
    BY <1>3, <2>1 DEF Injection, IsInjective
<1>5. IsFiniteSet(1..n) /\ Cardinality(1..n) = n
  <2>. HIDE DEF n
  <2>1. IsFiniteSet(1..n) /\ Cardinality(1..n) = IF 1 > n THEN 0 ELSE n - 1 + 1
    BY <1>1, FS_Interval
  <2>. QED
    BY <1>1, <2>1
<1>6. f \in Surjection(D, 1..n)
  BY <1>4, <1>5, FS_Injection
<1>7. \A k \in 1..n : \E a \in D : RowOf(r, a).rank = k
  BY <1>6 DEF Surjection
<1>. QED
  BY <1>2, <1>7

-----------------------------------------------------------------------------
(* A pass.                                                                  *)

\* The table that a reading makes.
RankingOf(r) == [a \in Addresses |-> IF a \in Depositors(r) THEN RowOf(r, a) ELSE NoRow]

\* A pass on its own; the table is empty while it is at its second and third step.
LoneInv ==
    \A p \in Passes : p \notin shared /\ pc[p] # "idle" =>
        /\ \A q \in Passes : pc[q] # "idle" => q = p
        /\ pc[p] \in {"select", "write"} => \A a \in Addresses : table[a] = NoRow
        /\ pc[p] = "write" => known[p] = {}
        /\ pc[p] = "done" => table = RankingOf(read[p])

IInv == TypeOK /\ LoneInv

LEMMA RankingTyped ==
    ASSUME MillionsDepositorsAssumption, NEW r
    PROVE  \A a : /\ RowOf(r, a).amount \in Nat /\ RowOf(r, a).rank \in Nat
                  /\ NoRow.amount \in Nat /\ NoRow.rank \in Nat
BY RowIs DEF NoRow

LEMMA StepTyped ==
    ASSUME MillionsDepositorsAssumption, TypeOK, [Next]_vars
    PROVE  TypeOK'
<1>. USE DEF TypeOK
<1>. DEFINE Steps == {"idle", "pages", "delete", "select", "write", "done"}
            Nothing == [d \in Deposits |-> "future"]
<1>0. 1 \in Deposits /\ Nothing \in [Deposits -> States] /\ MaxDeposit \in Nat
  BY DEF MillionsDepositorsAssumption, Deposits, States
<1>1. ASSUME NEW p \in Passes, End(p) PROVE TypeOK'
  <2>1. /\ pc' \in [Passes -> Steps] /\ page' \in [Passes -> Deposits]
        /\ read' \in [Passes -> [Deposits -> States]] /\ known' \in [Passes -> SUBSET Addresses]
        /\ shared' \subseteq Passes /\ UNCHANGED <<deposit, table>>
    BY <1>0, <1>1 DEF End, Goto
  <2>. QED
    BY <2>1 DEF Deposits, States
<1>2. ASSUME NEW d \in Deposits, NEW s \in States, Change(d, s) PROVE TypeOK'
  BY <1>2 DEF Change, Deposits, States
<1>3. ASSUME NEW p \in Passes, Begin(p) PROVE TypeOK'
  BY <1>3 DEF Begin, Goto, Running, Deposits, States
<1>4. ASSUME NEW p \in Passes, ReadPage(p) PROVE TypeOK'
  <2>. DEFINE d == page[p]
              new == [read[p] EXCEPT ![d] = deposit[d]]
  <2>1. /\ read' = [read EXCEPT ![p] = new] /\ UNCHANGED <<deposit, table, known, shared>>
        /\ \/ d < MaxDeposit /\ page' = [page EXCEPT ![p] = d + 1] /\ pc' = pc
           \/ page' = [page EXCEPT ![p] = 1] /\ pc' = [pc EXCEPT ![p] = "delete"]
    BY <1>4 DEF ReadPage, Goto
  <2>2. new \in [Deposits -> States]
    OBVIOUS
  <2>3. d < MaxDeposit => d + 1 \in Deposits
    BY <1>0 DEF Deposits
  <2>4. page' \in [Passes -> Deposits] /\ pc' \in [Passes -> Steps]
    BY <1>0, <2>1, <2>3
  <2>5. read' \in [Passes -> [Deposits -> States]]
    BY <2>1, <2>2
  <2>. QED
    BY <2>1, <2>4, <2>5 DEF Deposits, States
<1>5. ASSUME NEW p \in Passes, Delete(p) PROVE TypeOK'
  <2>1. /\ table' = [a \in Addresses |-> NoRow] /\ pc' \in [Passes -> Steps]
        /\ UNCHANGED <<deposit, page, read, known, shared>>
    BY <1>5 DEF Delete, Goto
  <2>2. DOMAIN table' = Addresses /\ \A a \in Addresses : table'[a].amount \in Nat /\ table'[a].rank \in Nat
    BY <2>1, RankingTyped
  <2>. QED
    BY <2>1, <2>2 DEF Deposits, States
<1>6. ASSUME NEW p \in Passes, Select(p) PROVE TypeOK'
  <2>1. /\ known' \in [Passes -> SUBSET Addresses] /\ pc' \in [Passes -> Steps]
        /\ UNCHANGED <<deposit, table, page, read, shared>>
    BY <1>6 DEF Select, Goto, Depositors
  <2>. QED
    BY <2>1 DEF Deposits, States
<1>7. ASSUME NEW p \in Passes, Write(p) PROVE TypeOK'
  <2>1. /\ table' = Written(p) /\ pc' \in [Passes -> Steps] /\ known' \in [Passes -> SUBSET Addresses]
        /\ UNCHANGED <<deposit, page, read, shared>>
    BY <1>7 DEF Write, Goto
  <2>2. DOMAIN table' = Addresses /\ \A a \in Addresses : table'[a] = RowOf(read[p], a) \/ table'[a] = table[a]
    BY <2>1 DEF Written
  <2>3. \A a \in Addresses : table'[a].amount \in Nat /\ table'[a].rank \in Nat
    BY <2>2, RankingTyped
  <2>. QED
    BY <2>1, <2>2, <2>3 DEF Deposits, States
<1>8. CASE UNCHANGED vars
  BY <1>8 DEF vars, Deposits, States
<1>. QED
  BY <1>1, <1>2, <1>3, <1>4, <1>5, <1>6, <1>7, <1>8
     DEF MillionsDepositorsAssumption, Next, Pass, WriteConflicts, Finish, Fail

\* What another pass does leaves a pass on its own where it is: there is none.
LEMMA OthersStay ==
    ASSUME IInv, NEW p \in Passes, pc[p] # "idle", NEW q \in Passes, q # p, q \notin shared
    PROVE  pc[q] = "idle"
BY DEF IInv, LoneInv

LEMMA StepKeeps ==
    ASSUME MillionsDepositorsAssumption, IInv, [Next]_vars
    PROVE  IInv'
<1>. USE DEF IInv
<1>. DEFINE Good(q) ==
              /\ \A o \in Passes : pc'[o] # "idle" => o = q
              /\ pc'[q] \in {"select", "write"} => \A a \in Addresses : table'[a] = NoRow
              /\ pc'[q] = "write" => known'[q] = {}
              /\ pc'[q] = "done" => table' = RankingOf(read'[q])
<1>0. (\A q \in Passes : q \notin shared' /\ pc'[q] # "idle" => Good(q)) => LoneInv'
  <2>1. \A q : RankingOf(read[q])' = RankingOf(read'[q])
    BY DEF RankingOf, RowOf, RawAmount, Precedes, Counted, Depositors, NoRow, Deposits,
           MapThenSumSet, MapThenFoldSet, Min
  <2>2. NoRow' = NoRow
    BY DEF NoRow
  <2>. QED
    BY <2>1, <2>2 DEF LoneInv
<1>. HIDE DEF Good
\* A step of a pass that goes on.
<1>1. ASSUME NEW p \in Passes, NEW to, pc[p] # "idle", pc' = [pc EXCEPT ![p] = to], shared' = shared,
             p \notin shared => Good(p)
      PROVE  LoneInv'
  <2>. SUFFICES ASSUME NEW q \in Passes, q \notin shared, pc'[q] # "idle" PROVE Good(q)
    BY <1>0, <1>1
  <2>1. q = p
    BY <1>1, OthersStay DEF TypeOK
  <2>. QED
    BY <1>1, <2>1
\* In one that is on its own nobody else moves.
<1>2. ASSUME NEW p \in Passes, p \notin shared, pc[p] # "idle", NEW to, pc' = [pc EXCEPT ![p] = to]
      PROVE  pc'[p] = to /\ \A o \in Passes : pc'[o] # "idle" => o = p
  BY <1>2 DEF LoneInv, TypeOK
<1>3. ASSUME NEW p \in Passes, End(p) PROVE LoneInv'
  <2>1. /\ pc' = [pc EXCEPT ![p] = "idle"] /\ shared' = shared \ {p} /\ table' = table
        /\ known' = [known EXCEPT ![p] = {}]
        /\ \A q \in Passes : q # p => read'[q] = read[q] /\ known'[q] = known[q]
    BY <1>3 DEF End, Goto, TypeOK
  <2>. SUFFICES ASSUME NEW q \in Passes, q \notin shared', pc'[q] # "idle" PROVE Good(q)
    BY <1>0
  <2>2. q # p /\ pc'[q] = pc[q] /\ q \notin shared /\ \A o \in Passes : pc'[o] # "idle" => pc[o] # "idle"
    BY <2>1 DEF TypeOK
  <2>. QED
    BY <2>1, <2>2 DEF Good, LoneInv
<1>4. ASSUME NEW d \in Deposits, NEW s \in States, Change(d, s) PROVE LoneInv'
  <2>1. UNCHANGED <<table, pc, page, read, known, shared>>
    BY <1>4 DEF Change
  <2>. SUFFICES ASSUME NEW q \in Passes, q \notin shared, pc[q] # "idle" PROVE Good(q)
    BY <1>0, <2>1
  <2>. QED
    BY <2>1 DEF Good, LoneInv
<1>5. ASSUME NEW p \in Passes, Begin(p) PROVE LoneInv'
  <2>1. /\ pc[p] = "idle" /\ pc' = [pc EXCEPT ![p] = "pages"]
        /\ shared' = (IF Running = {} THEN shared ELSE shared \cup Running \cup {p})
    BY <1>5 DEF Begin, Goto
  <2>. SUFFICES ASSUME NEW q \in Passes, q \notin shared', pc'[q] # "idle" PROVE Good(q)
    BY <1>0
  <2>2. CASE Running = {}
    <3>1. q = p /\ pc'[q] = "pages" /\ \A o \in Passes : pc'[o] # "idle" => o = p
      BY <2>1, <2>2 DEF Running, TypeOK
    <3>. QED
      BY <3>1 DEF Good
  <2>3. CASE Running # {}
    <3>1. q # p /\ q \notin Running
      BY <2>1, <2>3
    <3>. QED
      BY <2>1, <3>1 DEF Running, TypeOK
  <2>. QED
    BY <2>2, <2>3
<1>6. ASSUME NEW p \in Passes, ReadPage(p) PROVE LoneInv'
  <2>1. PICK to \in {"pages", "delete"} : pc[p] # "idle" /\ pc' = [pc EXCEPT ![p] = to] /\ shared' = shared
    <3>1. pc[p] = "pages" /\ shared' = shared
      BY <1>6 DEF ReadPage
    <3>2. pc' = pc => pc' = [pc EXCEPT ![p] = "pages"]
      BY <3>1 DEF TypeOK
    <3>. QED
      BY <1>6, <3>1, <3>2 DEF ReadPage, Goto
  <2>2. p \notin shared => Good(p)
    BY <1>2, <2>1 DEF Good
  <2>. QED
    BY <1>1, <2>1, <2>2
<1>7. ASSUME NEW p \in Passes, Delete(p) PROVE LoneInv'
  <2>1. /\ pc[p] # "idle" /\ pc' = [pc EXCEPT ![p] = "select"] /\ shared' = shared
        /\ table' = [a \in Addresses |-> NoRow]
    BY <1>7 DEF Delete, Goto
  <2>2. p \notin shared => Good(p)
    BY <1>2, <2>1 DEF Good
  <2>. QED
    BY <1>1, <2>1, <2>2
<1>8. ASSUME NEW p \in Passes, Select(p) PROVE LoneInv'
  <2>1. /\ pc[p] = "select" /\ pc' = [pc EXCEPT ![p] = "write"] /\ shared' = shared /\ table' = table
        /\ known' = [known EXCEPT ![p] = {a \in Depositors(read[p]) : table[a] # NoRow}]
    BY <1>8 DEF Select, Goto
  <2>2. ASSUME p \notin shared PROVE Good(p)
    <3>1. \A a \in Addresses : table[a] = NoRow
      BY <2>1, <2>2 DEF LoneInv
    <3>2. known'[p] = {}
      BY <2>1, <3>1 DEF TypeOK, Depositors
    <3>. QED
      BY <1>2, <2>1, <2>2, <3>1, <3>2 DEF Good
  <2>. QED
    BY <1>1, <2>1, <2>2
<1>9. ASSUME NEW p \in Passes, Write(p) PROVE LoneInv'
  <2>1. /\ pc[p] = "write" /\ pc' = [pc EXCEPT ![p] = "done"] /\ shared' = shared /\ read' = read
        /\ table' = Written(p)
    BY <1>9 DEF Write, Goto
  <2>2. ASSUME p \notin shared PROVE Good(p)
    <3>1. known[p] = {} /\ \A a \in Addresses : table[a] = NoRow
      BY <2>1, <2>2 DEF LoneInv
    <3>2. Written(p) = RankingOf(read[p])
      BY <3>1 DEF Written, RankingOf, Inserted
    <3>. QED
      BY <1>2, <2>1, <2>2, <3>2 DEF Good
  <2>. QED
    BY <1>1, <2>1, <2>2
<1>10. ASSUME UNCHANGED vars PROVE LoneInv'
  <2>1. UNCHANGED <<table, pc, page, read, known, shared>>
    BY <1>10 DEF vars
  <2>. SUFFICES ASSUME NEW q \in Passes, q \notin shared, pc[q] # "idle" PROVE Good(q)
    BY <1>0, <2>1
  <2>. QED
    BY <2>1 DEF Good, LoneInv
<1>11. TypeOK'
  BY StepTyped
<1>. QED
  BY <1>3, <1>4, <1>5, <1>6, <1>7, <1>8, <1>9, <1>10, <1>11
     DEF MillionsDepositorsAssumption, Next, Pass, WriteConflicts, Finish, Fail

-----------------------------------------------------------------------------

\* The invariant holds of every state.
THEOREM Inductive ==
    ASSUME MillionsDepositorsAssumption
    PROVE  Spec => []IInv
<1>1. Init => IInv
  <2>. SUFFICES ASSUME Init PROVE IInv
    OBVIOUS
  <2>1. 1 \in Deposits /\ [d \in Deposits |-> "future"] \in [Deposits -> States]
    BY DEF MillionsDepositorsAssumption, Deposits, States
  <2>2. TypeOK
    BY <2>1 DEF Init, TypeOK, NoRow
  <2>. QED
    BY <2>2 DEF Init, IInv, LoneInv
<1>2. IInv /\ [Next]_vars => IInv'
  BY StepKeeps
<1>. QED
  BY <1>1, <1>2, PTL DEF Spec

\* Every state of the chain, the table and the passes is well typed: amounts and ranks
\* are numbers.
THEOREM TypeCorrect ==
    ASSUME MillionsDepositorsAssumption
    PROVE  Spec => []TypeOK
<1>1. IInv => TypeOK
  BY DEF IInv
<1>. QED
  BY <1>1, Inductive, PTL

\* A pass on its own replaces the ranking by that of what it read, whatever others left
\* in the table (MillionsScheduler.depositorsSync).
THEOREM LonePassReplaces ==
    ASSUME MillionsDepositorsAssumption
    PROVE  Spec => []LonePassReplacesAll
<1>1. IInv => LonePassReplacesAll
  <2>. SUFFICES ASSUME IInv, NEW p \in Passes, pc[p] = "done", p \notin shared
                PROVE  /\ Ranked = Depositors(read[p])
                       /\ \A a \in Ranked : table[a].amount = RawAmount(read[p], a)
                       /\ {table[a].rank : a \in Ranked} = 1..Cardinality(Ranked)
                       /\ \A a, b \in Ranked : table[a].amount > table[b].amount
                                               => table[a].rank < table[b].rank
    BY DEF LonePassReplacesAll
  <2>. DEFINE r == read[p]
  <2>1. \A a \in Addresses : table[a] = IF a \in Depositors(r) THEN RowOf(r, a) ELSE NoRow
    BY DEF IInv, LoneInv, RankingOf
  <2>2. Ranked = Depositors(r)
    <3>1. Depositors(r) \subseteq Addresses
      BY DEF Depositors
    <3>. QED
      BY <2>1, <3>1, RowIs DEF Ranked
  <2>3. \A a \in Ranked : table[a] = RowOf(r, a)
    BY <2>1, <2>2 DEF Ranked
  <2>4. \A a \in Ranked : table[a].amount = RawAmount(r, a)
    BY <2>3, RowIs
  <2>5. {table[a].rank : a \in Ranked} = 1..Cardinality(Ranked)
    <3>1. {table[a].rank : a \in Ranked} = {RowOf(r, a).rank : a \in Ranked}
      BY <2>3
    <3>. QED
      BY <2>2, <3>1, Ranks
  <2>6. ASSUME NEW a \in Ranked, NEW b \in Ranked, table[a].amount > table[b].amount
        PROVE  table[a].rank < table[b].rank
    <3>1. Precedes(r, a, b)
      BY <2>4, <2>6 DEF Precedes
    <3>. QED
      BY <2>2, <2>3, <3>1, RankFollows
  <2>. QED
    BY <2>2, <2>4, <2>5, <2>6
<1>. QED
  BY <1>1, Inductive, PTL
===============================================================================
