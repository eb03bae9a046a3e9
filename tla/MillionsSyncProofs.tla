-------------------------- MODULE MillionsSyncProofs --------------------------
(***************************************************************************)
(* Type correctness and the properties of MillionsDraws for any number of  *)
(* passes, draws and winners.  Nothing removes a row of a draw, of a prize *)
(* or of a biggest winner, so what a pass has seen stored remains so:      *)
(* PassInv says what that is at each of its steps, WinnersInv what it has  *)
(* stored itself, and LoneInv what a pass that runs alone may rely on.     *)
(*                                                                         *)
(* What is proved of each cron on its own then holds however the steps of  *)
(* both interleave: the last section carries it over to MillionsSync.      *)
(***************************************************************************)
EXTENDS MillionsSync, FiniteSetTheorems, TLAPS

PCs == {"idle", "age", "get", "save", "prizes", "winner", "find", "patch"}
Late == {"prizes", "winner", "find", "patch"}

\* TypeOK in its three parts.
ChainType ==
    /\ made \in 0..MaxDraws /\ drawn \subseteq Draws /\ aged \in 0..MaxDraws
    /\ held \subseteq Addresses \X (0..MaxDraws)

TablesType ==
    /\ drawRow \in [Draws -> {"none", "open", "drawn"}]
    /\ prizeRow \subseteq Draws \X Addresses
    /\ best \in [Addresses -> Wins]

LocalsType ==
    /\ pc \in [Passes -> PCs]
    /\ at \in [Passes -> Draws]
    /\ list \in [Passes -> [made : 0..MaxDraws, drawn : SUBSET Draws]]
    /\ todo \in [Passes -> SUBSET Addresses]
    /\ win \in [Passes -> [who : Addresses \cup {"nobody"}, sum : 0..MaxDraws]]
    /\ found \in [Passes -> Wins]
    /\ shared \subseteq Passes

\* All the prizes of a draw are stored.
PrizesStored(d) == \A a \in Winners(d) : <<d, a>> \in prizeRow

\* What a pass may rely on at each of its steps.
Informed(p) ==
    /\ pc[p] \in Late => drawRow[at[p]] # "none" /\ todo[p] \subseteq Winners(at[p])
    /\ pc[p] = "prizes" => \A a \in Winners(at[p]) \ todo[p] : <<at[p], a>> \in prizeRow
    /\ pc[p] \in {"winner", "find", "patch"} => PrizesStored(at[p])
    /\ pc[p] \in {"find", "patch"} => win[p].who \in Winners(at[p])

PassInv == \A p \in Passes : Informed(p)

IInv == ChainType /\ TablesType /\ LocalsType /\ PassInv /\ RowsHaveTheirSource

\* The step leaves the other passes where they are.
OthersStay(p) ==
    \A q \in Passes \ {p} :
        /\ pc'[q] = pc[q] /\ at'[q] = at[q] /\ todo'[q] = todo[q]
        /\ win'[q] = win[q] /\ found'[q] = found[q] /\ list'[q] = list[q]

\* The step removes no row of a draw or of a prize.
RowsStay ==
    /\ \A d \in Draws : drawRow[d] # "none" => drawRow'[d] # "none"
    /\ prizeRow \subseteq prizeRow'

\* Of the winners of its draw, the pass has stored those that are not to do; the
\* one it is at is next.
Recorded(p) ==
    /\ pc[p] = "idle" => at[p] = 1
    /\ pc[p] \in {"winner", "find", "patch"} =>
          \A a \in Winners(at[p]) \ todo[p] :
              best[a] # NoWin \/ (pc[p] # "winner" /\ a = win[p].who)
    /\ pc[p] = "patch" /\ found[p] # NoWin => best[win[p].who] # NoWin

\* The prizes of a draw and its winners are stored.
DrawStored(d) == \A a \in Winners(d) : <<d, a>> \in prizeRow /\ best[a] # NoWin

\* What the pass went by is stored, if it is not too old.
Passed(p) == \A d \in list[p].drawn : aged < d /\ d < at[p] => DrawStored(d)

WinnersInv == \A p \in Passes : Recorded(p) /\ Passed(p)

\* Two passes that run know it of each other.
Known == \A p, q \in Passes : pc[p] # "idle" /\ pc[q] # "idle" /\ p # q => p \in shared

\* A pass that runs alone finds the row as it is when it is saved.
Fresh(p) == p \notin shared /\ pc[p] = "patch" => found[p] = best[win[p].who]

LoneInv == Known /\ \A p \in Passes : Fresh(p)

\* The step removes no row of a prize or of a biggest winner, and no draw gets younger.
WinsStay ==
    /\ prizeRow \subseteq prizeRow'
    /\ \A a \in Addresses : best[a] # NoWin => best'[a] # NoWin
    /\ aged <= aged'

-----------------------------------------------------------------------------

\* What a pass knows outlasts the steps of the others.
LEMMA InformedStays ==
    ASSUME LocalsType, NEW q \in Passes, Informed(q), RowsStay,
           pc'[q] = pc[q], at'[q] = at[q], todo'[q] = todo[q], win'[q] = win[q]
    PROVE  Informed(q)'
<1>1. at[q] \in Draws
  BY DEF LocalsType
<1>2. ASSUME pc[q] \in Late
      PROVE  drawRow'[at'[q]] # "none" /\ todo'[q] \subseteq Winners(at'[q])
  BY <1>1, <1>2 DEF Informed, RowsStay
<1>3. ASSUME pc[q] = "prizes"
      PROVE  \A a \in Winners(at'[q]) \ todo'[q] : <<at'[q], a>> \in prizeRow'
  BY <1>3 DEF Informed, RowsStay
<1>4. ASSUME pc[q] \in {"winner", "find", "patch"}
      PROVE  \A a \in Winners(at'[q]) : <<at'[q], a>> \in prizeRow'
  BY <1>4 DEF Informed, RowsStay, PrizesStored
<1>5. ASSUME pc[q] \in {"find", "patch"}
      PROVE  win'[q].who \in Winners(at'[q])
  BY <1>5 DEF Informed
<1>. QED
  BY <1>2, <1>3, <1>4, <1>5 DEF Informed, PrizesStored

\* A pass that ends or goes on to the next draw relies on nothing.
LEMMA NextDrawLocals ==
    ASSUME MillionsDrawsAssumption, LocalsType, NEW p \in Passes, NextDraw(p)
    PROVE  LocalsType' /\ OthersStay(p) /\ pc'[p] \in {"idle", "age"}
<1>1. /\ NoList \in [made : 0..MaxDraws, drawn : SUBSET Draws]
      /\ NoOne \in [who : Addresses \cup {"nobody"}, sum : 0..MaxDraws]
      /\ NoWin \in Wins
      /\ 1 \in Draws
  BY DEF MillionsDrawsAssumption, NoList, NoOne, NoWin, Wins, Draws
<1>2. CASE at[p] < list[p].made
  <2>1. list[p].made \in 0..MaxDraws /\ at[p] \in Draws
    BY DEF LocalsType
  <2>2. at[p] + 1 \in Draws
    BY <1>2, <2>1 DEF Draws, MillionsDrawsAssumption
  <2>3. /\ at' = [at EXCEPT ![p] = at[p] + 1] /\ pc' = [pc EXCEPT ![p] = "age"]
        /\ win' = [win EXCEPT ![p] = NoOne] /\ found' = [found EXCEPT ![p] = NoWin]
        /\ UNCHANGED <<list, todo, shared>>
    BY <1>2 DEF NextDraw, Goto
  <2>. QED
    BY <1>1, <2>2, <2>3 DEF LocalsType, OthersStay, PCs
<1>3. CASE ~(at[p] < list[p].made)
  <2>1. /\ at' = [at EXCEPT ![p] = 1] /\ pc' = [pc EXCEPT ![p] = "idle"]
        /\ list' = [list EXCEPT ![p] = NoList] /\ todo' = [todo EXCEPT ![p] = {}]
        /\ win' = [win EXCEPT ![p] = NoOne] /\ found' = [found EXCEPT ![p] = NoWin]
        /\ shared' = shared \ {p}
    BY <1>3 DEF NextDraw, End, Goto
  <2>. QED
    BY <1>1, <2>1 DEF LocalsType, OthersStay, PCs
<1>. QED
  BY <1>2, <1>3

\* ... and one that comes to the prizes has all of them to store.
LEMMA PrizesLocals ==
    ASSUME MillionsDrawsAssumption, LocalsType, NEW p \in Passes, Prizes(p)
    PROVE  /\ LocalsType' /\ OthersStay(p)
           /\ \/ pc'[p] \in {"idle", "age"}
              \/ pc'[p] = "prizes" /\ at'[p] = at[p] /\ todo'[p] = Winners(at[p])
<1>1. CASE at[p] \in list[p].drawn /\ Winners(at[p]) # {}
  <2>1. /\ pc' = [pc EXCEPT ![p] = "prizes"]
        /\ todo' = [todo EXCEPT ![p] = Winners(at[p])]
        /\ UNCHANGED <<at, list, win, found, shared>>
    BY <1>1 DEF Prizes, Goto
  <2>2. Winners(at[p]) \in SUBSET Addresses
    BY DEF Winners
  <2>. QED
    BY <2>1, <2>2 DEF LocalsType, OthersStay, PCs
<1>2. CASE ~(at[p] \in list[p].drawn /\ Winners(at[p]) # {})
  <2>1. NextDraw(p)
    BY <1>2 DEF Prizes
  <2>. QED
    BY <2>1, NextDrawLocals
<1>. QED
  BY <1>1, <1>2

LEMMA EndLocals ==
    ASSUME MillionsDrawsAssumption, LocalsType, NEW p \in Passes, End(p)
    PROVE  LocalsType' /\ OthersStay(p) /\ pc'[p] = "idle"
<1>1. /\ NoList \in [made : 0..MaxDraws, drawn : SUBSET Draws]
      /\ NoOne \in [who : Addresses \cup {"nobody"}, sum : 0..MaxDraws]
      /\ NoWin \in Wins
      /\ 1 \in Draws
  BY DEF MillionsDrawsAssumption, NoList, NoOne, NoWin, Wins, Draws
<1>2. /\ at' = [at EXCEPT ![p] = 1] /\ pc' = [pc EXCEPT ![p] = "idle"]
      /\ list' = [list EXCEPT ![p] = NoList] /\ todo' = [todo EXCEPT ![p] = {}]
      /\ win' = [win EXCEPT ![p] = NoOne] /\ found' = [found EXCEPT ![p] = NoWin]
      /\ shared' = shared \ {p}
  BY DEF End, Goto
<1>. QED
  BY <1>1, <1>2 DEF LocalsType, OthersStay, PCs

\* The deposits that count for a draw are at most one per earlier draw.
LEMMA SumIsBounded ==
    ASSUME MillionsDrawsAssumption, NEW a, NEW d \in Draws
    PROVE  SumOfDeposits(a, d) \in 0..MaxDraws
<1>. DEFINE K == {k \in 0..(d - 1) : <<a, k>> \in held}
<1>1. d \in Nat /\ 0 <= d - 1 /\ d <= MaxDraws /\ MaxDraws \in Nat
  BY DEF Draws, MillionsDrawsAssumption
<1>2. IsFiniteSet(0..(d - 1)) /\ Cardinality(0..(d - 1)) = d
  <2>1. 0 \in Int /\ d - 1 \in Int /\ ~(0 > d - 1) /\ d - 1 - 0 + 1 = d
    BY <1>1
  <2>. QED
    BY <2>1, FS_Interval
<1>3. K \subseteq 0..(d - 1)
  OBVIOUS
<1>4. IsFiniteSet(K) /\ Cardinality(K) <= d
  BY <1>2, <1>3, FS_Subset
<1>5. Cardinality(K) \in Nat
  BY <1>4, FS_CardinalityType
<1>. QED
  BY <1>1, <1>4, <1>5 DEF SumOfDeposits

-----------------------------------------------------------------------------

\* A step that keeps the types, the rows and the other passes keeps what they know.
LEMMA OthersInformed ==
    ASSUME LocalsType, PassInv, NEW p \in Passes, RowsStay, OthersStay(p), Informed(p)'
    PROVE  PassInv'
<1>. SUFFICES ASSUME NEW q \in Passes PROVE Informed(q)'
  BY DEF PassInv
<1>1. CASE q = p
  BY <1>1
<1>2. CASE q # p
  <2>1. pc'[q] = pc[q] /\ at'[q] = at[q] /\ todo'[q] = todo[q] /\ win'[q] = win[q]
    BY <1>2 DEF OthersStay
  <2>2. Informed(q)
    BY DEF PassInv
  <2>. QED
    BY <2>1, <2>2, InformedStays
<1>. QED
  BY <1>1, <1>2

\* A pass between two draws, or none, relies on nothing.
LEMMA IdleIsInformed ==
    ASSUME NEW p, pc'[p] \notin Late
    PROVE  Informed(p)'
BY DEF Informed, Late

LEMMA ChainStep ==
    ASSUME MillionsDrawsAssumption, IInv, Chain
    PROVE  IInv'
<1>1. UNCHANGED <<tables, pc, locals, shared>>
  BY DEF Chain, NewDraw, Draw, Age, Deposit, Withdraw
<1>2. ChainType'
  <2>1. CASE NewDraw
    BY <2>1 DEF NewDraw, IInv, ChainType, MillionsDrawsAssumption
  <2>2. CASE \E d \in Draws : Draw(d)
    BY <2>2 DEF Draw, IInv, ChainType
  <2>3. CASE Age
    BY <2>3 DEF Age, IInv, ChainType, MillionsDrawsAssumption
  <2>4. CASE \E a \in Addresses : Deposit(a)
    BY <2>4 DEF Deposit, IInv, ChainType, MillionsDrawsAssumption
  <2>5. CASE \E x \in held : Withdraw(x)
    BY <2>5 DEF Withdraw, IInv, ChainType
  <2>. QED
    BY <2>1, <2>2, <2>3, <2>4, <2>5 DEF Chain
<1>3. TablesType' /\ LocalsType'
  BY <1>1 DEF IInv, TablesType, LocalsType, tables, locals
<1>4. PassInv'
  <2>. SUFFICES ASSUME NEW q \in Passes PROVE Informed(q)'
    BY DEF PassInv
  <2>1. RowsStay
    BY <1>1 DEF RowsStay, tables
  <2>2. pc'[q] = pc[q] /\ at'[q] = at[q] /\ todo'[q] = todo[q] /\ win'[q] = win[q]
    BY <1>1 DEF locals
  <2>. QED
    BY <2>1, <2>2, InformedStays DEF IInv, PassInv
<1>5. RowsHaveTheirSource'
  BY <1>1 DEF IInv, RowsHaveTheirSource, tables
<1>. QED
  BY <1>2, <1>3, <1>4, <1>5 DEF IInv

\* Steps that write no row.
LEMMA QuietStep ==
    ASSUME IInv, NEW p \in Passes, UNCHANGED <<chain, tables>>,
           LocalsType', OthersStay(p), Informed(p)'
    PROVE  IInv'
<1>1. ChainType' /\ TablesType' /\ RowsHaveTheirSource' /\ RowsStay
  BY DEF IInv, ChainType, TablesType, RowsHaveTheirSource, RowsStay, chain, tables
<1>2. PassInv'
  BY <1>1, OthersInformed DEF IInv
<1>. QED
  BY <1>1, <1>2 DEF IInv

LEMMA BeginStep ==
    ASSUME MillionsDrawsAssumption, IInv, NEW p \in Passes, Begin(p)
    PROVE  IInv'
<1>1. /\ pc' = [pc EXCEPT ![p] = "age"]
      /\ list' = [list EXCEPT ![p] = [made |-> made, drawn |-> drawn]]
      /\ shared' = (IF Running = {} THEN shared ELSE shared \cup Running \cup {p})
      /\ UNCHANGED <<chain, tables, at, todo, win, found>>
  BY DEF Begin, Goto
<1>2. [made |-> made, drawn |-> drawn] \in [made : 0..MaxDraws, drawn : SUBSET Draws]
  BY DEF IInv, ChainType
<1>3. shared' \subseteq Passes
  BY <1>1 DEF Running, IInv, LocalsType
<1>4. LocalsType' /\ OthersStay(p) /\ pc'[p] = "age"
  BY <1>1, <1>2, <1>3 DEF IInv, LocalsType, OthersStay, PCs
<1>5. Informed(p)'
  BY <1>4, IdleIsInformed DEF Late
<1>. QED
  BY <1>1, <1>4, <1>5, QuietStep

LEMMA FailStep ==
    ASSUME MillionsDrawsAssumption, IInv, NEW p \in Passes, Fail(p)
    PROVE  IInv'
<1>1. LocalsType' /\ OthersStay(p) /\ pc'[p] = "idle"
  BY EndLocals DEF Fail, IInv
<1>2. Informed(p)'
  BY <1>1, IdleIsInformed DEF Late
<1>. QED
  BY <1>1, <1>2, QuietStep DEF Fail

LEMMA CheckAgeStep ==
    ASSUME MillionsDrawsAssumption, IInv, NEW p \in Passes, CheckAge(p)
    PROVE  IInv'
<1>1. LocalsType' /\ OthersStay(p) /\ pc'[p] \in {"idle", "age", "get"}
  <2>1. CASE Skipped(at[p])
    BY <2>1, NextDrawLocals DEF CheckAge, IInv
  <2>2. CASE ~Skipped(at[p])
    <3>1. pc' = [pc EXCEPT ![p] = "get"] /\ UNCHANGED <<locals, shared>>
      BY <2>2 DEF CheckAge, Goto
    <3>. QED
      BY <3>1 DEF IInv, LocalsType, OthersStay, locals, PCs
  <2>. QED
    BY <2>1, <2>2
<1>2. Informed(p)'
  BY <1>1, IdleIsInformed DEF Late
<1>. QED
  BY <1>1, <1>2, QuietStep DEF CheckAge

\* At the first prize, the draw has its row and all its prizes are to store.
LEMMA PrizesInformed ==
    ASSUME NEW p \in Passes, at[p] \in Draws, drawRow'[at[p]] # "none",
           pc'[p] = "prizes", at'[p] = at[p], todo'[p] = Winners(at[p])
    PROVE  Informed(p)'
BY DEF Informed, Late

LEMMA GetStep ==
    ASSUME MillionsDrawsAssumption, IInv, NEW p \in Passes, Get(p)
    PROVE  IInv'
<1>1. CASE drawRow[at[p]] = "none"
  <2>1. pc' = [pc EXCEPT ![p] = "save"] /\ UNCHANGED <<locals, shared>>
    BY <1>1 DEF Get, Goto
  <2>2. LocalsType' /\ OthersStay(p) /\ pc'[p] = "save"
    BY <2>1 DEF IInv, LocalsType, OthersStay, locals, PCs
  <2>3. Informed(p)'
    BY <2>2, IdleIsInformed DEF Late
  <2>. QED
    BY <2>2, <2>3, QuietStep DEF Get
<1>2. CASE drawRow[at[p]] # "none"
  <2>1. Prizes(p)
    BY <1>2 DEF Get
  <2>2. /\ LocalsType' /\ OthersStay(p)
        /\ \/ pc'[p] \in {"idle", "age"}
           \/ pc'[p] = "prizes" /\ at'[p] = at[p] /\ todo'[p] = Winners(at[p])
    BY <2>1, PrizesLocals DEF IInv
  <2>3. Informed(p)'
    <3>1. CASE pc'[p] \in {"idle", "age"}
      BY <3>1, IdleIsInformed DEF Late
    <3>2. CASE pc'[p] = "prizes" /\ at'[p] = at[p] /\ todo'[p] = Winners(at[p])
      <4>1. at[p] \in Draws /\ drawRow' = drawRow
        BY DEF Get, tables, IInv, LocalsType
      <4>. QED
        BY <1>2, <3>2, <4>1, PrizesInformed
    <3>. QED
      BY <2>2, <3>1, <3>2
  <2>. QED
    BY <2>2, <2>3, QuietStep DEF Get
<1>. QED
  BY <1>1, <1>2

LEMMA SaveStep ==
    ASSUME MillionsDrawsAssumption, IInv, NEW p \in Passes, Save(p)
    PROVE  IInv'
<1>. DEFINE saved == IF at[p] \in list[p].drawn THEN "drawn" ELSE "open"
<1>1. /\ pc[p] = "save" /\ Prizes(p)
      /\ drawRow' = [drawRow EXCEPT ![at[p]] = saved]
      /\ UNCHANGED <<chain, prizeRow, best>>
  BY DEF Save
<1>2. at[p] \in Draws /\ drawRow \in [Draws -> {"none", "open", "drawn"}]
  BY DEF IInv, LocalsType, TablesType
<1>3. saved \in {"open", "drawn"}
  OBVIOUS
<1>4. /\ LocalsType' /\ OthersStay(p)
      /\ \/ pc'[p] \in {"idle", "age"}
         \/ pc'[p] = "prizes" /\ at'[p] = at[p] /\ todo'[p] = Winners(at[p])
  BY <1>1, PrizesLocals DEF IInv
<1>5. drawRow' \in [Draws -> {"none", "open", "drawn"}] /\ drawRow'[at[p]] # "none"
  BY <1>1, <1>2, <1>3
<1>6. \A d \in Draws : drawRow[d] # "none" => drawRow'[d] # "none"
  BY <1>1, <1>2, <1>5
<1>7. ChainType' /\ TablesType' /\ RowsStay
  BY <1>1, <1>5, <1>6 DEF IInv, ChainType, TablesType, RowsStay, chain
<1>8. RowsHaveTheirSource'
  BY <1>1, <1>6 DEF IInv, RowsHaveTheirSource
<1>9. Informed(p)'
  <2>1. CASE pc'[p] \in {"idle", "age"}
    BY <2>1, IdleIsInformed DEF Late
  <2>2. CASE pc'[p] = "prizes" /\ at'[p] = at[p] /\ todo'[p] = Winners(at[p])
    BY <1>2, <1>5, <2>2, PrizesInformed
  <2>. QED
    BY <1>4, <2>1, <2>2
<1>. QED
  BY <1>4, <1>7, <1>8, <1>9, OthersInformed DEF IInv

LEMMA SavePrizeStep ==
    ASSUME MillionsDrawsAssumption, IInv, NEW p \in Passes, NEW a \in Addresses,
           SavePrize(p, a)
    PROVE  IInv'
<1>1. /\ pc[p] = "prizes" /\ a \in todo[p]
      /\ prizeRow' = prizeRow \cup {<<at[p], a>>}
      /\ UNCHANGED <<chain, drawRow, best, at, list, win, found, shared>>
  BY DEF SavePrize
<1>2. at[p] \in Draws
  BY DEF IInv, LocalsType
<1>3. /\ drawRow[at[p]] # "none" /\ todo[p] \subseteq Winners(at[p])
      /\ \A b \in Winners(at[p]) \ todo[p] : <<at[p], b>> \in prizeRow
  BY <1>1 DEF IInv, PassInv, Informed, Late
<1>4. ChainType' /\ TablesType' /\ RowsStay
  BY <1>1, <1>2 DEF IInv, ChainType, TablesType, RowsStay, chain
<1>5. RowsHaveTheirSource'
  <2>1. ASSUME NEW d \in Draws, NEW b \in Addresses, <<d, b>> \in prizeRow'
        PROVE  b \in Winners(d) /\ drawRow'[d] # "none"
    <3>1. CASE <<d, b>> \in prizeRow
      BY <1>1, <3>1 DEF IInv, RowsHaveTheirSource
    <3>2. CASE <<d, b>> = <<at[p], a>>
      BY <1>1, <1>3, <3>2
    <3>. QED
      BY <1>1, <2>1, <3>1, <3>2
  <2>2. \A b \in Addresses : best'[b] # NoWin => <<best'[b].draw, b>> \in prizeRow'
    BY <1>1 DEF IInv, RowsHaveTheirSource
  <2>. QED
    BY <2>1, <2>2 DEF RowsHaveTheirSource
<1>6. LocalsType' /\ OthersStay(p) /\ Informed(p)'
  <2>1. CASE todo[p] = {a}
    <3>1. pc' = [pc EXCEPT ![p] = "winner"] /\ todo' = [todo EXCEPT ![p] = Winners(at[p])]
      BY <2>1 DEF SavePrize, Goto
    <3>2. Winners(at[p]) \in SUBSET Addresses
      BY DEF Winners
    <3>3. LocalsType' /\ OthersStay(p)
      BY <1>1, <3>1, <3>2 DEF IInv, LocalsType, OthersStay, PCs
    <3>4. pc'[p] = "winner" /\ todo'[p] = Winners(at[p]) /\ at'[p] = at[p]
      BY <1>1, <3>1 DEF IInv, LocalsType
    <3>5. \A b \in Winners(at[p]) : <<at[p], b>> \in prizeRow'
      BY <1>1, <1>3, <2>1
    <3>. QED
      BY <1>1, <1>3, <3>3, <3>4, <3>5 DEF Informed, PrizesStored, Late
  <2>2. CASE todo[p] # {a}
    <3>1. pc' = pc /\ todo' = [todo EXCEPT ![p] = todo[p] \ {a}]
      BY <2>2 DEF SavePrize
    <3>2. LocalsType' /\ OthersStay(p)
      BY <1>1, <3>1 DEF IInv, LocalsType, OthersStay
    <3>3. pc'[p] = "prizes" /\ todo'[p] = todo[p] \ {a} /\ at'[p] = at[p]
      BY <1>1, <3>1 DEF IInv, LocalsType
    <3>4. \A b \in Winners(at[p]) \ todo'[p] : <<at[p], b>> \in prizeRow'
      BY <1>1, <1>3, <3>3
    <3>. QED
      BY <1>1, <1>3, <3>2, <3>3, <3>4 DEF Informed, Late
  <2>. QED
    BY <2>1, <2>2
<1>. QED
  BY <1>4, <1>5, <1>6, OthersInformed DEF IInv

LEMMA ReadDepositsStep ==
    ASSUME MillionsDrawsAssumption, IInv, NEW p \in Passes, NEW a \in Addresses,
           ReadDeposits(p, a)
    PROVE  IInv'
<1>. DEFINE w == [who |-> a, sum |-> SumOfDeposits(a, at[p])]
<1>1. /\ pc[p] = "winner" /\ a \in todo[p]
      /\ win' = [win EXCEPT ![p] = w]
      /\ todo' = [todo EXCEPT ![p] = todo[p] \ {a}]
      /\ pc' = [pc EXCEPT ![p] = "find"]
      /\ UNCHANGED <<chain, tables, at, list, found, shared>>
  BY DEF ReadDeposits, Goto
<1>2. at[p] \in Draws
  BY DEF IInv, LocalsType
<1>3. w \in [who : Addresses \cup {"nobody"}, sum : 0..MaxDraws] /\ w.who = a
  BY <1>2, SumIsBounded
<1>. HIDE DEF w
<1>4. /\ drawRow[at[p]] # "none" /\ todo[p] \subseteq Winners(at[p])
      /\ \A b \in Winners(at[p]) : <<at[p], b>> \in prizeRow
  BY <1>1 DEF IInv, PassInv, Informed, PrizesStored, Late
<1>5. LocalsType' /\ OthersStay(p)
  BY <1>1, <1>3 DEF IInv, LocalsType, OthersStay, PCs
<1>6. /\ pc'[p] = "find" /\ todo'[p] = todo[p] \ {a} /\ at'[p] = at[p] /\ win'[p] = w
      /\ drawRow' = drawRow /\ prizeRow' = prizeRow
  BY <1>1 DEF IInv, LocalsType, tables
<1>7. Informed(p)'
  BY <1>1, <1>3, <1>4, <1>6 DEF Informed, PrizesStored, Late
<1>. QED
  BY <1>1, <1>5, <1>7, QuietStep

LEMMA FindStep ==
    ASSUME MillionsDrawsAssumption, IInv, NEW p \in Passes, Find(p)
    PROVE  IInv'
<1>1. /\ pc[p] = "find" /\ found' = [found EXCEPT ![p] = best[win[p].who]]
      /\ pc' = [pc EXCEPT ![p] = "patch"]
      /\ UNCHANGED <<chain, tables, at, list, todo, win, shared>>
  BY DEF Find, Goto
<1>2. /\ drawRow[at[p]] # "none" /\ todo[p] \subseteq Winners(at[p])
      /\ \A b \in Winners(at[p]) : <<at[p], b>> \in prizeRow
      /\ win[p].who \in Winners(at[p])
  BY <1>1 DEF IInv, PassInv, Informed, PrizesStored, Late
<1>3. best[win[p].who] \in Wins
  BY <1>2 DEF IInv, TablesType, Winners
<1>4. LocalsType' /\ OthersStay(p)
  BY <1>1, <1>3 DEF IInv, LocalsType, OthersStay, PCs
<1>5. /\ pc'[p] = "patch" /\ todo'[p] = todo[p] /\ at'[p] = at[p] /\ win'[p] = win[p]
      /\ drawRow' = drawRow /\ prizeRow' = prizeRow
  BY <1>1 DEF IInv, LocalsType, tables
<1>6. Informed(p)'
  BY <1>2, <1>5 DEF Informed, PrizesStored, Late
<1>. QED
  BY <1>1, <1>4, <1>6, QuietStep

\* What is saved is the row that the pass found, or one of its own draw.
LEMMA PatchStep ==
    ASSUME MillionsDrawsAssumption, IInv, NEW p \in Passes, Patch(p)
    PROVE  IInv'
<1>. DEFINE a == win[p].who
            new == [draw |-> at[p], sum |-> win[p].sum]
            row == Patched(a, new, found[p])
<1>1. pc[p] = "patch" /\ UNCHANGED <<chain, drawRow, prizeRow>>
  BY DEF Patch
<1>2. /\ drawRow[at[p]] # "none" /\ todo[p] \subseteq Winners(at[p])
      /\ \A b \in Winners(at[p]) : <<at[p], b>> \in prizeRow
      /\ a \in Winners(at[p])
  BY <1>1 DEF IInv, PassInv, Informed, PrizesStored, Late
<1>3. new \in Wins /\ new.draw = at[p] /\ at[p] \in Draws
  <2>1. at[p] \in 0..MaxDraws /\ win[p].sum \in 0..MaxDraws /\ at[p] \in Draws
    BY DEF IInv, LocalsType, Draws, MillionsDrawsAssumption
  <2>. QED
    BY <2>1 DEF Wins
<1>4. best' = best \/ best' = [best EXCEPT ![a] = new]
  BY DEF Patch, Patched
<1>. HIDE DEF new, row
<1>5. best' \in [Addresses -> Wins]
  BY <1>3, <1>4 DEF IInv, TablesType
<1>6. ChainType' /\ TablesType' /\ RowsStay
  BY <1>1, <1>5 DEF IInv, ChainType, TablesType, RowsStay, chain
<1>7. RowsHaveTheirSource'
  <2>1. ASSUME NEW b \in Addresses, best'[b] # NoWin
        PROVE  <<best'[b].draw, b>> \in prizeRow'
    <3>1. CASE best'[b] = best[b]
      BY <1>1, <2>1, <3>1 DEF IInv, RowsHaveTheirSource
    <3>2. CASE b = a /\ best'[b] = new
      BY <1>1, <1>2, <1>3, <3>2
    <3>3. best'[b] = best[b] \/ (b = a /\ best'[b] = new)
      BY <1>4 DEF IInv, TablesType
    <3>. QED
      BY <3>1, <3>2, <3>3
  <2>2. \A d \in Draws, b \in Addresses :
            <<d, b>> \in prizeRow' => b \in Winners(d) /\ drawRow'[d] # "none"
    BY <1>1 DEF IInv, RowsHaveTheirSource
  <2>. QED
    BY <2>1, <2>2 DEF RowsHaveTheirSource
<1>8. LocalsType' /\ OthersStay(p) /\ Informed(p)'
  <2>1. CASE todo[p] # {}
    <3>1. /\ pc' = [pc EXCEPT ![p] = "winner"]
          /\ win' = [win EXCEPT ![p] = NoOne]
          /\ found' = [found EXCEPT ![p] = NoWin]
          /\ UNCHANGED <<at, list, todo, shared>>
      BY <2>1 DEF Patch, Goto
    <3>2. /\ NoOne \in [who : Addresses \cup {"nobody"}, sum : 0..MaxDraws]
          /\ NoWin \in Wins
      BY DEF MillionsDrawsAssumption, NoOne, NoWin, Wins
    <3>3. LocalsType' /\ OthersStay(p)
      BY <3>1, <3>2 DEF IInv, LocalsType, OthersStay, PCs
    <3>4. pc'[p] = "winner" /\ todo'[p] = todo[p] /\ at'[p] = at[p]
      BY <3>1 DEF IInv, LocalsType
    <3>. QED
      BY <1>1, <1>2, <3>3, <3>4 DEF Informed, PrizesStored, Late
  <2>2. CASE todo[p] = {}
    <3>1. LocalsType' /\ OthersStay(p) /\ pc'[p] \in {"idle", "age"}
      BY <2>2, NextDrawLocals DEF Patch, IInv
    <3>. QED
      BY <3>1, IdleIsInformed DEF Late
  <2>. QED
    BY <2>1, <2>2
<1>. QED
  BY <1>6, <1>7, <1>8, OthersInformed DEF IInv

-----------------------------------------------------------------------------

LEMMA InitIInv ==
    ASSUME MillionsDrawsAssumption, Init
    PROVE  IInv
<1>1. /\ NoList \in [made : 0..MaxDraws, drawn : SUBSET Draws]
      /\ NoOne \in [who : Addresses \cup {"nobody"}, sum : 0..MaxDraws]
      /\ NoWin \in Wins
      /\ 1 \in Draws /\ 0 \in 0..MaxDraws
  BY DEF MillionsDrawsAssumption, NoList, NoOne, NoWin, Wins, Draws
<1>2. ChainType /\ TablesType /\ LocalsType
  BY <1>1 DEF Init, ChainType, TablesType, LocalsType, PCs
<1>3. PassInv
  BY DEF Init, PassInv, Informed, Late
<1>4. RowsHaveTheirSource
  BY DEF Init, RowsHaveTheirSource
<1>. QED
  BY <1>2, <1>3, <1>4 DEF IInv

LEMMA NextIInv ==
    ASSUME MillionsDrawsAssumption, IInv, [Next]_vars
    PROVE  IInv'
<1>1. CASE Chain
  BY <1>1, ChainStep
<1>2. ASSUME NEW p \in Passes, Pass(p)
      PROVE  IInv'
  <2>1. CASE Begin(p)
    BY <2>1, BeginStep
  <2>2. CASE CheckAge(p)
    BY <2>2, CheckAgeStep
  <2>3. CASE Get(p)
    BY <2>3, GetStep
  <2>4. CASE Save(p)
    BY <2>4, SaveStep
  <2>5. ASSUME NEW a \in Addresses, SavePrize(p, a)
        PROVE  IInv'
    BY <2>5, SavePrizeStep
  <2>6. ASSUME NEW a \in Addresses, ReadDeposits(p, a)
        PROVE  IInv'
    BY <2>6, ReadDepositsStep
  <2>7. CASE Find(p)
    BY <2>7, FindStep
  <2>8. CASE Patch(p)
    BY <2>8, PatchStep
  <2>. QED
    BY <1>2, <2>1, <2>2, <2>3, <2>4, <2>5, <2>6, <2>7, <2>8 DEF Pass
<1>3. ASSUME NEW p \in Passes, Fail(p)
      PROVE  IInv'
  BY <1>3, FailStep
<1>4. CASE UNCHANGED vars
  <2>1. UNCHANGED <<made, drawn, aged, held, drawRow, prizeRow, best, pc,
                    at, list, todo, win, found, shared>>
    BY <1>4 DEF vars, chain, tables, locals
  <2>2. ChainType' /\ TablesType' /\ LocalsType'
    BY <2>1 DEF IInv, ChainType, TablesType, LocalsType
  <2>3. PassInv' /\ RowsHaveTheirSource'
    BY <2>1 DEF IInv, PassInv, Informed, PrizesStored, RowsHaveTheirSource
  <2>. QED
    BY <2>2, <2>3 DEF IInv
<1>. QED
  BY <1>1, <1>2, <1>3, <1>4 DEF Next

LEMMA Inductive ==
    ASSUME MillionsDrawsAssumption
    PROVE  Spec => []IInv
<1>1. Init => IInv
  BY InitIInv
<1>2. IInv /\ [Next]_vars => IInv'
  BY NextIInv
<1>. QED
  BY <1>1, <1>2, PTL DEF Spec

\* Every state of the draws' synchronisation is well typed, however many passes
\* of drawsSync run at once.
THEOREM TypeCorrect == Spec => []TypeOK
<1>1. IInv => TypeOK
  BY DEF IInv, ChainType, TablesType, LocalsType, PCs, TypeOK
<1>. QED
  BY <1>1, MillionsDrawsAssumption, Inductive, PTL

\* No prize lacks its draw and no biggest winner his prize, however many passes of
\* drawsSync overlap and wherever they fail.
THEOREM SourcesKept == Spec => []RowsHaveTheirSource
<1>1. IInv => RowsHaveTheirSource
  BY DEF IInv
<1>. QED
  BY <1>1, MillionsDrawsAssumption, Inductive, PTL

-----------------------------------------------------------------------------

-----------------------------------------------------------------------------
(* What a pass has stored, and what it may rely on when it runs alone.       *)

\* No step removes the row of a biggest winner: what is saved has a draw.
LEMMA PatchWins ==
    ASSUME MillionsDrawsAssumption, IInv, NEW p \in Passes, Patch(p)
    PROVE  /\ \A a \in Addresses : best[a] # NoWin => best'[a] # NoWin
           /\ \A a \in Addresses \ {win[p].who} : best'[a] = best[a]
           /\ found[p] = NoWin => best'[win[p].who] # NoWin
           /\ win[p].who \in Addresses
           /\ best' = best \/ (best'[win[p].who] = [draw |-> at[p], sum |-> win[p].sum]
                               /\ (found[p] = NoWin
                                   \/ Beats(win[p].who, best'[win[p].who], found[p])))
<1>. DEFINE a == win[p].who
            new == [draw |-> at[p], sum |-> win[p].sum]
            row == Patched(a, new, found[p])
<1>1. a \in Addresses /\ best \in [Addresses -> Wins]
  BY DEF Patch, IInv, PassInv, Informed, Winners, TablesType
<1>2. new # NoWin
  <2>1. new.draw = at[p] /\ at[p] \in Nat \ {0}
    BY DEF IInv, LocalsType, Draws
  <2>2. NoWin.draw = 0
    BY DEF NoWin
  <2>. QED
    BY <2>1, <2>2
<1>3. row = found[p] \/ (row = new /\ (found[p] = NoWin \/ Beats(a, new, found[p])))
  BY DEF Patched
<1>4. found[p] = NoWin => row = new
  BY DEF Patched
<1>5. best' = IF row = found[p] THEN best ELSE [best EXCEPT ![a] = row]
  BY DEF Patch
<1>. HIDE DEF a, new, row
<1>6. \A b \in Addresses \ {a} : best'[b] = best[b]
  BY <1>1, <1>5
<1>7. best' = best \/ (best'[a] = new /\ (found[p] = NoWin \/ Beats(a, best'[a], found[p])))
  BY <1>1, <1>3, <1>5
<1>8. found[p] = NoWin => best'[a] # NoWin
  BY <1>1, <1>2, <1>4, <1>5
<1>9. \A b \in Addresses : best[b] # NoWin => best'[b] # NoWin
  BY <1>2, <1>6, <1>7
<1>. QED
  BY <1>1, <1>6, <1>7, <1>8, <1>9 DEF a, new

LEMMA RowsOfWinnersStay ==
    ASSUME MillionsDrawsAssumption, IInv, [Next]_vars
    PROVE  WinsStay
<1>1. aged <= aged'
  <2>1. aged \in Int
    BY DEF IInv, ChainType, MillionsDrawsAssumption
  <2>2. aged' = aged \/ aged' = aged + 1
    BY DEF Next, Chain, NewDraw, Draw, Age, Deposit, Withdraw, Pass, Begin, CheckAge, Get,
           Save, SavePrize, ReadDeposits, Find, Patch, Fail, vars, chain
  <2>. QED
    BY <2>1, <2>2
<1>2. prizeRow \subseteq prizeRow'
  BY DEF Next, Chain, NewDraw, Draw, Age, Deposit, Withdraw, Pass, Begin, CheckAge, Get,
         Save, SavePrize, ReadDeposits, Find, Patch, Fail, vars, tables
<1>3. best' = best \/ \E p \in Passes : Patch(p)
  BY DEF Next, Chain, NewDraw, Draw, Age, Deposit, Withdraw, Pass, Begin, CheckAge, Get,
         Save, SavePrize, ReadDeposits, Find, Fail, vars, tables
<1>4. \A a \in Addresses : best[a] # NoWin => best'[a] # NoWin
  BY <1>3, PatchWins
<1>. QED
  BY <1>1, <1>2, <1>4 DEF WinsStay

\* What is stored remains so.
LEMMA StoredStays ==
    ASSUME WinsStay, NEW d, DrawStored(d)
    PROVE  DrawStored(d)'
BY DEF WinsStay, DrawStored, Winners

\* A pass that does not move has stored what it had stored.
LEMMA RecordedStays ==
    ASSUME MillionsDrawsAssumption, IInv, WinsStay, NEW q \in Passes, Recorded(q), Passed(q),
           aged' \in Int,
           pc'[q] = pc[q], at'[q] = at[q], todo'[q] = todo[q],
           win'[q] = win[q], found'[q] = found[q], list'[q] = list[q]
    PROVE  Recorded(q)' /\ Passed(q)'
<1>1. at[q] \in Draws /\ list[q].drawn \subseteq Draws
  BY DEF IInv, LocalsType
<1>2. Passed(q)'
  <2>. SUFFICES ASSUME NEW d \in list[q].drawn, aged' < d, d < at[q]
                PROVE  DrawStored(d)'
    BY DEF Passed
  <2>1. aged < d
    BY <1>1 DEF Draws, WinsStay, IInv, ChainType
  <2>2. DrawStored(d)
    BY <2>1 DEF Passed
  <2>. QED
    BY <2>2, StoredStays
<1>3. ASSUME pc[q] \in {"winner", "find", "patch"}, NEW a \in Winners(at[q]) \ todo[q]
      PROVE  best'[a] # NoWin \/ (pc[q] # "winner" /\ a = win[q].who)
  BY <1>3 DEF Recorded, WinsStay, Winners
<1>4. pc[q] = "patch" /\ found[q] # NoWin => best'[win[q].who] # NoWin
  <2>1. pc[q] = "patch" => win[q].who \in Addresses
    BY DEF IInv, PassInv, Informed, Winners
  <2>. QED
    BY <2>1 DEF Recorded, WinsStay
<1>5. pc[q] = "idle" => at[q] = 1
  BY DEF Recorded
<1>. QED
  BY <1>2, <1>3, <1>4, <1>5 DEF Recorded, Winners

\* A pass that goes on to the next draw has gone by one draw more.
LEMMA NextDrawRecorded ==
    ASSUME MillionsDrawsAssumption, IInv, WinsStay, NEW p \in Passes, Passed(p),
           aged' \in Int, NextDraw(p), NEW k, k = at[p],
           k \in list[p].drawn /\ aged' < k => DrawStored(k)'
    PROVE  Recorded(p)' /\ Passed(p)' /\ OthersStay(p)
<1>1. /\ at[p] \in Draws /\ list[p].drawn \subseteq Draws
      /\ pc \in [Passes -> PCs] /\ at \in [Passes -> Draws]
      /\ list \in [Passes -> [made : 0..MaxDraws, drawn : SUBSET Draws]]
  BY DEF IInv, LocalsType
<1>2. OthersStay(p) /\ pc'[p] \in {"idle", "age"}
  BY NextDrawLocals DEF IInv
<1>3. CASE at[p] < list[p].made
  <2>1. at'[p] = at[p] + 1 /\ list'[p] = list[p] /\ pc'[p] = "age"
    BY <1>1, <1>3 DEF NextDraw, Goto
  <2>. SUFFICES ASSUME NEW d \in list[p].drawn, aged' < d, d < at[p] + 1
                PROVE  DrawStored(d)'
    BY <1>2, <2>1 DEF Passed, Recorded
  <2>2. CASE d = at[p]
    BY <2>2
  <2>3. CASE d # at[p]
    <3>1. aged < d /\ d < at[p]
      BY <1>1, <2>3 DEF Draws, WinsStay, IInv, ChainType
    <3>2. DrawStored(d)
      BY <3>1 DEF Passed
    <3>. QED
      BY <3>2, StoredStays
  <2>. QED
    BY <2>2, <2>3
<1>4. CASE ~(at[p] < list[p].made)
  <2>1. at'[p] = 1 /\ list'[p] = NoList /\ pc'[p] = "idle"
    BY <1>1, <1>4 DEF NextDraw, End, Goto
  <2>2. NoList.drawn = {}
    BY DEF NoList
  <2>. QED
    BY <1>2, <2>1, <2>2 DEF Recorded, Passed
<1>. QED
  BY <1>3, <1>4

LEMMA EndRecorded ==
    ASSUME MillionsDrawsAssumption, IInv, NEW p \in Passes, End(p)
    PROVE  Recorded(p)' /\ Passed(p)' /\ OthersStay(p)
<1>1. at'[p] = 1 /\ list'[p] = NoList /\ pc'[p] = "idle"
  BY DEF End, Goto, IInv, LocalsType
<1>2. NoList.drawn = {}
  BY DEF NoList
<1>3. OthersStay(p)
  BY EndLocals DEF IInv
<1>. QED
  BY <1>1, <1>2, <1>3 DEF Recorded, Passed

\* A pass that stays at its draw has gone by no other.
LEMMA PassedStays ==
    ASSUME MillionsDrawsAssumption, IInv, WinsStay, NEW p \in Passes, Passed(p),
           aged' \in Int, at'[p] = at[p], list'[p] = list[p]
    PROVE  Passed(p)'
<1>1. at[p] \in Draws /\ list[p].drawn \subseteq Draws
  BY DEF IInv, LocalsType
<1>. SUFFICES ASSUME NEW d \in list[p].drawn, aged' < d, d < at[p]
              PROVE  DrawStored(d)'
  BY DEF Passed
<1>2. aged < d
  BY <1>1 DEF Draws, WinsStay, IInv, ChainType
<1>3. DrawStored(d)
  BY <1>2 DEF Passed
<1>. QED
  BY <1>3, StoredStays

LEMMA PrizesRecorded ==
    ASSUME MillionsDrawsAssumption, IInv, WinsStay, NEW p \in Passes, Passed(p),
           aged' \in Int, Prizes(p)
    PROVE  Recorded(p)' /\ Passed(p)' /\ OthersStay(p)
<1>1. CASE at[p] \in list[p].drawn /\ Winners(at[p]) # {}
  <2>1. at' = at /\ list' = list /\ pc'[p] = "prizes"
    BY <1>1 DEF Prizes, Goto, IInv, LocalsType
  <2>2. Passed(p)'
    BY <2>1, PassedStays
  <2>3. OthersStay(p)
    BY PrizesLocals DEF IInv
  <2>. QED
    BY <2>1, <2>2, <2>3 DEF Recorded
<1>2. CASE ~(at[p] \in list[p].drawn /\ Winners(at[p]) # {})
  <2>1. NextDraw(p)
    BY <1>2 DEF Prizes
  <2>2. PICK k : k = at[p]
    OBVIOUS
  <2>3. k \in list[p].drawn => Winners(k) = {}
    BY <1>2, <2>2
  <2>4. k \in list[p].drawn => DrawStored(k)'
    BY <2>3 DEF DrawStored, Winners
  <2>. QED
    BY <2>1, <2>2, <2>4, NextDrawRecorded
<1>. QED
  BY <1>1, <1>2

\* The steps of a pass, one by one.
LEMMA BeginRecorded ==
    ASSUME MillionsDrawsAssumption, IInv, NEW p \in Passes, Recorded(p), Begin(p)
    PROVE  Recorded(p)' /\ Passed(p)' /\ OthersStay(p)
<1>1. /\ pc' = [pc EXCEPT ![p] = "age"] /\ at' = at
      /\ list' = [list EXCEPT ![p] = [made |-> made, drawn |-> drawn]]
      /\ UNCHANGED <<todo, win, found>>
  BY DEF Begin, Goto
<1>2. at[p] = 1 /\ drawn \subseteq Draws
  BY DEF Begin, Recorded, IInv, ChainType
<1>3. pc'[p] = "age" /\ at'[p] = 1 /\ list'[p] = [made |-> made, drawn |-> drawn]
  BY <1>1, <1>2 DEF IInv, LocalsType
<1>4. list'[p].drawn = drawn
  BY <1>3
<1>5. \A d \in drawn : ~(d < 1)
  BY <1>2 DEF Draws
<1>6. OthersStay(p)
  BY <1>1 DEF OthersStay, IInv, LocalsType
<1>. QED
  BY <1>3, <1>4, <1>5, <1>6 DEF Recorded, Passed

LEMMA CheckAgeRecorded ==
    ASSUME MillionsDrawsAssumption, IInv, WinsStay, NEW p \in Passes, Passed(p), CheckAge(p)
    PROVE  Recorded(p)' /\ Passed(p)' /\ OthersStay(p)
<1>1. aged' = aged /\ aged \in Int /\ at[p] \in Draws
  BY DEF CheckAge, chain, IInv, ChainType, LocalsType
<1>2. CASE Skipped(at[p])
  <2>1. NextDraw(p) /\ ~(aged < at[p])
    BY <1>1, <1>2 DEF CheckAge, Skipped, Draws
  <2>2. PICK k : k = at[p]
    OBVIOUS
  <2>. QED
    BY <1>1, <2>1, <2>2, NextDrawRecorded
<1>3. CASE ~Skipped(at[p])
  <2>1. pc' = [pc EXCEPT ![p] = "get"] /\ UNCHANGED <<at, list, todo, win, found>>
    BY <1>3 DEF CheckAge, Goto, locals
  <2>2. pc'[p] = "get" /\ OthersStay(p)
    BY <2>1 DEF OthersStay, IInv, LocalsType
  <2>. QED
    BY <1>1, <2>1, <2>2, PassedStays DEF Recorded
<1>. QED
  BY <1>2, <1>3

LEMMA GetRecorded ==
    ASSUME MillionsDrawsAssumption, IInv, WinsStay, NEW p \in Passes, Passed(p),
           Get(p) \/ Save(p)
    PROVE  Recorded(p)' /\ Passed(p)' /\ OthersStay(p)
<1>1. aged' = aged /\ aged \in Int
  BY DEF Get, Save, chain, IInv, ChainType
<1>2. CASE Prizes(p)
  BY <1>1, <1>2, PrizesRecorded
<1>3. CASE ~Prizes(p)
  <2>1. pc' = [pc EXCEPT ![p] = "save"] /\ UNCHANGED <<at, list, todo, win, found>>
    BY <1>3 DEF Get, Save, Goto, locals
  <2>2. pc'[p] = "save" /\ OthersStay(p)
    BY <2>1 DEF OthersStay, IInv, LocalsType
  <2>. QED
    BY <1>1, <2>1, <2>2, PassedStays DEF Recorded
<1>. QED
  BY <1>2, <1>3

LEMMA SavePrizeRecorded ==
    ASSUME MillionsDrawsAssumption, IInv, WinsStay, NEW p \in Passes, Passed(p),
           NEW a \in Addresses, SavePrize(p, a)
    PROVE  Recorded(p)' /\ Passed(p)' /\ OthersStay(p)
<1>1. /\ aged' = aged /\ aged \in Int
      /\ UNCHANGED <<at, list, win, found>>
      /\ pc[p] = "prizes"
  BY DEF SavePrize, chain, IInv, ChainType
<1>2. Passed(p)'
  BY <1>1, PassedStays
<1>3. CASE todo[p] = {a}
  <2>1. pc' = [pc EXCEPT ![p] = "winner"] /\ todo' = [todo EXCEPT ![p] = Winners(at[p])]
    BY <1>3 DEF SavePrize, Goto
  <2>2. pc'[p] = "winner" /\ todo'[p] = Winners(at'[p]) /\ OthersStay(p)
    BY <1>1, <2>1 DEF OthersStay, IInv, LocalsType
  <2>. QED
    BY <1>2, <2>2 DEF Recorded, Winners
<1>4. CASE todo[p] # {a}
  <2>1. pc' = pc /\ todo' = [todo EXCEPT ![p] = todo[p] \ {a}]
    BY <1>4 DEF SavePrize
  <2>2. pc'[p] = "prizes" /\ OthersStay(p)
    BY <1>1, <2>1 DEF OthersStay, IInv, LocalsType
  <2>. QED
    BY <1>2, <2>2 DEF Recorded
<1>. QED
  BY <1>3, <1>4

LEMMA ReadDepositsRecorded ==
    ASSUME MillionsDrawsAssumption, IInv, WinsStay, NEW p \in Passes, Recorded(p), Passed(p),
           NEW a \in Addresses, ReadDeposits(p, a)
    PROVE  Recorded(p)' /\ Passed(p)' /\ OthersStay(p)
<1>. DEFINE w == [who |-> a, sum |-> SumOfDeposits(a, at[p])]
<1>1. /\ aged' = aged /\ aged \in Int
      /\ UNCHANGED <<at, list, found, best>>
      /\ pc[p] = "winner" /\ a \in todo[p]
      /\ pc' = [pc EXCEPT ![p] = "find"]
      /\ todo' = [todo EXCEPT ![p] = todo[p] \ {a}]
      /\ win' = [win EXCEPT ![p] = w]
  BY DEF ReadDeposits, Goto, chain, tables, IInv, ChainType
<1>2. w.who = a
  OBVIOUS
<1>. HIDE DEF w
<1>3. Passed(p)'
  BY <1>1, PassedStays
<1>4. /\ pc'[p] = "find" /\ todo'[p] = todo[p] \ {a} /\ at'[p] = at[p] /\ win'[p].who = a
      /\ OthersStay(p)
  BY <1>1, <1>2 DEF OthersStay, IInv, LocalsType
<1>5. \A b \in Winners(at[p]) \ todo[p] : best[b] # NoWin
  BY <1>1 DEF Recorded
<1>. QED
  BY <1>1, <1>3, <1>4, <1>5 DEF Recorded, Winners

LEMMA FindRecorded ==
    ASSUME MillionsDrawsAssumption, IInv, WinsStay, NEW p \in Passes, Recorded(p), Passed(p),
           Find(p)
    PROVE  Recorded(p)' /\ Passed(p)' /\ OthersStay(p)
<1>1. /\ aged' = aged /\ aged \in Int
      /\ UNCHANGED <<at, list, todo, win, best>>
      /\ pc[p] = "find"
      /\ pc' = [pc EXCEPT ![p] = "patch"]
      /\ found' = [found EXCEPT ![p] = best[win[p].who]]
  BY DEF Find, Goto, chain, tables, IInv, ChainType
<1>2. Passed(p)'
  BY <1>1, PassedStays
<1>3. /\ pc'[p] = "patch" /\ found'[p] = best[win[p].who] /\ OthersStay(p)
  BY <1>1 DEF OthersStay, IInv, LocalsType
<1>4. \A b \in Winners(at[p]) \ todo[p] : best[b] # NoWin \/ b = win[p].who
  BY <1>1 DEF Recorded
<1>. QED
  BY <1>1, <1>2, <1>3, <1>4 DEF Recorded, Winners

\* The last winner of a draw: all of them are stored.
LEMMA PatchRecorded ==
    ASSUME MillionsDrawsAssumption, IInv, WinsStay, NEW p \in Passes, Recorded(p), Passed(p),
           Patch(p)
    PROVE  Recorded(p)' /\ Passed(p)' /\ OthersStay(p)
<1>1. aged' = aged /\ aged \in Int /\ pc[p] = "patch" /\ prizeRow' = prizeRow
  BY DEF Patch, chain, IInv, ChainType
<1>2. win[p].who \in Addresses /\ best'[win[p].who] # NoWin
  <2>1. found[p] # NoWin => best[win[p].who] # NoWin
    BY <1>1 DEF Recorded
  <2>. QED
    BY <2>1, PatchWins
<1>3. \A a \in Winners(at[p]) \ todo[p] : best'[a] # NoWin
  <2>. SUFFICES ASSUME NEW a \in Winners(at[p]) \ todo[p], a # win[p].who
                PROVE  best'[a] # NoWin
    BY <1>2
  <2>1. best[a] # NoWin /\ a \in Addresses
    BY <1>1 DEF Recorded, Winners
  <2>. QED
    BY <2>1 DEF WinsStay
<1>4. CASE todo[p] # {}
  <2>1. /\ pc' = [pc EXCEPT ![p] = "winner"]
        /\ win' = [win EXCEPT ![p] = NoOne]
        /\ found' = [found EXCEPT ![p] = NoWin]
        /\ UNCHANGED <<at, list, todo>>
    BY <1>4 DEF Patch, Goto
  <2>2. pc'[p] = "winner" /\ todo'[p] = todo[p] /\ at'[p] = at[p] /\ OthersStay(p)
    BY <2>1 DEF OthersStay, IInv, LocalsType
  <2>3. Passed(p)'
    BY <1>1, <2>1, PassedStays
  <2>. QED
    BY <1>3, <2>2, <2>3 DEF Recorded, Winners
<1>5. CASE todo[p] = {}
  <2>1. NextDraw(p)
    BY <1>5 DEF Patch
  <2>2. PICK k : k = at[p]
    OBVIOUS
  <2>3. \A a \in Winners(k) : <<k, a>> \in prizeRow
    BY <1>1, <2>2 DEF IInv, PassInv, Informed, PrizesStored
  <2>4. DrawStored(k)'
    BY <1>1, <1>3, <1>5, <2>2, <2>3 DEF DrawStored, Winners
  <2>. QED
    BY <1>1, <2>1, <2>2, <2>4, NextDrawRecorded
<1>. QED
  BY <1>4, <1>5

\* What the step of one pass leaves.
LEMMA FrameOfPass ==
    ASSUME MillionsDrawsAssumption, IInv, WinnersInv, [Next]_vars, NEW p \in Passes, Pass(p) \/ Fail(p)
    PROVE  Recorded(p)' /\ Passed(p)' /\ OthersStay(p)
<1>0. WinsStay
  BY RowsOfWinnersStay
<1>1. Recorded(p) /\ Passed(p)
  BY DEF WinnersInv
<1>2. CASE Begin(p)
  BY <1>1, <1>2, BeginRecorded
<1>3. CASE CheckAge(p)
  BY <1>0, <1>1, <1>3, CheckAgeRecorded
<1>4. CASE Get(p) \/ Save(p)
  BY <1>0, <1>1, <1>4, GetRecorded
<1>5. ASSUME NEW a \in Addresses, SavePrize(p, a)
      PROVE  Recorded(p)' /\ Passed(p)' /\ OthersStay(p)
  BY <1>0, <1>1, <1>5, SavePrizeRecorded
<1>6. ASSUME NEW a \in Addresses, ReadDeposits(p, a)
      PROVE  Recorded(p)' /\ Passed(p)' /\ OthersStay(p)
  BY <1>0, <1>1, <1>6, ReadDepositsRecorded
<1>7. CASE Find(p)
  BY <1>0, <1>1, <1>7, FindRecorded
<1>8. CASE Patch(p)
  BY <1>0, <1>1, <1>8, PatchRecorded
<1>9. CASE Fail(p)
  BY <1>9, EndRecorded DEF Fail
<1>. QED
  BY <1>2, <1>3, <1>4, <1>5, <1>6, <1>7, <1>8, <1>9 DEF Pass

\* What a pass has stored, step by step.
LEMMA WinnersStep ==
    ASSUME MillionsDrawsAssumption, IInv, WinnersInv, [Next]_vars
    PROVE  WinnersInv'
<1>1. WinsStay
  BY RowsOfWinnersStay
<1>2. aged' \in Int
  BY NextIInv DEF IInv, ChainType, MillionsDrawsAssumption
<1>4. CASE \E p \in Passes : Pass(p) \/ Fail(p)
  <2>1. PICK p \in Passes : Pass(p) \/ Fail(p)
    BY <1>4
  <2>2. Recorded(p)' /\ Passed(p)' /\ OthersStay(p)
    BY <2>1, FrameOfPass
  <2>3. ASSUME NEW q \in Passes, q # p
        PROVE  Recorded(q)' /\ Passed(q)'
    <3>1. /\ pc'[q] = pc[q] /\ at'[q] = at[q] /\ todo'[q] = todo[q]
          /\ win'[q] = win[q] /\ found'[q] = found[q] /\ list'[q] = list[q]
      BY <2>2, <2>3 DEF OthersStay
    <3>2. Recorded(q) /\ Passed(q)
      BY DEF WinnersInv
    <3>. QED
      BY <1>1, <1>2, <3>1, <3>2, RecordedStays
  <2>. QED
    BY <2>2, <2>3 DEF WinnersInv
<1>5. CASE Chain \/ UNCHANGED vars
  <2>1. UNCHANGED <<pc, at, todo, win, found, list>>
    BY <1>5 DEF Chain, NewDraw, Draw, Age, Deposit, Withdraw, vars, locals
  <2>. SUFFICES ASSUME NEW q \in Passes PROVE Recorded(q)' /\ Passed(q)'
    BY DEF WinnersInv
  <2>2. Recorded(q) /\ Passed(q)
    BY DEF WinnersInv
  <2>. QED
    BY <1>1, <1>2, <2>1, <2>2, RecordedStays
<1>. QED
  BY <1>4, <1>5 DEF Next

\* A pass begins, goes on, or ends.
Goes(p) ==
    \/ pc[p] # "idle" /\ pc'[p] # "idle" /\ shared' = shared
    \/ pc[p] # "idle" /\ pc'[p] = "idle" /\ shared' = shared \ {p}
    \/ pc[p] = "idle" /\ shared' = IF Running = {} THEN shared ELSE shared \cup Running \cup {p}

LEMMA NextDrawGoes ==
    ASSUME IInv, NEW p \in Passes, pc[p] # "idle", NextDraw(p) \/ End(p)
    PROVE  Goes(p) /\ pc'[p] \in {"idle", "age"}
<1>1. pc \in [Passes -> PCs]
  BY DEF IInv, LocalsType
<1>2. CASE End(p)
  BY <1>1, <1>2 DEF End, Goto, Goes
<1>3. CASE ~End(p)
  <2>1. pc' = [pc EXCEPT ![p] = "age"] /\ shared' = shared
    BY <1>3 DEF NextDraw, Goto
  <2>. QED
    BY <1>1, <2>1 DEF Goes
<1>. QED
  BY <1>2, <1>3

\* Only Find comes to the save of a winner, with his row as it is.
LEMMA PassGoes ==
    ASSUME MillionsDrawsAssumption, IInv, NEW p \in Passes, Pass(p) \/ Fail(p)
    PROVE  Goes(p) /\ (pc'[p] = "patch" => found'[p] = best'[win'[p].who])
<1>1. pc \in [Passes -> PCs]
  BY DEF IInv, LocalsType
<1>2. ASSUME NextDraw(p) \/ End(p), pc[p] # "idle"
      PROVE  Goes(p) /\ pc'[p] # "patch"
  BY <1>2, NextDrawGoes
<1>3. ASSUME NEW to \in PCs \ {"idle", "patch"}, Goto(p, to), shared' = shared, pc[p] # "idle"
      PROVE  Goes(p) /\ pc'[p] # "patch"
  BY <1>1, <1>3 DEF Goto, Goes
<1>4. ASSUME Prizes(p), pc[p] # "idle"
      PROVE  Goes(p) /\ pc'[p] # "patch"
  <2>1. NextDraw(p) \/ (Goto(p, "prizes") /\ shared' = shared)
    BY <1>4 DEF Prizes
  <2>. QED
    BY <1>2, <1>3, <1>4, <2>1 DEF PCs
<1>5. CASE Begin(p)
  BY <1>1, <1>5 DEF Begin, Goto, Goes, PCs
<1>6. CASE CheckAge(p)
  <2>1. pc[p] # "idle" /\ (NextDraw(p) \/ (Goto(p, "get") /\ shared' = shared))
    BY <1>6 DEF CheckAge
  <2>. QED
    BY <1>2, <1>3, <2>1 DEF PCs
<1>7. CASE Get(p) \/ Save(p)
  <2>1. pc[p] # "idle" /\ (Prizes(p) \/ (Goto(p, "save") /\ shared' = shared))
    BY <1>7 DEF Get, Save
  <2>. QED
    BY <1>3, <1>4, <2>1 DEF PCs
<1>8. CASE \E a \in Addresses : SavePrize(p, a)
  <2>1. pc[p] = "prizes" /\ shared' = shared /\ (Goto(p, "winner") \/ pc' = pc)
    BY <1>8 DEF SavePrize
  <2>. QED
    BY <1>3, <2>1 DEF Goes, PCs
<1>9. CASE \E a \in Addresses : ReadDeposits(p, a)
  <2>1. pc[p] # "idle" /\ Goto(p, "find") /\ shared' = shared
    BY <1>9 DEF ReadDeposits
  <2>. QED
    BY <1>3, <2>1 DEF PCs
<1>10. CASE Find(p)
  <2>1. /\ pc[p] = "find" /\ pc' = [pc EXCEPT ![p] = "patch"] /\ shared' = shared
        /\ found' = [found EXCEPT ![p] = best[win[p].who]] /\ best' = best /\ win' = win
    BY <1>10 DEF Find, Goto, tables
  <2>2. pc'[p] = "patch" /\ found'[p] = best[win[p].who]
    BY <1>1, <2>1 DEF IInv, LocalsType
  <2>. QED
    BY <2>1, <2>2 DEF Goes
<1>11. CASE Patch(p)
  <2>1. pc[p] # "idle" /\ (NextDraw(p) \/ (Goto(p, "winner") /\ shared' = shared))
    BY <1>11 DEF Patch
  <2>. QED
    BY <1>2, <1>3, <2>1 DEF PCs
<1>12. CASE Fail(p)
  BY <1>2, <1>12 DEF Fail
<1>. QED
  BY <1>5, <1>6, <1>7, <1>8, <1>9, <1>10, <1>11, <1>12 DEF Pass

\* Whoever runs while another pass takes a step knows it.
LEMMA LoneStep ==
    ASSUME MillionsDrawsAssumption, IInv, WinnersInv, LoneInv, [Next]_vars
    PROVE  LoneInv'
<1>1. CASE \E p \in Passes : Pass(p) \/ Fail(p)
  <2>1. PICK p \in Passes : Pass(p) \/ Fail(p)
    BY <1>1
  <2>2. Goes(p) /\ (pc'[p] = "patch" => found'[p] = best'[win'[p].who])
    BY <2>1, PassGoes
  <2>3. \A q \in Passes \ {p} : pc'[q] = pc[q]
    BY <2>1, FrameOfPass DEF OthersStay
  <2>4. \A q \in Passes \ {p} : pc[q] # "idle" => q \in shared'
    BY <2>2 DEF LoneInv, Known, Goes, Running
  <2>5. Known'
    <3>. SUFFICES ASSUME NEW q \in Passes, NEW r \in Passes,
                         pc'[q] # "idle", pc'[r] # "idle", q # r
                  PROVE  q \in shared'
      BY DEF Known
    <3>1. CASE q # p
      BY <2>3, <2>4, <3>1
    <3>2. CASE q = p
      <4>1. r # p /\ pc[r] # "idle"
        BY <2>3, <3>2
      <4>2. pc[p] # "idle" => p \in shared
        BY <4>1 DEF LoneInv, Known
      <4>. QED
        BY <2>2, <3>2, <4>1, <4>2 DEF Goes, Running
    <3>. QED
      BY <3>1, <3>2
  <2>6. ASSUME NEW q \in Passes PROVE Fresh(q)'
    BY <2>2, <2>3, <2>4 DEF Fresh
  <2>. QED
    BY <2>5, <2>6 DEF LoneInv
<1>2. CASE Chain \/ UNCHANGED vars
  <2>1. UNCHANGED <<pc, shared, found, best, win>>
    BY <1>2 DEF Chain, NewDraw, Draw, Age, Deposit, Withdraw, vars, locals, tables
  <2>. QED
    BY <2>1 DEF LoneInv, Known, Fresh
<1>. QED
  BY <1>1, <1>2 DEF Next

LEMMA InitAll ==
    ASSUME Init
    PROVE  WinnersInv /\ LoneInv
<1>1. WinnersInv
  BY DEF Init, WinnersInv, Recorded, Passed, NoList
<1>2. LoneInv
  BY DEF Init, LoneInv, Known, Fresh
<1>. QED
  BY <1>1, <1>2

LEMMA InductiveAll ==
    ASSUME MillionsDrawsAssumption
    PROVE  Spec => [](IInv /\ WinnersInv /\ LoneInv)
<1>1. Init => IInv /\ WinnersInv /\ LoneInv
  BY InitIInv, InitAll
<1>2. IInv /\ WinnersInv /\ LoneInv /\ [Next]_vars => (IInv /\ WinnersInv /\ LoneInv)'
  BY NextIInv, WinnersStep, LoneStep
<1>. QED
  BY <1>1, <1>2, PTL DEF Spec

\* Every pass of drawsSync has stored the prizes and the winners of the recent
\* draws it went by, whichever others it overlaps with and wherever those fail.
THEOREM PassedStored == Spec => []PassedIsStored
<1>1. WinnersInv => PassedIsStored
  BY DEF WinnersInv, Passed, DrawStored, PassedIsStored
<1>. QED
  BY <1>1, MillionsDrawsAssumption, InductiveAll, PTL

\* Without overlap, createOrUpdateAccordingToApr replaces a winner's row only by
\* one with a greater ratio.
THEOREM RatioGrows == Spec => RatioOnlyGrows
<1>1. ASSUME IInv, LoneInv, [Next]_vars
      PROVE  [\A a \in Addresses :
                 shared = {} /\ best[a] # NoWin /\ best'[a] # best[a]
                 => Beats(a, best'[a], best[a])]_vars
  <2>. SUFFICES ASSUME NEW a \in Addresses, shared = {}, best[a] # NoWin, best'[a] # best[a]
                PROVE  Beats(a, best'[a], best[a])
    OBVIOUS
  <2>1. \E p \in Passes : Patch(p)
    BY <1>1 DEF Next, Chain, NewDraw, Draw, Age, Deposit, Withdraw, Pass, Begin, CheckAge,
           Get, Save, SavePrize, ReadDeposits, Find, Fail, vars, tables
  <2>2. PICK p \in Passes : Patch(p)
    BY <2>1
  <2>3. a = win[p].who
    BY <1>1, <2>2, PatchWins, MillionsDrawsAssumption
  <2>4. found[p] = best[a]
    BY <1>1, <2>2, <2>3 DEF LoneInv, Fresh, Patch
  <2>. QED
    BY <1>1, <2>2, <2>3, <2>4, PatchWins, MillionsDrawsAssumption
<1>. QED
  BY <1>1, MillionsDrawsAssumption, InductiveAll, PTL DEF Spec, RatioOnlyGrows

-----------------------------------------------------------------------------
(* Both crons together.                                                     *)

DepP == INSTANCE MillionsDepositorsProofs
        WITH Addresses <- Depositing, Failing <- Passes, pc <- depositorsPc,
             shared <- depositorsShared

LEMMA DepositorsNames ==
    /\ DepP!Deposits = Depositors!Deposits /\ DepP!States = Depositors!States
    /\ DepP!NoRow = Depositors!NoRow /\ DepP!Running = Depositors!Running
    /\ \A r : DepP!Depositors(r) = Depositors!Depositors(r)
    /\ \A r, a : DepP!RawAmount(r, a) = Depositors!RawAmount(r, a)
    /\ \A r, a : DepP!RowOf(r, a) = Depositors!RowOf(r, a)
    /\ \A S : DepP!Cardinality(S) = Depositors!Cardinality(S)
<1>1. DepP!Deposits = Depositors!Deposits /\ DepP!States = Depositors!States
  BY DEF DepP!Deposits, Depositors!Deposits, DepP!States, Depositors!States
<1>2. DepP!NoRow = Depositors!NoRow /\ DepP!Running = Depositors!Running
  BY DEF DepP!NoRow, Depositors!NoRow, DepP!Running, Depositors!Running
<1>3. ASSUME NEW S
      PROVE  DepP!Cardinality(S) = Depositors!Cardinality(S)
  BY DEF DepP!Cardinality, Depositors!Cardinality
<1>4. ASSUME NEW r, NEW a
      PROVE  DepP!Counted(r, a) = Depositors!Counted(r, a)
  BY <1>1 DEF DepP!Counted, Depositors!Counted
<1>5. ASSUME NEW r
      PROVE  DepP!Depositors(r) = Depositors!Depositors(r)
  BY <1>4 DEF DepP!Depositors, Depositors!Depositors
<1>6. ASSUME NEW r, NEW a
      PROVE  DepP!RawAmount(r, a) = Depositors!RawAmount(r, a)
  BY <1>4 DEF DepP!RawAmount, Depositors!RawAmount, DepP!MapThenSumSet, Depositors!MapThenSumSet,
              DepP!MapThenFoldSet, Depositors!MapThenFoldSet
<1>7. ASSUME NEW r, NEW a, NEW b
      PROVE  DepP!Precedes(r, a, b) <=> Depositors!Precedes(r, a, b)
  BY <1>4, <1>6 DEF DepP!Precedes, Depositors!Precedes, DepP!Min, Depositors!Min
<1>8. ASSUME NEW r, NEW a
      PROVE  DepP!RowOf(r, a) = Depositors!RowOf(r, a)
  <2>1. {b \in DepP!Depositors(r) : DepP!Precedes(r, b, a)}
        = {b \in Depositors!Depositors(r) : Depositors!Precedes(r, b, a)}
    BY <1>5, <1>7
  <2>. QED
    BY <1>3, <1>6, <2>1 DEF DepP!RowOf, Depositors!RowOf
<1>. QED
  BY <1>1, <1>2, <1>3, <1>5, <1>6, <1>8

LEMMA DepositorsMove ==
    DepP!MillionsDepositorsAssumption /\ (SyncSpec => DepP!Spec)
<1>1. DepP!MillionsDepositorsAssumption
  BY MillionsSyncAssumption
     DEF DepP!MillionsDepositorsAssumption, Depositors!MillionsDepositorsAssumption,
         DepP!IsFiniteSet, Depositors!IsFiniteSet
<1>2. SyncInit => DepP!Init
  BY DepositorsNames DEF SyncInit, Depositors!Init, DepP!Init
<1>3. ASSUME NEW p
      PROVE  Depositors!End(p) => DepP!End(p)
  BY DepositorsNames DEF Depositors!End, DepP!End, Depositors!Goto, DepP!Goto
<1>4. ASSUME NEW d, NEW s
      PROVE  Depositors!Change(d, s) => DepP!Change(d, s)
  BY DEF Depositors!Change, DepP!Change
<1>5. ASSUME NEW p
      PROVE  Depositors!Begin(p) => DepP!Begin(p)
  BY DepositorsNames DEF Depositors!Begin, DepP!Begin, Depositors!Goto, DepP!Goto
<1>6. ASSUME NEW p
      PROVE  Depositors!ReadPage(p) => DepP!ReadPage(p)
  BY DEF Depositors!ReadPage, DepP!ReadPage, Depositors!Goto, DepP!Goto
<1>7. ASSUME NEW p
      PROVE  Depositors!Delete(p) => DepP!Delete(p)
  BY DepositorsNames DEF Depositors!Delete, DepP!Delete, Depositors!Goto, DepP!Goto
<1>8. ASSUME NEW p
      PROVE  Depositors!Select(p) => DepP!Select(p)
  BY DepositorsNames DEF Depositors!Select, DepP!Select, Depositors!Goto, DepP!Goto
<1>9. ASSUME NEW p
      PROVE  DepP!Inserted(p) = Depositors!Inserted(p)
  BY DepositorsNames DEF Depositors!Inserted, DepP!Inserted
<1>10. ASSUME NEW p
       PROVE  DepP!Written(p) = Depositors!Written(p)
  BY <1>9, DepositorsNames DEF Depositors!Written, DepP!Written
<1>11. ASSUME NEW p
       PROVE  Depositors!Write(p) => DepP!Write(p)
  BY <1>9, <1>10, DepositorsNames DEF Depositors!Write, DepP!Write, Depositors!Goto, DepP!Goto
<1>12. ASSUME NEW p
       PROVE  Depositors!WriteConflicts(p) => DepP!WriteConflicts(p)
  BY <1>3, <1>9, DepositorsNames DEF Depositors!WriteConflicts, DepP!WriteConflicts
<1>13. ASSUME NEW p
       PROVE  /\ Depositors!Finish(p) => DepP!Finish(p)
              /\ Depositors!Fail(p) => DepP!Fail(p)
  BY <1>3 DEF Depositors!Finish, DepP!Finish, Depositors!Fail, DepP!Fail
<1>14. Depositors!Next => DepP!Next
  BY <1>4, <1>5, <1>6, <1>7, <1>8, <1>11, <1>12, <1>13, DepositorsNames
     DEF Depositors!Next, DepP!Next, Depositors!Pass, DepP!Pass
<1>15. [SyncNext]_all => [DepP!Next]_DepP!vars
  BY <1>14 DEF SyncNext, all, depositorsVars, DepP!vars
<1>. QED
  BY <1>1, <1>2, <1>15, PTL DEF SyncSpec, DepP!Spec

LEMMA DrawsMove == SyncSpec => Spec
<1>1. SyncInit => Init
  BY DEF SyncInit
<1>2. [SyncNext]_all => [Next]_vars
  BY DEF SyncNext, all
<1>. QED
  BY <1>1, <1>2, PTL DEF SyncSpec, Spec

\* The rows and passes of both crons are well typed, however their steps interleave
\* (MillionsScheduler.millionsDrawsSync and depositorsSync).
THEOREM SyncTypeCorrect == SyncSpec => []SyncTypeOK
<1>1. SyncSpec => []TypeOK
  BY DrawsMove, TypeCorrect, PTL
<1>2. DepP!Spec => []DepP!TypeOK
  BY DepositorsMove, DepP!TypeCorrect
<1>3. DepP!TypeOK => Depositors!TypeOK
  BY DepositorsNames DEF DepP!TypeOK, Depositors!TypeOK
<1>4. TypeOK /\ Depositors!TypeOK => SyncTypeOK
  BY DEF SyncTypeOK
<1>. QED
  BY <1>1, <1>2, <1>3, <1>4, DepositorsMove, PTL

\* A pass of depositorsSync that ran alone replaces the pool's ranking by that of what it
\* read (millions.scheduler.ts:314-336).
THEOREM LonePassReplaces == SyncSpec => []LonePassReplacesAll
<1>1. DepP!Spec => []DepP!LonePassReplacesAll
  BY DepositorsMove, DepP!LonePassReplaces
<1>2. DepP!LonePassReplacesAll => LonePassReplacesAll
  <2>1. DepP!Ranked = Depositors!Ranked
    BY DepositorsNames DEF DepP!Ranked, Depositors!Ranked
  <2>. QED
    BY <2>1, DepositorsNames
       DEF DepP!LonePassReplacesAll, LonePassReplacesAll, Depositors!LonePassReplacesAll
<1>. QED
  BY <1>1, <1>2, DepositorsMove, PTL
===============================================================================
