---------------------------- MODULE MillionsDraws ----------------------------
(***************************************************************************)
(* The draws of a pool, their prizes and the biggest winners.              *)
(* MillionsScheduler.drawsSync lists the draws, stores those it does not   *)
(* know, their prizes, and for each winner of a draw the best ratio of     *)
(* what he won to what he had deposited.  A draw that is older than two    *)
(* weeks and has a row is skipped.  Passes may overlap, as the cron fires  *)
(* again whether or not the last one has ended.                            *)
(*                                                                         *)
(* The prizes that one address wins in one draw are one here: the code     *)
(* adds them up.  The pool's draws fit on one page, and so do the deposits *)
(* of a winner.  Sponsorships never count and are left out.                *)
(***************************************************************************)
EXTENDS Integers, FiniteSets

CONSTANTS Addresses,
          MaxDraws,   \* bound on the chain's draws
          Won,        \* what an address wins in each draw; 0 when nothing
          Passes      \* passes that may run at once

ASSUME MillionsDrawsAssumption ==
    /\ MaxDraws \in Nat \ {0}
    /\ Won \in [1..MaxDraws -> [Addresses -> Nat]]

Draws == 1..MaxDraws
Winners(d) == {a \in Addresses : Won[d][a] > 0}

VARIABLES
    made,      \* draws made on the chain
    drawn,     \* those whose prizes are known
    aged,      \* those made more than two weeks ago
    held,      \* deposits: who made one, and after how many draws
    drawRow,   \* row of each draw: none, or with the state it was saved in
    prizeRow,  \* rows of millions_prizes
    best,      \* row of millions_biggest_winner; draw 0 for none
    pc, at,    \* next step of each pass and the draw it is at
    list,      \* the draws as the pass listed them
    todo,      \* winners whose prize or ratio the pass has still to store
    win,       \* the winner it is at, with the sum of his deposits
    found,     \* the winner's row as it found it
    shared     \* history: passes that ran together with another one

chain == <<made, drawn, aged, held>>
tables == <<drawRow, prizeRow, best>>
locals == <<at, list, todo, win, found>>
vars == <<chain, tables, pc, locals, shared>>

Wins == [draw : 0..MaxDraws, sum : 0..MaxDraws]
NoWin == [draw |-> 0, sum |-> 0]

TypeOK ==
    /\ made \in 0..MaxDraws /\ drawn \subseteq Draws /\ aged \in 0..MaxDraws
    /\ held \subseteq Addresses \X (0..MaxDraws)
    /\ drawRow \in [Draws -> {"none", "open", "drawn"}]
    /\ prizeRow \subseteq Draws \X Addresses
    /\ best \in [Addresses -> Wins]
    /\ pc \in [Passes -> {"idle", "age", "get", "save", "prizes", "winner", "find", "patch"}]
    /\ at \in [Passes -> Draws]
    /\ list \in [Passes -> [made : 0..MaxDraws, drawn : SUBSET Draws]]
    /\ todo \in [Passes -> SUBSET Addresses]
    /\ win \in [Passes -> [who : Addresses \cup {"nobody"}, sum : 0..MaxDraws]]
    /\ found \in [Passes -> Wins]
    /\ shared \subseteq Passes

NoList == [made |-> 0, drawn |-> {}]
NoOne == [who |-> "nobody", sum |-> 0]

Init ==
    /\ made = 0 /\ drawn = {} /\ aged = 0 /\ held = {}
    /\ drawRow = [d \in Draws |-> "none"]
    /\ prizeRow = {}
    /\ best = [a \in Addresses |-> NoWin]
    /\ pc = [p \in Passes |-> "idle"]
    /\ at = [p \in Passes |-> 1]
    /\ list = [p \in Passes |-> NoList]
    /\ todo = [p \in Passes |-> {}]
    /\ win = [p \in Passes |-> NoOne]
    /\ found = [p \in Passes |-> NoWin]
    /\ shared = {}

-----------------------------------------------------------------------------
(* The chain.                                                               *)

NewDraw ==
    /\ made < MaxDraws
    /\ made' = made + 1
    /\ UNCHANGED <<drawn, aged, held, tables, pc, locals, shared>>

\* A draw succeeds; its winners are known.
Draw(d) ==
    /\ d <= made /\ d \notin drawn
    /\ drawn' = drawn \cup {d}
    /\ UNCHANGED <<made, aged, held, tables, pc, locals, shared>>

\* Two weeks have passed since a draw was made; it succeeded meanwhile.
Age ==
    /\ aged < made /\ aged + 1 \in drawn
    /\ aged' = aged + 1
    /\ UNCHANGED <<made, drawn, held, tables, pc, locals, shared>>

Deposit(a) ==
    /\ made < MaxDraws
    /\ held' = held \cup {<<a, made>>}
    /\ UNCHANGED <<made, drawn, aged, tables, pc, locals, shared>>

Withdraw(x) ==
    /\ held' = held \ {x}
    /\ UNCHANGED <<made, drawn, aged, tables, pc, locals, shared>>

Chain ==
    \/ NewDraw
    \/ \E d \in Draws : Draw(d)
    \/ Age
    \/ \E a \in Addresses : Deposit(a)
    \/ \E x \in held : Withdraw(x)

-----------------------------------------------------------------------------
(* A pass.                                                                  *)

Running == {p \in Passes : pc[p] # "idle"}

Goto(p, to) == pc' = [pc EXCEPT ![p] = to]

\* The pass is over; its variables are gone.
End(p) ==
    /\ Goto(p, "idle")
    /\ at' = [at EXCEPT ![p] = 1]
    /\ list' = [list EXCEPT ![p] = NoList]
    /\ todo' = [todo EXCEPT ![p] = {}]
    /\ win' = [win EXCEPT ![p] = NoOne]
    /\ found' = [found EXCEPT ![p] = NoWin]
    /\ shared' = shared \ {p}

\* The list of the draws is read; it is not read again for the later ones.
Begin(p) ==
    /\ pc[p] = "idle"
    /\ made > 0
    /\ Goto(p, "age")
    /\ list' = [list EXCEPT ![p] = [made |-> made, drawn |-> drawn]]
    /\ shared' = IF Running = {} THEN shared ELSE shared \cup Running \cup {p}
    /\ UNCHANGED <<chain, tables, at, todo, win, found>>

\* Mutant of NextDraw: one draw more than the list has.
NextDrawOneMore(p) ==
    IF at[p] <= list[p].made
    THEN /\ at' = [at EXCEPT ![p] = @ + 1]
         /\ Goto(p, "age")
         /\ win' = [win EXCEPT ![p] = NoOne]
         /\ found' = [found EXCEPT ![p] = NoWin]
         /\ UNCHANGED <<list, todo, shared>>
    ELSE End(p)

\* On to the next draw of the list.
NextDraw(p) ==
    IF at[p] < list[p].made
    THEN /\ at' = [at EXCEPT ![p] = @ + 1]
         /\ Goto(p, "age")
         /\ win' = [win EXCEPT ![p] = NoOne]
         /\ found' = [found EXCEPT ![p] = NoWin]
         /\ UNCHANGED <<list, todo, shared>>
    ELSE End(p)

\* existMoreThan compares the time the draw was made on the chain.
Skipped(d) == drawRow[d] # "none" /\ d <= aged

CheckAge(p) ==
    /\ pc[p] = "age"
    /\ IF Skipped(at[p]) THEN NextDraw(p)
       ELSE Goto(p, "get") /\ UNCHANGED <<locals, shared>>
    /\ UNCHANGED <<chain, tables>>

\* Prizes, if the list has any for this draw, else the next draw.
Prizes(p) ==
    IF at[p] \in list[p].drawn /\ Winners(at[p]) # {}
    THEN /\ Goto(p, "prizes")
         /\ todo' = [todo EXCEPT ![p] = Winners(at[p])]
         /\ UNCHANGED <<at, list, win, found, shared>>
    ELSE NextDraw(p)

\* Mutant of Get: a draw without a row is not saved.
GetOnly(p) ==
    /\ pc[p] = "get"
    /\ Prizes(p)
    /\ UNCHANGED <<chain, tables>>

\* Mutant of Get: what is known is not processed again.
GetSkipsKnown(p) ==
    /\ pc[p] = "get"
    /\ IF drawRow[at[p]] = "none" THEN Goto(p, "save") /\ UNCHANGED <<locals, shared>>
       ELSE NextDraw(p)
    /\ UNCHANGED <<chain, tables>>

\* The draw's row is saved if there is none; prizes are processed in any case.
Get(p) ==
    /\ pc[p] = "get"
    /\ IF drawRow[at[p]] = "none" THEN Goto(p, "save") /\ UNCHANGED <<locals, shared>>
       ELSE Prizes(p)
    /\ UNCHANGED <<chain, tables>>

Save(p) ==
    /\ pc[p] = "save"
    /\ drawRow' = [drawRow EXCEPT ![at[p]] = IF at[p] \in list[p].drawn THEN "drawn" ELSE "open"]
    /\ Prizes(p)
    /\ UNCHANGED <<chain, prizeRow, best>>

\* createOrUpdate: the prize's row is what the list says, whether it existed or
\* not.  After the last one come the winners.
SavePrize(p, a) ==
    /\ pc[p] = "prizes" /\ a \in todo[p]
    /\ prizeRow' = prizeRow \cup {<<at[p], a>>}
    /\ IF todo[p] = {a}
       THEN Goto(p, "winner") /\ todo' = [todo EXCEPT ![p] = Winners(at[p])]
       ELSE UNCHANGED pc /\ todo' = [todo EXCEPT ![p] = @ \ {a}]
    /\ UNCHANGED <<chain, drawRow, best, at, list, win, found, shared>>

\* The deposits that the winner holds now and made before the draw.
SumOfDeposits(a, d) == Cardinality({k \in 0..(d - 1) : <<a, k>> \in held})

ReadDeposits(p, a) ==
    /\ pc[p] = "winner" /\ a \in todo[p]
    /\ win' = [win EXCEPT ![p] = [who |-> a, sum |-> SumOfDeposits(a, at[p])]]
    /\ todo' = [todo EXCEPT ![p] = @ \ {a}]
    /\ Goto(p, "find")
    /\ UNCHANGED <<chain, tables, at, list, found, shared>>

\* createOrUpdateAccordingToApr reads the winner's row ...
Find(p) ==
    /\ pc[p] = "find"
    /\ found' = [found EXCEPT ![p] = best[win[p].who]]
    /\ Goto(p, "patch")
    /\ UNCHANGED <<chain, tables, at, list, todo, win, shared>>

\* The ratio of x is greater than that of y.  Without deposits it is infinite,
\* which no other exceeds.
Beats(a, x, y) == Won[x.draw][a] * y.sum > Won[y.draw][a] * x.sum

\* Mutant of Patched: the last ratio that was computed.
PatchedAlways(a, new, old) == new

Patched(a, new, old) == IF old = NoWin \/ Beats(a, new, old) THEN new ELSE old

\* ... keeps the better of the two ratios, and saves the row it read if that
\* was patched.
Patch(p) ==
    /\ pc[p] = "patch"
    /\ LET a == win[p].who
           new == [draw |-> at[p], sum |-> win[p].sum]
           row == Patched(a, new, found[p])
       IN  best' = IF row = found[p] THEN best ELSE [best EXCEPT ![a] = row]
    /\ IF todo[p] # {}
       THEN /\ Goto(p, "winner")
            /\ win' = [win EXCEPT ![p] = NoOne]
            /\ found' = [found EXCEPT ![p] = NoWin]
            /\ UNCHANGED <<at, list, todo, shared>>
       ELSE NextDraw(p)
    /\ UNCHANGED <<chain, drawRow, prizeRow>>

\* The node or the database rejects a call, or the process dies.
Fail(p) ==
    /\ pc[p] # "idle"
    /\ End(p)
    /\ UNCHANGED <<chain, tables>>

Pass(p) ==
    \/ Begin(p) \/ CheckAge(p) \/ Get(p) \/ Save(p)
    \/ \E a \in Addresses : SavePrize(p, a) \/ ReadDeposits(p, a)
    \/ Find(p) \/ Patch(p)

Next == Chain \/ \E p \in Passes : Pass(p) \/ Fail(p)

Spec == Init /\ [][Next]_vars

\* The cron fires, and a call that is made again and again succeeds.
FairPass(p) ==
    /\ WF_vars(Begin(p))
    /\ \A d \in Draws :
          /\ SF_vars(at[p] = d /\ CheckAge(p))
          /\ SF_vars(at[p] = d /\ Get(p))
          /\ SF_vars(at[p] = d /\ Save(p))
          /\ \A a \in Addresses : /\ SF_vars(at[p] = d /\ SavePrize(p, a))
                                  /\ SF_vars(at[p] = d /\ ReadDeposits(p, a))
          /\ SF_vars(at[p] = d /\ Find(p))
          /\ SF_vars(at[p] = d /\ Patch(p))

FairSpec == Spec /\ \A p \in Passes : FairPass(p)

-----------------------------------------------------------------------------
(* Properties.                                                              *)

\* No prize without its draw and no biggest winner without his prize, whatever
\* passes overlap and wherever they fail; nothing but the order of the saves
\* guarantees it.
RowsHaveTheirSource ==
    /\ \A d \in Draws, a \in Addresses :
          <<d, a>> \in prizeRow => a \in Winners(d) /\ drawRow[d] # "none"
    /\ \A a \in Addresses : best[a] # NoWin => <<best[a].draw, a>> \in prizeRow

\* A pass that went by a draw of the last two weeks has stored its prizes and
\* its winners.
PassedIsStored ==
    \A p \in Passes : \A d \in list[p].drawn :
        aged < d /\ d < at[p] =>
            \A a \in Winners(d) : <<d, a>> \in prizeRow /\ best[a] # NoWin

\* A winner's ratio only gets better (millions-biggest-winner.service.ts:38, "If
\* the entity exists and the APR is lower, do nothing"), unless passes overlap:
\* both may read the row before either saves it.
RatioOnlyGrows ==
    [][\A a \in Addresses :
          shared = {} /\ best[a] # NoWin /\ best'[a] # best[a]
          => Beats(a, best'[a], best[a])]_vars

\* "If draw already exists more than 2 weeks in db, we skip it" (line 156): an
\* old draw that is not in the table yet gets its prizes stored.  FairSpec does
\* not satisfy it: the two weeks are counted from the draw on the chain, so when
\* its first pass saves the row and fails before the prizes the next ones skip it.
OldDrawsAreStored ==
    \A d \in Draws : \A a \in Winners(d) :
        d \in drawn /\ d <= aged /\ drawRow[d] = "none" /\ Running = {}
        ~> <<d, a>> \in prizeRow
=============================================================================
