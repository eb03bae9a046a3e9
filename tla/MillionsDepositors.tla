------------------------- MODULE MillionsDepositors -------------------------
(***************************************************************************)
(* The ranking of a pool's depositors.  MillionsScheduler.depositorsSync   *)
(* reads the pool's deposits page by page, sums them by depositor, deletes *)
(* the pool's rows and saves the new ones.  The cron fires again whether   *)
(* or not the last pass has ended, so passes may overlap.                  *)
(*                                                                         *)
(* Pools share nothing but the order in which a pass visits them; the      *)
(* module follows one of them.  A page has one deposit, so that the chain  *)
(* may change between any two of them.                                     *)
(***************************************************************************)
EXTENDS Integers, FiniteSets, FiniteSetsExt

CONSTANTS MaxDeposit,  \* bound on the chain's deposits; they are made in order
          Addresses,
          Owner,       \* who made each deposit
          Amount,      \* and how much it holds
          Passes,      \* passes that may run at once
          Failing      \* those of them that may fail

MillionsDepositorsAssumption ==
    /\ MaxDeposit \in Nat \ {0}
    /\ Owner \in [1..MaxDeposit -> Addresses]
    /\ Amount \in [1..MaxDeposit -> Nat \ {0}]
    /\ IsFiniteSet(Addresses) /\ Failing \subseteq Passes

Deposits == 1..MaxDeposit
States == {"future", "own", "sponsor", "gone"}

VARIABLES
    deposit,  \* the chain's deposits: not made yet, held, sponsored, withdrawn
    table,    \* rows of millions_depositors by address; rank 0 for none
    pc, page, \* next step of each pass and the deposit of its next page
    read,     \* the deposits as a pass read them
    known,    \* the rows that saveBulk found before it began to write
    shared    \* history: passes that ran together with another one

vars == <<deposit, table, pc, page, read, known, shared>>

NoRow == [amount |-> 0, rank |-> 0]

TypeOK ==
    /\ deposit \in [Deposits -> States]
    /\ DOMAIN table = Addresses
    /\ \A a \in Addresses : table[a].amount \in Nat /\ table[a].rank \in Nat
    /\ pc \in [Passes -> {"idle", "pages", "delete", "select", "write", "done"}]
    /\ page \in [Passes -> Deposits]
    /\ read \in [Passes -> [Deposits -> States]]
    /\ known \in [Passes -> SUBSET Addresses]
    /\ shared \subseteq Passes

Init ==
    /\ deposit = [d \in Deposits |-> "future"]
    /\ table = [a \in Addresses |-> NoRow]
    /\ pc = [p \in Passes |-> "idle"]
    /\ page = [p \in Passes |-> 1]
    /\ read = [p \in Passes |-> [d \in Deposits |-> "future"]]
    /\ known = [p \in Passes |-> {}]
    /\ shared = {}

-----------------------------------------------------------------------------
(* The chain.                                                               *)

\* A deposit is made, turned into a sponsorship or back, or withdrawn.
Change(d, s) ==
    /\ deposit[d] # "gone" /\ s \notin {deposit[d], "future"}
    /\ deposit[d] = "future" => s # "gone" /\ \A e \in 1..(d - 1) : deposit[e] # "future"
    /\ deposit' = [deposit EXCEPT ![d] = s]
    /\ UNCHANGED <<table, pc, page, read, known, shared>>

-----------------------------------------------------------------------------
(* groupAndSumDeposits and the sort.                                        *)

\* The deposits of an answer that count; sponsorships do not.
Counted(r, a) == {d \in Deposits : r[d] = "own" /\ Owner[d] = a}

Depositors(r) == {a \in Addresses : Counted(r, a) # {}}

RawAmount(r, a) == MapThenSumSet(LAMBDA d : Amount[d], Counted(r, a))

\* The sort is stable: of equal sums, the one whose deposit was read first.
Precedes(r, a, b) ==
    \/ RawAmount(r, a) > RawAmount(r, b)
    \/ /\ RawAmount(r, a) = RawAmount(r, b)
       /\ Min(Counted(r, a)) < Min(Counted(r, b))

RowOf(r, a) ==
    [amount |-> RawAmount(r, a),
     rank |-> Cardinality({b \in Depositors(r) : Precedes(r, b, a)}) + 1]

-----------------------------------------------------------------------------
(* A pass.                                                                  *)

Running == {p \in Passes : pc[p] # "idle"}

Goto(p, to) == pc' = [pc EXCEPT ![p] = to]

\* The pass is over; its variables are gone.
End(p) ==
    /\ Goto(p, "idle")
    /\ page' = [page EXCEPT ![p] = 1]
    /\ read' = [read EXCEPT ![p] = [d \in Deposits |-> "future"]]
    /\ known' = [known EXCEPT ![p] = {}]
    /\ shared' = shared \ {p}
    /\ UNCHANGED <<deposit, table>>

Begin(p) ==
    /\ pc[p] = "idle"
    /\ Goto(p, "pages")
    /\ shared' = IF Running = {} THEN shared ELSE shared \cup Running \cup {p}
    /\ UNCHANGED <<deposit, table, page, read, known>>

ReadPage(p) ==
    /\ pc[p] = "pages"
    /\ read' = [read EXCEPT ![p][page[p]] = deposit[page[p]]]
    /\ IF page[p] < MaxDeposit
       THEN page' = [page EXCEPT ![p] = @ + 1] /\ UNCHANGED pc
       ELSE page' = [page EXCEPT ![p] = 1] /\ Goto(p, "delete")
    /\ UNCHANGED <<deposit, table, known, shared>>

\* Mutant of Delete: the rows of the depositors that were read, not the pool's.
DeleteReplaced(p) ==
    /\ pc[p] = "delete"
    /\ table' = [a \in Addresses |-> IF a \in Depositors(read[p]) THEN NoRow ELSE table[a]]
    /\ Goto(p, "select")
    /\ UNCHANGED <<deposit, page, read, known, shared>>

Delete(p) ==
    /\ pc[p] = "delete"
    /\ table' = [a \in Addresses |-> NoRow]
    /\ Goto(p, "select")
    /\ UNCHANGED <<deposit, page, read, known, shared>>

\* save(entities) first looks which of them exist ...
Select(p) ==
    /\ pc[p] = "select"
    /\ known' = [known EXCEPT ![p] = {a \in Depositors(read[p]) : table[a] # NoRow}]
    /\ Goto(p, "write")
    /\ UNCHANGED <<deposit, table, page, read, shared>>

Inserted(p) == Depositors(read[p]) \ known[p]

\* Mutant of Written: an update, which makes no row.
WrittenUpdates(p) ==
    [a \in Addresses |-> IF a \in known[p] /\ table[a] # NoRow THEN RowOf(read[p], a) ELSE table[a]]

\* An insert makes a row, an update changes it if it is still there.
Written(p) ==
    [a \in Addresses |->
        IF a \in Inserted(p) \/ (a \in known[p] /\ table[a] # NoRow)
        THEN RowOf(read[p], a) ELSE table[a]]

\* Mutant of Write: depositors of the same sum are ranked in any order.
WriteUnstable(p) ==
    /\ pc[p] = "write"
    /\ \A a \in Inserted(p) : table[a] = NoRow
    /\ \E first \in Addresses :
         LET ahead(a) == {b \in Depositors(read[p]) \ {a} :
                            \/ RawAmount(read[p], b) > RawAmount(read[p], a)
                            \/ RawAmount(read[p], b) = RawAmount(read[p], a) /\ b = first}
         IN table' = [a \in Addresses |->
                        IF Written(p)[a] = NoRow THEN NoRow
                        ELSE [Written(p)[a] EXCEPT !.rank = Cardinality(ahead(a)) + 1]]
    /\ Goto(p, "done")
    /\ known' = [known EXCEPT ![p] = {}]
    /\ UNCHANGED <<deposit, page, read, shared>>

\* ... then inserts and updates them in one transaction.
Write(p) ==
    /\ pc[p] = "write"
    /\ \A a \in Inserted(p) : table[a] = NoRow
    /\ table' = Written(p)
    /\ Goto(p, "done")
    /\ known' = [known EXCEPT ![p] = {}]
    /\ UNCHANGED <<deposit, page, read, shared>>

\* A row that was inserted since violates the primary key: nothing is written.
WriteConflicts(p) ==
    /\ pc[p] = "write"
    /\ \E a \in Inserted(p) : table[a] # NoRow
    /\ End(p)

Finish(p) ==
    /\ pc[p] = "done"
    /\ End(p)

\* The node or the database rejects a call, or the process dies.
Fail(p) ==
    /\ pc[p] \in {"pages", "delete", "select", "write"}
    /\ End(p)

Pass(p) ==
    Begin(p) \/ ReadPage(p) \/ Delete(p) \/ Select(p) \/ Write(p) \/ WriteConflicts(p)
             \/ Finish(p)

Next ==
    \/ \E d \in Deposits, s \in States : Change(d, s)
    \/ \E p \in Passes : Pass(p)
    \/ \E p \in Failing : Fail(p)

Spec == Init /\ [][Next]_vars

-----------------------------------------------------------------------------
(* Properties.                                                              *)

Ranked == {a \in Addresses : table[a] # NoRow}

\* "Delete all old deposits for the pool and save new" (line 335), for a pass
\* that ran alone, whatever passes that overlapped or failed left in the table:
\* it has the depositors that were read, with what they own; their ranks are
\* 1, 2, ... and who owns more ranks before.
LonePassReplacesAll ==
    \A p \in Passes : pc[p] = "done" /\ p \notin shared =>
        /\ Ranked = Depositors(read[p])
        /\ \A a \in Ranked : table[a].amount = RawAmount(read[p], a)
        /\ {table[a].rank : a \in Ranked} = 1..Cardinality(Ranked)
        /\ \A a, b \in Ranked : table[a].amount > table[b].amount
                                => table[a].rank < table[b].rank

\* A deposit that is kept shows in the ranking again and again, although a pass
\* may die after the delete and overlapping ones undo each other, as long as some
\* passes do not fail.
KeptDepositIsRanked ==
    \A d \in Deposits :
        <>[](deposit[d] = "own") => []<>(table[Owner[d]] # NoRow)
=============================================================================
