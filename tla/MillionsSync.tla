----------------------------- MODULE MillionsSync -----------------------------
(***************************************************************************)
(* The crons of MillionsScheduler that MillionsDraws and                   *)
(* MillionsDepositors model.  They share neither variables nor rows, so    *)
(* what each one promises does not depend on how their steps interleave.   *)
(* Which of them fire in a behaviour, and in what order, is left open.     *)
(***************************************************************************)
EXTENDS MillionsDraws

CONSTANTS Firing,     \* sets of crons that may fire in one behaviour
          Depositing, MaxDeposit, Owner, Amount

VARIABLES cron, deposit, table, depositorsPc, page, read, known, depositorsShared

Depositors == INSTANCE MillionsDepositors
              WITH Addresses <- Depositing, Failing <- Passes, pc <- depositorsPc,
                   shared <- depositorsShared

Crons == {"draws", "depositors"}

ASSUME MillionsSyncAssumption ==
    Firing \subseteq SUBSET Crons /\ Depositors!MillionsDepositorsAssumption

depositorsVars == <<deposit, table, depositorsPc, page, read, known, depositorsShared>>
all == <<cron, vars, depositorsVars>>

SyncInit == cron \in Firing /\ Init /\ Depositors!Init

SyncNext ==
    /\ UNCHANGED cron
    /\ \/ "draws" \in cron /\ Next /\ UNCHANGED depositorsVars
       \/ "depositors" \in cron /\ Depositors!Next /\ UNCHANGED vars

SyncSpec == SyncInit /\ [][SyncNext]_all

-----------------------------------------------------------------------------
(* Properties.                                                              *)

\* The rows and passes of both crons are well typed.
SyncTypeOK == TypeOK /\ Depositors!TypeOK

\* "Delete all old deposits for the pool and save new" (millions.scheduler.ts:335), for
\* a pass of depositorsSync that ran alone.
LonePassReplacesAll == Depositors!LonePassReplacesAll
===============================================================================
