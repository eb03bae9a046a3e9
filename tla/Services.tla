------------------------------- MODULE Services -------------------------------
(***************************************************************************)
(* The parts of chain-bridge that copy one kind of data each, and those    *)
(* that serve it.  They share neither rows nor steps, so what each one     *)
(* promises does not depend on how their steps interleave.  Which of them  *)
(* move in a behaviour, and in what order, is left open.                   *)
(***************************************************************************)
EXTENDS MillionsDeposits, Sequences

CONSTANTS Together,     \* sets of parts that may move in one behaviour
          Passes,       \* passes of one cron, or requests, that may run at once
          MaxFailures,  \* bound on the passes of one cron that fail
          PageSize,     \* rows on a page of the chain
          MaxChanges,   \* bound on the changes of the chain's data
          Absence,      \* of an answer, a row or a state
          Processes, Scheduler, MaxTip, Window, MaxStops,
          MaxProposals, MaxVoters, MaxCast, OpenFor,
          MaxValidator, MaxMoves, MaxDelegated, MaxDelegator, MaxShares,
          MaxSymbol, Stamp,
          MaxDeposit, DepositStates, WithdrawalStates,
          Campaigns, Wallets, MaxMembers,
          MaxPool, MaxVersion,
          Time, Limit, MaxQueries,
          Addresses, Owner, Amount, Ranking

\* The parts that move, and the variables of each part, under the names that its module
\* gives them.
VARIABLES
    cron,
    boot_tip, boot_pc, boot_client, boot_chainId, boot_paused, boot_queued,
    boot_unnamed, boot_stops,
    bal_status, bal_cast, bal_row, bal_pc, bal_todo, bal_read, bal_found,
    bal_failures,
    val_status, val_row, val_stage, val_key, val_seen, val_moved, val_moves,
    val_failures,
    del_shares, del_row, del_at, del_key, del_page, del_pc, del_touched,
    del_shared, del_bounds,
    mkt_now, mkt_fired, mkt_life, mkt_info, mkt_next, mkt_data, mkt_rows,
    met_chain, met_gauge, met_page, met_counted, met_kept, met_disturbed,
    met_bounds,
    cam_there, cam_members, cam_pc, cam_for, cam_raced,
    poo_version, poo_row, poo_pc, poo_at, poo_list, poo_prize, poo_shared,
    poo_failures,
    pag_stored, pag_cache, pag_filling, pag_queries, pag_page, pag_got,
    pag_began, pag_last, pag_stale,
    nei_deposit, nei_table, nei_pc, nei_page, nei_read, nei_known,
    nei_shared, nei_step, nei_own, nei_before, nei_after, nei_steady

boot == <<boot_tip, boot_pc, boot_client, boot_chainId, boot_paused,
          boot_queued, boot_unnamed, boot_stops>>
bal == <<bal_status, bal_cast, bal_row, bal_pc, bal_todo, bal_read,
         bal_found, bal_failures>>
val == <<val_status, val_row, val_stage, val_key, val_seen, val_moved,
         val_moves, val_failures>>
del == <<del_shares, del_row, del_at, del_key, del_page, del_pc, del_touched,
         del_shared, del_bounds>>
mkt == <<mkt_now, mkt_fired, mkt_life, mkt_info, mkt_next, mkt_data, mkt_rows>>
met == <<met_chain, met_gauge, met_page, met_counted, met_kept,
         met_disturbed, met_bounds>>
cam == <<cam_there, cam_members, cam_pc, cam_for, cam_raced>>
poo == <<poo_version, poo_row, poo_pc, poo_at, poo_list, poo_prize,
         poo_shared, poo_failures>>
pag == <<pag_stored, pag_cache, pag_filling, pag_queries, pag_page, pag_got,
         pag_began, pag_last, pag_stale>>
nei == <<nei_deposit, nei_table, nei_pc, nei_page, nei_read, nei_known,
         nei_shared, nei_step, nei_own, nei_before, nei_after, nei_steady>>

all == <<cron, vars, boot, bal, val, del, mkt, met, cam, poo, pag, nei>>

Boot == INSTANCE Bootstrap WITH
          MaxHeight <- MaxTip, tip <- boot_tip, pc <- boot_pc,
          client <- boot_client, chainId <- boot_chainId,
          paused <- boot_paused, queued <- boot_queued,
          unnamed <- boot_unnamed, stops <- boot_stops
Bal == INSTANCE Ballots WITH
          status <- bal_status, cast <- bal_cast, row <- bal_row,
          pc <- bal_pc, todo <- bal_todo, read <- bal_read,
          found <- bal_found, failures <- bal_failures
Val == INSTANCE Validators WITH
          status <- val_status, row <- val_row, stage <- val_stage,
          key <- val_key, seen <- val_seen, moved <- val_moved,
          moves <- val_moves, failures <- val_failures
Del == INSTANCE Delegations WITH
          MaxValidator <- MaxDelegated, shares <- del_shares, row <- del_row,
          at <- del_at, key <- del_key, page <- del_page, pc <- del_pc,
          touched <- del_touched, shared <- del_shared, bounds <- del_bounds
Mkt == INSTANCE Market WITH
          NoAnswer <- Absence, now <- mkt_now, fired <- mkt_fired,
          life <- mkt_life, info <- mkt_info, next <- mkt_next,
          data <- mkt_data, rows <- mkt_rows
Met == INSTANCE Metrics WITH
          None <- Absence, chain <- met_chain, gauge <- met_gauge,
          page <- met_page, counted <- met_counted, kept <- met_kept,
          disturbed <- met_disturbed, bounds <- met_bounds
Cam == INSTANCE Campaigns WITH
          Requests <- Passes, there <- cam_there, members <- cam_members,
          pc <- cam_pc, for <- cam_for, raced <- cam_raced
Poo == INSTANCE Pools WITH
          version <- poo_version, row <- poo_row, pc <- poo_pc, at <- poo_at,
          list <- poo_list, prize <- poo_prize, shared <- poo_shared,
          failures <- poo_failures
Pag == INSTANCE ApiPages WITH
          NoPage <- Absence, stored <- pag_stored, cache <- pag_cache,
          filling <- pag_filling, queries <- pag_queries, page <- pag_page,
          got <- pag_got, began <- pag_began, last <- pag_last,
          stale <- pag_stale
Nei == INSTANCE Neighbours WITH
          Passes <- Ranking, Failing <- Ranking, Nobody <- Absence,
          deposit <- nei_deposit, table <- nei_table, pc <- nei_pc,
          page <- nei_page, read <- nei_read, known <- nei_known,
          shared <- nei_shared, step <- nei_step, own <- nei_own,
          before <- nei_before, after <- nei_after, steady <- nei_steady

Parts == {"deposits", "bootstrap", "ballots", "validators", "delegations", "market",
          "metrics", "campaigns", "pools", "pages", "neighbours"}

ASSUME ServicesAssumption ==
    /\ Together \subseteq SUBSET Parts
    /\ Boot!BootstrapAssumption
    /\ Bal!BallotsAssumption
    /\ Val!ValidatorsAssumption
    /\ Del!DelegationsAssumption
    /\ Mkt!MarketAssumption
    /\ Met!MetricsAssumption
    /\ Cam!CampaignsAssumption
    /\ Poo!PoolsAssumption
    /\ Pag!ApiPagesAssumption
    /\ Nei!NeighboursAssumption

\* The rows that are there before the client comes vary only where they are read.
ServicesInit ==
    /\ cron \in Together
    /\ Init /\ Boot!Init /\ Bal!Init /\ Val!Init /\ Del!Init /\ Mkt!Init
    /\ Met!Init /\ Cam!Init /\ Poo!Init /\ Pag!Init /\ Nei!Init /\ Nei!RequestInit
    /\ "pages" \notin cron => pag_stored = {}

ServicesNext ==
    /\ UNCHANGED cron
    /\ \/ "deposits" \in cron /\ Next
          /\ UNCHANGED <<boot, bal, val, del, mkt, met, cam, poo, pag, nei>>
       \/ "bootstrap" \in cron /\ Boot!Next
          /\ UNCHANGED <<vars, bal, val, del, mkt, met, cam, poo, pag, nei>>
       \/ "ballots" \in cron /\ Bal!Next
          /\ UNCHANGED <<vars, boot, val, del, mkt, met, cam, poo, pag, nei>>
       \/ "validators" \in cron /\ Val!Next
          /\ UNCHANGED <<vars, boot, bal, del, mkt, met, cam, poo, pag, nei>>
       \/ "delegations" \in cron /\ Del!Next
          /\ UNCHANGED <<vars, boot, bal, val, mkt, met, cam, poo, pag, nei>>
       \/ "market" \in cron /\ Mkt!Next
          /\ UNCHANGED <<vars, boot, bal, val, del, met, cam, poo, pag, nei>>
       \/ "metrics" \in cron /\ Met!Next
          /\ UNCHANGED <<vars, boot, bal, val, del, mkt, cam, poo, pag, nei>>
       \/ "campaigns" \in cron /\ Cam!Next
          /\ UNCHANGED <<vars, boot, bal, val, del, mkt, met, poo, pag, nei>>
       \/ "pools" \in cron /\ Poo!Next
          /\ UNCHANGED <<vars, boot, bal, val, del, mkt, met, cam, pag, nei>>
       \/ "pages" \in cron /\ Pag!Next
          /\ UNCHANGED <<vars, boot, bal, val, del, mkt, met, cam, poo, nei>>
       \/ "neighbours" \in cron /\ Nei!RequestNext
          /\ UNCHANGED <<vars, boot, bal, val, del, mkt, met, cam, poo, pag>>

ServicesSpec == ServicesInit /\ [][ServicesNext]_all

-----------------------------------------------------------------------------
(* Properties.                                                              *)

\* What moves is well typed; the rest is as it begins.
ServicesTypeOK ==
    /\ TypeOK
    /\ "bootstrap" \in cron => Boot!TypeOK
    /\ "ballots" \in cron => Bal!TypeOK
    /\ "validators" \in cron => Val!TypeOK
    /\ "delegations" \in cron => Del!TypeOK
    /\ "market" \in cron => Mkt!TypeOK
    /\ "metrics" \in cron => Met!TypeOK
    /\ "campaigns" \in cron => Cam!TypeOK
    /\ "pools" \in cron => Poo!TypeOK
    /\ "pages" \in cron => Pag!TypeOK
    /\ "neighbours" \in cron => Nei!TypeOK /\ Nei!RequestTypeOK

\* A height has one job id, as long as no scheduler runs without the chain's id.
OneIdPerHeight == Boot!OneIdPerHeight

\* Nobody gets another's vote or deposit.
RowsAreCast == Bal!RowsAreCast

\* The latest row of a symbol is that of the latest hour of its month.
LatestWithinMonth == Mkt!LatestWithinMonth

\* The prices of a row were given in one hour.
OneHourARow == Mkt!OneHourARow

\* A pass counts all the deposits that were there when it began and stayed.
KeptAreCounted == Met!KeptAreCounted

\* A wallet is twice in a campaign only if two of its requests overlapped.
TwiceNeedsOverlap == Cam!TwiceNeedsOverlap

\* A client who walks through all pages misses only rows that share their time with
\* another one, unless a page was stale.
PagesMissNothing == Pag!PagesMissNothing

\* The neighbours in an answer are neighbours, although the ranking is replaced.
SteadyNeighbours == Nei!SteadyNeighbours

\* A pass of basicSync that saves leaves the status of who did not move.
UnmovedIsCurrent == [][Val!SavesUnmoved]_val

\* A pass of delegationSync on its own leaves the shares that did not change.
LonePassIsCurrent == [][Del!EndsCurrent]_del

\* A pass that nothing disturbed leaves the right counts.
UndisturbedGauges == [][Met!SetsCounts]_met

\* A pool's row goes back only by a pass that ran together with another one.
BackOnlyInOverlap == [][Poo!GoesBackInOverlap]_poo
===============================================================================
