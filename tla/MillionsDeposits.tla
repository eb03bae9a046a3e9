-------------------------- MODULE MillionsDeposits --------------------------
(***************************************************************************)
(* The row that the indexer keeps of one Millions deposit.  The ingestion  *)
(* of a block queues a job for the deposit events it finds in the block's  *)
(* transactions; MillionsConsumer.ingestMillionsDeposit reads the deposit  *)
(* as the chain has it now, then the row, then writes the row back whole.  *)
(*                                                                         *)
(* The job's id is made of the deposit and the height, so the events of    *)
(* one deposit in one block share one job: the first one added.  Blocks    *)
(* are ingested in any order, so jobs are queued and run in any order.     *)
(* Deposits share nothing but the slots; the module follows one of them.   *)
(* A withdrawn deposit no longer exists on the chain.                      *)
(***************************************************************************)
EXTENDS Integers

CONSTANTS MaxHeight,    \* bound on the chain
          Slots,        \* slots of all the consumer processes
          NoOne,        \* owner of a job that is not locked
          MaxAttempts   \* attempts of a job (5)

ASSUME MillionsDepositsAssumption ==
    /\ MaxHeight \in Nat \ {0}
    /\ NoOne \notin Slots
    /\ MaxAttempts \in Nat \ {0}

Heights == 1..MaxHeight

Kinds == {"deposit", "edit", "withdraw"}

\* Values of winner_address: how many edits made it.
Winners == 0..MaxHeight

VARIABLES
    tip,     \* height of the chain's last block
    events,  \* events about the deposit, per block
    live,    \* the deposit on the chain
    job,     \* the job of each height: status, what its data says, attempts, lock
    row,     \* the row of millions_deposits; height 0 when there is none
    pc, cur, \* next step of each slot and the height of its job
    seen,    \* what each slot read and needs: the live winner, -1 for none, and the row
    overtaken, \* history: runs during which another slot saved the row, after they
               \* had read the deposit or the row
    lost       \* history: the row went back

history == <<overtaken, lost>>
vars == <<tip, events, live, job, row, pc, cur, seen, history>>
chain == <<tip, events, live>>

Rows == [height : 0..MaxHeight, winner : Winners, withdrawn : BOOLEAN]
NoRow == [height |-> 0, winner |-> 0, withdrawn |-> FALSE]

TypeOK ==
    /\ tip \in 0..MaxHeight
    /\ events \in [Heights -> SUBSET Kinds]
    /\ live \in [st : {"none", "alive", "withdrawn"}, winner : Winners]
    /\ job \in [Heights -> [st : {"absent", "wait", "active", "completed", "failed"},
                            kind : Kinds, made : 0..MaxAttempts, owner : Slots \cup {NoOne}]]
    /\ row \in Rows
    /\ pc \in [Slots -> {"idle", "live", "row", "write", "done"}]
    /\ cur \in [Slots -> Heights \cup {0}]
    /\ seen \in [Slots -> [winner : Winners \cup {-1}, row : Rows]]
    /\ overtaken \subseteq Slots
    /\ lost \in BOOLEAN

Init ==
    /\ tip = 0
    /\ events = [h \in Heights |-> {}]
    /\ live = [st |-> "none", winner |-> 0]
    /\ job = [h \in Heights |->
                [st |-> "absent", kind |-> "deposit", made |-> 0, owner |-> NoOne]]
    /\ row = NoRow
    /\ pc = [s \in Slots |-> "idle"]
    /\ cur = [s \in Slots |-> 0]
    /\ seen = [s \in Slots |-> [winner |-> -1, row |-> NoRow]]
    /\ overtaken = {}
    /\ lost = FALSE

-----------------------------------------------------------------------------
(* The chain, and the ingestion of its blocks.                              *)

\* One block; what happens to the deposit in it is a possible history of a
\* deposit: made, then edited, then withdrawn.
NewBlock(E) ==
    /\ tip < MaxHeight
    /\ tip' = tip + 1
    /\ live.st = "none" => E = {} \/ "deposit" \in E
    /\ live.st = "alive" => "deposit" \notin E
    /\ live.st = "withdrawn" => E = {}
    /\ events' = [events EXCEPT ![tip + 1] = E]
    /\ live' = [st |-> IF "withdraw" \in E THEN "withdrawn"
                       ELSE IF E = {} THEN live.st ELSE "alive",
                winner |-> live.winner + (IF "edit" \in E THEN 1 ELSE 0)]
    /\ UNCHANGED <<job, row, pc, cur, seen, history>>

\* getFormattedTx adds a job per event, under one id: the transactions of the
\* block are formatted concurrently, so any of its events may be the first.
Dispatch(h) ==
    /\ job[h].st = "absent"
    /\ \E k \in events[h] : job' = [job EXCEPT ![h].st = "wait", ![h].kind = k]
    /\ UNCHANGED <<chain, row, pc, cur, seen, history>>

-----------------------------------------------------------------------------
(* Bull, as in BlockIngest; stalls are not counted.                         *)

Take(s, h) ==
    /\ pc[s] = "idle"
    /\ job[h].st = "wait"
    /\ job' = [job EXCEPT ![h].st = "active", ![h].owner = s]
    /\ pc' = [pc EXCEPT ![s] = "live"]
    /\ cur' = [cur EXCEPT ![s] = h]
    /\ UNCHANGED <<chain, row, seen, history>>

Requeue(h) ==
    /\ job[h].st = "active"
    /\ job' = [job EXCEPT ![h].st = "wait", ![h].owner = NoOne]
    /\ UNCHANGED <<chain, row, pc, cur, seen, history>>

\* What a run read is of no use after its last step.
Forget(s) == seen' = [seen EXCEPT ![s] = [winner |-> -1, row |-> NoRow]]

Release(s) == /\ pc' = [pc EXCEPT ![s] = "idle"]
              /\ cur' = [cur EXCEPT ![s] = 0]
              /\ Forget(s)
              /\ overtaken' = overtaken \ {s}
              /\ UNCHANGED lost

Crash(s) ==
    /\ pc[s] # "idle"
    /\ Release(s)
    /\ UNCHANGED <<chain, job, row>>

Finish(s) ==
    /\ pc[s] = "done"
    /\ job' = IF job[cur[s]].owner = s
              THEN [job EXCEPT ![cur[s]].st = "completed", ![cur[s]].owner = NoOne]
              ELSE job
    /\ Release(s)
    /\ UNCHANGED <<chain, row>>

\* Mutant of Rejected: one attempt too many.
RejectedOnceMore(j) == [j EXCEPT !.st = IF j.made < MaxAttempts THEN "wait" ELSE "failed",
                                 !.made = j.made + 1, !.owner = NoOne]

Rejected(j) == [j EXCEPT !.st = IF j.made + 1 < MaxAttempts THEN "wait" ELSE "failed",
                         !.made = j.made + 1, !.owner = NoOne]

\* The run threw: the handler itself, or an awaited call of the database.
Throw(s) ==
    /\ job' = IF job[cur[s]].owner = s
              THEN [job EXCEPT ![cur[s]] = Rejected(@)] ELSE job
    /\ Release(s)
    /\ UNCHANGED <<chain, row>>

-----------------------------------------------------------------------------
(* MillionsConsumer.ingestMillionsDeposit.                                  *)

\* The chain's answer: none when it has no such deposit (any more).
ReadLive(s) ==
    /\ pc[s] = "live"
    /\ seen' = [seen EXCEPT ![s].winner = IF live.st = "alive" THEN live.winner ELSE -1]
    /\ pc' = [pc EXCEPT ![s] = "row"]
    /\ UNCHANGED <<chain, job, row, cur, history>>

\* The call failed; the error is swallowed and reads as "none".
ReadLiveFails(s) ==
    /\ pc[s] = "live"
    /\ pc' = [pc EXCEPT ![s] = "row"]
    /\ UNCHANGED <<chain, job, row, cur, seen, history>>

ReadRow(s) ==
    /\ pc[s] = "row"
    /\ seen' = [seen EXCEPT ![s].row = row]
    /\ pc' = [pc EXCEPT ![s] = "write"]
    /\ UNCHANGED <<chain, job, row, cur, history>>

Saw(s) == seen[s].row
IsWithdrawal(s) == job[cur[s]].kind = "withdraw"

\* The row was created by a job of a later block.
Outdated(s) == Saw(s).height > cur[s]

\* Mutants of NewRow: a withdrawal rewrites the winner from a deposit that no
\* longer exists; an edit is recorded as a withdrawal; an edit is not recorded.
NewRowRecreated(s) ==
    [height |-> cur[s], winner |-> IF seen[s].winner = -1 THEN 0 ELSE seen[s].winner,
     withdrawn |-> IsWithdrawal(s)]
NewRowWithdrawn(s) ==
    IF Saw(s).height # 0 THEN [Saw(s) EXCEPT !.withdrawn = TRUE]
    ELSE [height |-> cur[s], winner |-> seen[s].winner, withdrawn |-> FALSE]
NewRowNotPatched(s) ==
    IF IsWithdrawal(s) THEN [Saw(s) EXCEPT !.withdrawn = TRUE]
    ELSE IF Saw(s).height # 0 THEN Saw(s)
    ELSE [height |-> cur[s], winner |-> seen[s].winner, withdrawn |-> FALSE]

\* The entity that is saved.
NewRow(s) ==
    IF IsWithdrawal(s) THEN [Saw(s) EXCEPT !.withdrawn = TRUE]
    ELSE IF Saw(s).height # 0 THEN [Saw(s) EXCEPT !.winner = seen[s].winner]
    ELSE [height |-> cur[s], winner |-> seen[s].winner, withdrawn |-> FALSE]

Writable(s) == IF IsWithdrawal(s) THEN Saw(s).height # 0 ELSE seen[s].winner # -1

\* The row lost its withdrawal or went back to an earlier winner.
GoesBack ==
    /\ row.height # 0
    /\ \/ row'.height = 0
       \/ row.withdrawn /\ ~row'.withdrawn
       \/ row'.winner < row.winner

\* Runs that have read something on which they will base their save.
Reading(s) == pc[s] \in {"row", "write"}

\* save() makes the row equal to the entity read earlier and patched since.
Write(s) ==
    /\ pc[s] = "write"
    /\ IsWithdrawal(s) \/ ~Outdated(s)
    /\ Writable(s)
    /\ row' = NewRow(s)
    /\ pc' = [pc EXCEPT ![s] = "done"]
    /\ Forget(s)
    /\ overtaken' = (overtaken \cup {t \in Slots : Reading(t)}) \ {s}
    /\ lost' = (lost \/ GoesBack)
    /\ UNCHANGED <<chain, job, cur>>

Skip(s) ==
    /\ pc[s] = "write"
    /\ ~IsWithdrawal(s) /\ Outdated(s)
    /\ pc' = [pc EXCEPT ![s] = "done"]
    /\ Forget(s)
    /\ overtaken' = overtaken \ {s}
    /\ UNCHANGED <<chain, job, row, cur, lost>>

\* failed_to_update_deposit_null_deposit, ..._null_live_deposit, and
\* failed_to_create_deposit_null_live_deposit.
Refuse(s) ==
    /\ pc[s] = "write"
    /\ IsWithdrawal(s) \/ ~Outdated(s)
    /\ ~Writable(s)
    /\ Throw(s)

\* The database rejected a call.
Reject(s) ==
    /\ pc[s] \in {"row", "write"}
    /\ Throw(s)

-----------------------------------------------------------------------------
Slot(s) ==
    \/ \E h \in Heights : Take(s, h)
    \/ ReadLive(s) \/ ReadRow(s) \/ Write(s) \/ Skip(s) \/ Refuse(s)
    \/ Finish(s)

Fault(s) == ReadLiveFails(s) \/ Reject(s) \/ Crash(s)

Calm ==
    \/ \E E \in SUBSET Kinds : NewBlock(E)
    \/ \E h \in Heights : Dispatch(h)
    \/ \E s \in Slots : Slot(s)

Next == Calm \/ (\E h \in Heights : Requeue(h)) \/ (\E s \in Slots : Fault(s))

Spec == Init /\ [][Next]_vars

\* Nothing goes wrong: no call fails, no process dies, no lock is lost; every
\* block is ingested and the slots keep working.
CalmSpec == /\ Init /\ [][Calm]_vars
            /\ \A h \in Heights : WF_vars(Dispatch(h))
            /\ \A s \in Slots : WF_vars(Slot(s))

-----------------------------------------------------------------------------
(* Properties.                                                              *)

\* The row says nothing the chain did not: it stems from a block with an event
\* of the deposit, its winner was the winner at some time, and a withdrawal it
\* records took place.
RowFollowsChain ==
    row.height # 0 => /\ events[row.height] # {}
                      /\ row.winner <= live.winner
                      /\ row.withdrawn => live.st = "withdrawn"

AllIngested ==
    \A h \in 1..tip : events[h] # {} => job[h].st = "completed"

\* When every job about the deposit has completed, in whatever order they ran,
\* overlapped, failed and were retried, the row has the chain's current winner
\* while the deposit exists, and its withdrawal once a job was told of one; unless
\* the row once went back.
IngestedMeansCurrent ==
    AllIngested /\ ~lost =>
        /\ live.st = "alive" => row.height # 0 /\ row.winner = live.winner
        /\ (\E h \in Heights : job[h].st # "absent" /\ job[h].kind = "withdraw")
           => row.withdrawn

\* A row loses its withdrawal or goes back to an earlier winner only by the save of
\* a run that another one overtook: one that saved the row between this run's
\* first read and its save (millions.consumer.ts:39-46, 61-106).  Jobs of older
\* blocks that run after those of newer ones, or that run twice, do not take it back.
BackOnlyIfOvertaken ==
    [][GoesBack => \E s \in overtaken : Write(s)]_vars

\* "live ingestion as well as historical data ingestion" (README.md:15): every
\* deposit whose block is ingested gets its row.  CalmSpec does not satisfy it:
\* a deposit withdrawn before its job ran is not on the chain any more.
DepositIsRecorded ==
    \A h \in Heights : "deposit" \in events[h] ~> row.height # 0
=============================================================================
