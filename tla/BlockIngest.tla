----------------------------- MODULE BlockIngest -----------------------------
(***************************************************************************)
(* The ingestion of blocks: BlockScheduler and the API put INGEST jobs on  *)
(* the Bull queue "blocks", the job slots of the SyncConsumer processes    *)
(* take them and run BlockConsumer.ingestBlock, which writes one row of    *)
(* blocks and then, in a second statement, the rows of transactions.       *)
(*                                                                         *)
(* Bull gives at-least-once delivery.  A job is run under a lock; when the *)
(* lock is lost (the process died, or only paused too long) the job goes   *)
(* back to the queue and runs again, possibly beside its first run.  A     *)
(* rejected run is retried until its attempts are used up.  An id that is  *)
(* present in Redis in any state makes a later add with that id a no-op.   *)
(*                                                                         *)
(* The delay before a retry, the limiter and the priorities only choose    *)
(* when a waiting job is taken; here any waiting job may be taken at any   *)
(* time, which covers every order they produce.                            *)
(***************************************************************************)
EXTENDS Integers

CONSTANTS
    StartHeight, MaxHeight,  \* STARTING_HEIGHT and a bound on the chain
    InitTip,                 \* the chain's height when the indexer starts
    TxHeights,               \* the heights whose block holds transactions
    Window,                  \* blocks dispatched per live tick (20)
    RangeLimit,              \* largest range re-ingested as a whole (1000)
    Workers,                 \* job slots of all the consumer processes
    NoOne,                   \* owner of a job that is not locked
    MaxAttempts,             \* attempts of a job with an id (5)
    MaxStalled,              \* times Bull requeues a stalled job (1)
    MaxFailSafe              \* bound: unfinished anonymous jobs per height

Heights == StartHeight..MaxHeight

ASSUME BlockIngestAssumption ==
    /\ StartHeight \in Nat /\ MaxHeight \in Nat /\ InitTip \in Heights
    /\ TxHeights \subseteq Heights
    /\ NoOne \notin Workers
    /\ Window \in Nat \ {0}
    /\ RangeLimit \in Nat \ {0}
    /\ MaxAttempts \in Nat \ {0}
    /\ MaxStalled \in Nat
    /\ MaxFailSafe \in Nat

\* The job <<h, 0>> has the id `${chainId}-block-${h}`; the jobs <<h, k>> with
\* k > 0 are fail-safe jobs for h, to which Bull gives fresh ids.
JobId == Heights \X (0..MaxFailSafe)

HeightOf(j) == j[1]
Keyed(h) == <<h, 0>>
AttemptsOf(j) == IF j[2] = 0 THEN MaxAttempts ELSE 1

NoJob == <<StartHeight - 1, 0>>

VARIABLES
    tip,         \* height of the chain's last block
    blocks,      \* heights with a row in blocks
    txs,         \* heights whose transactions have their rows
    dispatched,  \* heights whose Millions events are all on the millions queue
    job,         \* the queue: status, failed attempts, stalls and lock of each id
    pc, cur,     \* next step of each slot and the job it runs
    cut          \* history: heights whose transactions were interrupted or cleared

db == <<blocks, txs, dispatched, cut>>
slots == <<pc, cur>>
vars == <<tip, blocks, txs, dispatched, job, pc, cur, cut>>

Status == {"absent", "wait", "active", "completed", "failed"}

TypeOK ==
    /\ tip \in Heights
    /\ blocks \subseteq Heights
    /\ txs \subseteq Heights
    /\ dispatched \subseteq TxHeights
    /\ cut \subseteq Heights
    /\ job \in [JobId -> [st : Status, made : 0..MaxAttempts,
                          stalls : 0..MaxStalled, owner : Workers \cup {NoOne}]]
    /\ pc \in [Workers -> {"idle", "check", "fetch", "save",
                           "fetchTxs", "saveTxs", "done"}]
    /\ cur \in [Workers -> JobId \cup {NoJob}]
    /\ \A w \in Workers : pc[w] # "idle" => cur[w] \in JobId

\* A job as add() creates it, and an id that is not in Redis.
Fresh == [st |-> "wait", made |-> 0, stalls |-> 0, owner |-> NoOne]
Absent == [Fresh EXCEPT !.st = "absent"]

Init ==
    /\ tip = InitTip
    /\ blocks = {} /\ txs = {} /\ dispatched = {} /\ cut = {}
    /\ job = [j \in JobId |-> Absent]
    /\ pc = [w \in Workers |-> "idle"]
    /\ cur = [w \in Workers |-> NoJob]

-----------------------------------------------------------------------------
(* The chain and the jobs' producers.                                       *)

NewBlock ==
    /\ tip < MaxHeight
    /\ tip' = tip + 1
    /\ UNCHANGED <<db, job, slots>>

\* queue.add of the keyed jobs of the heights hs: an id already in Redis,
\* whatever its state, is left as it is.
AddKeyed(hs) ==
    job' = [j \in JobId |->
              IF j[2] = 0 /\ HeightOf(j) \in hs /\ job[j].st = "absent"
              THEN Fresh ELSE job[j]]

\* Mutant of LiveIngest: the loop starts one block below the tip.
LiveIngestSkipsTip(n) ==
    /\ AddKeyed({h \in Heights : tip - n <= h /\ h < tip})
    /\ UNCHANGED <<tip, db, slots>>

\* One run of the cron: the height is read once, then n of the Window adds
\* are awaited; n < Window is a loop cut by a restart or a rejected add.
LiveIngest(n) ==
    /\ AddKeyed({h \in Heights : tip - n < h /\ h <= tip})
    /\ UNCHANGED <<tip, db, slots>>

\* A backward check found a height of [from, to - 1] missing and the range
\* short enough to be re-ingested as a whole, its own toBlock included.
ReingestRange(from, to) ==
    /\ from <= to /\ to <= tip
    /\ to - from <= RangeLimit
    /\ \E h \in from..(to - 1) : h \notin blocks
    /\ AddKeyed(from..to)
    /\ UNCHANGED <<tip, db, slots>>

\* GET /blocks/:height of a height without a row, which may lie above the tip.
FailSafeIngest(h, k) ==
    /\ h >= StartHeight
    /\ h \notin blocks
    /\ k # 0
    /\ job[<<h, k>>].st \in {"absent", "completed", "failed"}
    /\ job' = [job EXCEPT ![<<h, k>>] = Fresh]
    /\ UNCHANGED <<tip, db, slots>>

-----------------------------------------------------------------------------
(* Bull.                                                                    *)

Take(w, j) ==
    /\ pc[w] = "idle"
    /\ job[j].st = "wait"
    /\ job' = [job EXCEPT ![j].st = "active", ![j].owner = w]
    /\ pc' = [pc EXCEPT ![w] = "check"]
    /\ cur' = [cur EXCEPT ![w] = j]
    /\ UNCHANGED <<tip, db>>

Released(st, made, stalls) ==
    [st |-> st, made |-> made, stalls |-> stalls, owner |-> NoOne]

\* Mutants of Requeued: stalls counted past their limit, or not at all.
RequeuedOnceMore(r) ==
    IF r.stalls <= MaxStalled THEN Released("wait", r.made, r.stalls + 1)
                              ELSE Released("failed", r.made, r.stalls)
RequeuedForever(r) == Released("wait", r.made, r.stalls)

\* A stalled job goes back to the queue until it stalled too often.
Requeued(r) ==
    IF r.stalls < MaxStalled THEN Released("wait", r.made, r.stalls + 1)
                             ELSE Released("failed", r.made, r.stalls)

\* The lock of an active job expired: its slot died, or is still running but
\* failed to renew it.
Stall(j) ==
    /\ job[j].st = "active"
    /\ job' = [job EXCEPT ![j] = Requeued(@)]
    /\ UNCHANGED <<tip, db, slots>>

\* removeOnComplete with JOB_MAX_AGE; a failed job is never removed.
Expire(j) ==
    /\ job[j].st = "completed"
    /\ job' = [job EXCEPT ![j] = Absent]
    /\ UNCHANGED <<tip, db, slots>>

Release(w) == /\ pc' = [pc EXCEPT ![w] = "idle"]
              /\ cur' = [cur EXCEPT ![w] = NoJob]

\* The transactions of w's height are given up half way.
Interrupted(w) ==
    IF pc[w] \in {"fetchTxs", "saveTxs"}
    THEN {HeightOf(cur[w])} \cap TxHeights ELSE {}

\* The run resolved.  A slot that lost its lock cannot complete the job.
Finish(w) ==
    /\ pc[w] = "done"
    /\ job' = IF job[cur[w]].owner = w
              THEN [job EXCEPT ![cur[w]].st = "completed", ![cur[w]].owner = NoOne]
              ELSE job
    /\ Release(w)
    /\ UNCHANGED <<tip, db>>

\* The job after a rejected run: retried while it has attempts left.
Rejected(j) ==
    Released(IF job[j].made + 1 < AttemptsOf(j) THEN "wait" ELSE "failed",
             job[j].made + 1, job[j].stalls)

\* Mutant of Throw: the error is logged and not thrown again.
ThrowSwallowed(w) ==
    /\ pc[w] \in {"check", "fetch", "save", "fetchTxs", "saveTxs"}
    /\ pc' = [pc EXCEPT ![w] = "done"]
    /\ UNCHANGED <<tip, db, job, cur>>

\* An awaited call of the run rejected (node or database unreachable, unknown
\* height, null client, duplicate key) and ingestBlock rethrew.
Throw(w) ==
    LET j == cur[w] IN
    /\ pc[w] \in {"check", "fetch", "save", "fetchTxs", "saveTxs"}
    /\ pc[w] = "fetchTxs" => HeightOf(j) \in TxHeights
    /\ cut' = cut \cup Interrupted(w)
    /\ \/ UNCHANGED dispatched
       \/ pc[w] = "fetchTxs" /\ dispatched' = dispatched \cup {HeightOf(j)}
    /\ job' = IF job[j].owner = w THEN [job EXCEPT ![j] = Rejected(j)] ELSE job
    /\ Release(w)
    /\ UNCHANGED <<tip, blocks, txs>>

\* The slot's process is killed; its job stays active until it stalls.
Crash(w) ==
    /\ pc[w] # "idle"
    /\ cut' = cut \cup Interrupted(w)
    /\ Release(w)
    /\ UNCHANGED <<tip, blocks, txs, dispatched, job>>

-----------------------------------------------------------------------------
(* BlockConsumer.ingestBlock.                                               *)

Goto(w, label) == /\ pc' = [pc EXCEPT ![w] = label]
                  /\ UNCHANGED <<tip, job, cur>>

\* A height that has a row is done, with or without its transactions.
CheckExists(w) ==
    /\ pc[w] = "check"
    /\ Goto(w, IF HeightOf(cur[w]) \in blocks THEN "done" ELSE "fetch")
    /\ UNCHANGED db

FetchBlock(w) ==
    /\ pc[w] = "fetch"
    /\ HeightOf(cur[w]) <= tip
    /\ Goto(w, "save")
    /\ UNCHANGED db

\* Mutant of SaveBlock: the block row is left for after the transactions.
SaveBlockLater(w) ==
    /\ pc[w] = "save"
    /\ Goto(w, "fetchTxs")
    /\ UNCHANGED db

\* Inserts the row, or updates it with the same block when another run stored
\* it after this one checked.
SaveBlock(w) ==
    /\ pc[w] = "save"
    /\ blocks' = blocks \cup {HeightOf(cur[w])}
    /\ Goto(w, "fetchTxs")
    /\ UNCHANGED <<txs, dispatched, cut>>

\* Mutants of FetchTxs: events not queued; transactions fetched, never saved.
FetchTxsOnly(w) ==
    /\ pc[w] = "fetchTxs"
    /\ Goto(w, IF HeightOf(cur[w]) \in TxHeights THEN "saveTxs" ELSE "done")
    /\ UNCHANGED db
FetchTxsUnsaved(w) ==
    /\ pc[w] = "fetchTxs"
    /\ Goto(w, "done")
    /\ UNCHANGED db

\* getTx of every transaction, queueing the Millions events found on the way.
FetchTxs(w) ==
    /\ pc[w] = "fetchTxs"
    /\ \/ /\ HeightOf(cur[w]) \in TxHeights
          /\ dispatched' = dispatched \cup {HeightOf(cur[w])}
          /\ Goto(w, "saveTxs")
       \/ /\ HeightOf(cur[w]) \notin TxHeights
          /\ UNCHANGED dispatched
          /\ Goto(w, "done")
    /\ UNCHANGED <<blocks, txs, cut>>

\* saveBulk is one database transaction.
SaveTxs(w) ==
    /\ pc[w] = "saveTxs"
    /\ txs' = txs \cup {HeightOf(cur[w])}
    /\ Goto(w, "done")
    /\ UNCHANGED <<blocks, dispatched, cut>>

\* Mutant of ClearTransactions: the blocks go with their transactions.
ClearCascades ==
    /\ txs # {}
    /\ txs' = {}
    /\ blocks' = blocks \ txs
    /\ cut' = cut \cup txs
    /\ UNCHANGED <<tip, dispatched, job, slots>>

\* Console command "transactions clear"; the same command for blocks is
\* refused by the foreign key of transactions.
ClearTransactions ==
    /\ txs # {}
    /\ txs' = {}
    /\ cut' = cut \cup txs
    /\ UNCHANGED <<tip, blocks, dispatched, job, slots>>

-----------------------------------------------------------------------------
Slot(w) ==
    \/ \E j \in JobId : Take(w, j)
    \/ CheckExists(w) \/ FetchBlock(w) \/ SaveBlock(w)
    \/ FetchTxs(w) \/ SaveTxs(w)
    \/ Finish(w)
    \/ Throw(w)
    \/ Crash(w)

Producers ==
    \/ \E n \in 1..Window : LiveIngest(n)
    \/ \E from, to \in Heights : ReingestRange(from, to)
    \/ \E h \in Heights, k \in 1..MaxFailSafe : FailSafeIngest(h, k)

Next ==
    \/ NewBlock
    \/ Producers
    \/ \E j \in JobId : Stall(j) \/ Expire(j)
    \/ \E w \in Workers : Slot(w)
    \/ ClearTransactions

Spec == Init /\ [][Next]_vars

\* The crons fire, awaited calls settle (Throw counts) and Bull notices an
\* active job nobody runs.  Bull takes waiting jobs in their order, so a keyed
\* job is not overtaken for ever by others that occupy the slots.  Nothing makes the chain grow,
\* a process die, a lock expire under a live run, or an HTTP client ask.
Orphan(j) == job[j].st = "active" /\ job[j].owner \in Workers /\ cur[job[j].owner] # j

Step(w) == \/ CheckExists(w) \/ FetchBlock(w) \/ SaveBlock(w)
           \/ FetchTxs(w) \/ SaveTxs(w) \/ Finish(w) \/ Throw(w)

Fairness ==
    /\ WF_vars(LiveIngest(Window))
    /\ \A from, to \in Heights : WF_vars(ReingestRange(from, to))
    /\ \A w \in Workers : WF_vars(Step(w))
    /\ \A h \in Heights : SF_vars(\E w \in Workers : Take(w, Keyed(h)))
    /\ \A j \in JobId : WF_vars(Orphan(j) /\ Stall(j))

FairSpec == Spec /\ Fairness

\* Node and database answer in the end whoever keeps asking them.
ReliableSpec ==
    /\ FairSpec
    /\ \A w \in Workers : /\ SF_vars(CheckExists(w)) /\ SF_vars(FetchBlock(w))
                         /\ SF_vars(SaveBlock(w)) /\ SF_vars(FetchTxs(w))
                         /\ SF_vars(SaveTxs(w))

-----------------------------------------------------------------------------
(* Safety.                                                                  *)

\* A transaction row always has the block row its foreign key references,
\* although the two tables are written by separate statements of ingestBlock
\* and several runs of one height may overlap.
TxsHaveTheirBlock == txs \subseteq blocks

\* A job that Bull reports completed has its block's row in the database, whoever
\* wrote it: a run that ends well has found the row or saved it, and one whose
\* calls are rejected throws (block.consumer.ts:31-33, 173-181).
CompletedMeansStored ==
    \A j \in JobId : job[j].st = "completed" => HeightOf(j) \in blocks

\* The Millions events of a stored transaction are on the millions queue:
\* getFormattedTx queues them before saveBulk, so no stored deposit
\* transaction can be left out by a crash between the two.
StoredMeansDispatched == txs \subseteq dispatched

InFlight(h) == \E w \in Workers : /\ pc[w] \in {"fetchTxs", "saveTxs"}
                                  /\ HeightOf(cur[w]) = h

\* A stored block that lacks its transactions is either being written or had
\* its ingestion interrupted after the block's row (or its transactions
\* cleared): no interleaving of undisturbed runs loses transactions.
IncompleteOnlyWhenCut ==
    \A h \in (blocks \cap TxHeights) \ txs : InFlight(h) \/ h \in cut

Store == INSTANCE BlockStore

\* Whatever the queue, the workers and the failures do, the two tables change
\* as BlockStore promises.
ImplementsBlockStore == Store!Spec

-----------------------------------------------------------------------------
(* Liveness, under FairSpec.                                                *)

\* A queued height is settled: its job completes or uses up its attempts,
\* through every crash, stall and rejected call.
QueuedIsSettled ==
    \A h \in Heights : job[Keyed(h)].st \in {"wait", "active"}
                        ~> job[Keyed(h)].st \in {"completed", "failed"}

\* A height the live ticks cover is stored, unless its job failed or the
\* chain moved on by a whole window first.
LiveWindowIsIngested ==
    \A h \in Heights :
        (tip - Window < h /\ h <= tip)
        ~> (\/ h \in blocks
            \/ job[Keyed(h)].st = "failed"
            \/ h <= tip - Window)

\* "it will start ingesting all new blocks every 10 seconds" (README.md:89):
\* with a node and a database that answer in the end, every block of the chain
\* gets its row.  ReliableSpec does not satisfy it.
NewBlocksAreIngested == \A h \in Heights : h <= tip ~> h \in blocks

\* "search among blocks and transactions" (README.md:5): a stored block gets
\* its transactions too.  ReliableSpec does not satisfy it.
TransactionsAreIngested ==
    \A h \in TxHeights : <>(h \in blocks) => <>(h \in txs)
=============================================================================
