---------------------------- MODULE BackwardCheck ----------------------------
(***************************************************************************)
(* The daily search for missed blocks.  BlockScheduler.backwardIngest puts *)
(* one check of [STARTING_HEIGHT, tip] on the blocks queue;                *)
(* BlockConsumer.verifyBlocksBackward counts the rows of a range and, when *)
(* one is missing, either re-ingests the range as a whole (at most         *)
(* Threshold long) or splits it into two checks of half the length.        *)
(*                                                                         *)
(* The two sub-checks are keyed by their range, so adding one that Redis   *)
(* still holds does nothing.  A run that was interrupted is requeued or    *)
(* fails; attempts and stalls, which BlockIngest tells apart, are one      *)
(* bound on requeues here.  Rows may appear between any two steps: other   *)
(* jobs of the queue, live ticks and fail-safe jobs store them.            *)
(***************************************************************************)
EXTENDS Integers, FiniteSets

CONSTANTS StartHeight, MaxHeight,  \* STARTING_HEIGHT and a bound on the chain
          InitTip,                 \* the chain's height when the indexer starts
          Threshold,               \* longest range re-ingested as a whole (1000)
          MaxRequeues,             \* times an interrupted check is requeued
          MaxMissing               \* bound on the rows missing at the start

Heights == StartHeight..MaxHeight

ASSUME BackwardCheckAssumption ==
    /\ StartHeight \in Nat /\ MaxHeight \in Nat /\ InitTip \in Heights
    /\ Threshold \in Nat \ {0}
    /\ MaxRequeues \in Nat /\ MaxMissing \in Nat

\* A check job: the daily ones have fresh ids, the others the id
\* `${chainId}-check-block-range-${from}-${to}`.
Check == {c \in [from : Heights, to : Heights, daily : BOOLEAN] : c.from <= c.to}

VARIABLES
    tip,      \* height of the chain's last block
    blocks,   \* heights with a row
    wanted,   \* heights for which a check queued an INGEST job
    check,    \* the check jobs: status and times requeued
    initial,  \* history: the rows there were at the start
    due,      \* history: heights below the tip at the last daily check
    skipped   \* history: the split points

history == <<initial, due, skipped>>
vars == <<tip, blocks, wanted, check, initial, due, skipped>>

\* "counted": rows were found missing; "half": the first sub-check was added.
Status == {"absent", "wait", "counted", "half", "completed", "failed"}

TypeOK ==
    /\ tip \in Heights
    /\ blocks \subseteq Heights
    /\ wanted \subseteq Heights
    /\ check \in [Check -> [st : Status, requeues : 0..MaxRequeues]]
    /\ initial \subseteq Heights
    /\ due \subseteq Heights
    /\ skipped \subseteq Heights

Fresh == [st |-> "wait", requeues |-> 0]
Absent == [st |-> "absent", requeues |-> 0]

\* The indexer starts, or restarts, with some of the chain in its database.
Init ==
    /\ tip = InitTip
    /\ blocks \in SUBSET (StartHeight..InitTip)
    /\ Cardinality((StartHeight..InitTip) \ blocks) <= MaxMissing
    /\ initial = blocks
    /\ wanted = {} /\ due = {} /\ skipped = {}
    /\ check = [c \in Check |-> Absent]

-----------------------------------------------------------------------------
(* The rest of the system.                                                  *)

NewBlock == /\ tip < MaxHeight
            /\ tip' = tip + 1
            /\ UNCHANGED <<blocks, wanted, check, history>>

StoreBlock(h) == /\ h <= tip
                 /\ h \notin blocks
                 /\ blocks' = blocks \cup {h}
                 /\ UNCHANGED <<tip, wanted, check, history>>

-----------------------------------------------------------------------------
(* Ranges.                                                                  *)

\* The heights a check looks at: the last one, toBlock, is not counted.
Looked(c) == c.from..(c.to - 1)

Length(c) == c.to - c.from

Missing(c) == Length(c) - Cardinality(blocks \cap Looked(c))

\* Mutant of Short: any range is re-ingested as a whole.
ShortAlways(c) == Length(c) >= 0
Short(c) == Length(c) <= Threshold

Middle(c) == c.from + (Length(c) \div 2)

FirstHalf(c) == [from |-> c.from, to |-> Middle(c), daily |-> FALSE]

\* Mutant of SecondHalf: it begins one height late.
SecondHalfLate(c) ==
    [from |-> IF Middle(c) + 2 <= c.to THEN Middle(c) + 2 ELSE c.to,
     to |-> c.to, daily |-> FALSE]
SecondHalf(c) == [from |-> Middle(c) + 1, to |-> c.to, daily |-> FALSE]

\* queue.add of a sub-check: a no-op when Redis knows its id.
Added(c) == IF check[c].st = "absent" THEN Fresh ELSE check[c]

-----------------------------------------------------------------------------
(* Jobs.                                                                    *)

\* backwardIngest: [STARTING_HEIGHT, latest height] under a fresh id.
DailyCheck ==
    LET c == [from |-> StartHeight, to |-> tip, daily |-> TRUE] IN
    /\ check[c].st \in {"absent", "completed", "failed"}
    /\ check' = [check EXCEPT ![c] = Fresh]
    /\ due' = StartHeight..(tip - 1)
    /\ UNCHANGED <<tip, blocks, wanted, initial, skipped>>

\* countInRange is awaited; nothing missing ends the job.
Count(c) ==
    /\ check[c].st = "wait"
    /\ check' = [check EXCEPT ![c].st =
                   IF Missing(c) > 0 THEN "counted" ELSE "completed"]
    /\ UNCHANGED <<tip, blocks, wanted, history>>

\* addBulk of the INGEST jobs of the whole range, toBlock included.
Reingest(c) ==
    /\ check[c].st = "counted"
    /\ Short(c)
    /\ wanted' = wanted \cup c.from..c.to
    /\ check' = [check EXCEPT ![c].st = "completed"]
    /\ UNCHANGED <<tip, blocks, history>>

SplitFirst(c) ==
    /\ check[c].st = "counted"
    /\ ~Short(c)
    /\ check' = [check EXCEPT ![FirstHalf(c)] = Added(FirstHalf(c)),
                              ![c].st = "half"]
    /\ UNCHANGED <<tip, blocks, wanted, history>>

SplitSecond(c) ==
    /\ check[c].st = "half"
    /\ check' = [check EXCEPT ![SecondHalf(c)] = Added(SecondHalf(c)),
                              ![c].st = "completed"]
    /\ skipped' = skipped \cup {Middle(c)}
    /\ UNCHANGED <<tip, blocks, wanted, initial, due>>

\* Mutants of Interrupted: requeued once more; not counted.
InterruptedOnceMore(r) ==
    {[st |-> "failed", requeues |-> r.requeues]} \cup
    (IF r.requeues <= MaxRequeues THEN {[st |-> "wait", requeues |-> r.requeues + 1]} ELSE {})
InterruptedForever(r) == {[st |-> s, requeues |-> r.requeues] : s \in {"wait", "failed"}}

\* What becomes of a job whose run rejected or died.
Interrupted(r) ==
    {[st |-> "failed", requeues |-> r.requeues]} \cup
    (IF r.requeues < MaxRequeues THEN {[st |-> "wait", requeues |-> r.requeues + 1]} ELSE {})

Interrupt(c) ==
    /\ check[c].st \in {"wait", "counted", "half"}
    /\ \E r \in Interrupted(check[c]) : check' = [check EXCEPT ![c] = r]
    /\ UNCHANGED <<tip, blocks, wanted, history>>

\* removeOnComplete with JOB_MAX_AGE; a failed job is never removed.
Expire(c) ==
    /\ check[c].st = "completed"
    /\ check' = [check EXCEPT ![c] = Absent]
    /\ UNCHANGED <<tip, blocks, wanted, history>>

-----------------------------------------------------------------------------
Run(c) == Count(c) \/ Reingest(c) \/ SplitFirst(c) \/ SplitSecond(c)

Next ==
    \/ NewBlock
    \/ \E h \in Heights : StoreBlock(h)
    \/ DailyCheck
    \/ \E c \in Check : Run(c) \/ Interrupt(c) \/ Expire(c)

Spec == Init /\ [][Next]_vars

\* The consumers keep running the jobs of the queue.
FairSpec == Spec /\ \A c \in Check : WF_vars(Run(c))

-----------------------------------------------------------------------------
(* Properties.                                                              *)

Queued(c) == check[c].st \in {"wait", "counted", "half"}

\* Checks whose heights are still to be looked at, or never will be.
Open(c) == Queued(c) \/ check[c].st = "failed"

\* "Only missing blocks and some of their neighbors will be ingested"
\* (README.md:91): every height a check queues lies within Threshold of a
\* height that had no row when the indexer started, although the rows are
\* counted in one step and the jobs added in a later one.
NeighboursOnly ==
    \A h \in wanted : \E m \in Heights \ initial :
        m - h <= Threshold /\ h - m <= Threshold

\* No height of a daily check is overlooked: it has its row, or an INGEST job,
\* or lies in a check that is still queued or has failed -- or it was the
\* point where a range was split, which neither half looks at.  It holds
\* although sub-checks of an earlier pass may answer for those of this one.
CoveredExceptSplits ==
    \A h \in due \ (blocks \cup wanted \cup skipped) :
        \E c \in Check : Open(c) /\ h \in Looked(c)

\* Splitting ends: checks create checks, and an id that expired may be added again,
\* but once no daily check is added any more, none is left in the queue
\* (block.consumer.ts:208-233).
ChecksDrain ==
    <>[][~DailyCheck]_vars => <>[](\A c \in Check : ~Queued(c))

\* "Daily check that we did not miss a block sync somehow"
\* (block.scheduler.ts:23): when no check is left, every height below the tip
\* has its row or an INGEST job.  Spec does not satisfy it.
DailyCheckFindsAll ==
    (\A c \in Check : ~Open(c)) => due \subseteq blocks \cup wanted
=============================================================================
