-------------------------- MODULE BlockIngestProofs --------------------------
(***************************************************************************)
(* Proofs about BlockIngest, for every chain, window, number of slots,     *)
(* attempts and stalls.  The inductive invariant has two layers: what the  *)
(* queue keeps (QueueInv), which does not mention the database, and what   *)
(* the database keeps (RowsInv), which rests on the types of the first.    *)
(***************************************************************************)
EXTENDS BlockIngest, TLAPS

\* A lock belongs to a run in progress.
LockedIsActive ==
    \A j \in JobId : job[j].owner \in Workers => job[j].st = "active"

JobRecord == [st : Status, made : 0..MaxAttempts, stalls : 0..MaxStalled,
              owner : Workers \cup {NoOne}]

\* A job that may still run has attempts left, so that the count of them stays
\* within its type.
AttemptsLeft ==
    \A j \in JobId : job[j].st \in {"wait", "active"} => job[j].made < AttemptsOf(j)

QueueInv == TypeOK /\ LockedIsActive /\ AttemptsLeft

\* How far the run of each slot has got, told by the database: the rows its
\* past statements wrote are there, whatever other runs did since.
RunsInOrder ==
    \A w \in Workers :
        /\ pc[w] = "save" => HeightOf(cur[w]) <= tip
        /\ pc[w] \in {"fetchTxs", "saveTxs", "done"} => HeightOf(cur[w]) \in blocks
        /\ pc[w] = "saveTxs" => HeightOf(cur[w]) \in dispatched

RowsInv == /\ RunsInOrder
           /\ TxsHaveTheirBlock
           /\ CompletedMeansStored
           /\ StoredMeansDispatched
           /\ IncompleteOnlyWhenCut

-----------------------------------------------------------------------------
LEMMA JobFacts ==
    ASSUME NEW j \in JobId
    PROVE  HeightOf(j) \in Heights /\ AttemptsOf(j) \in 1..MaxAttempts
BY BlockIngestAssumption DEF JobId, HeightOf, AttemptsOf

LEMMA KeyedIsJob == \A h \in Heights, k \in 0..MaxFailSafe : <<h, k>> \in JobId
BY DEF JobId

\* The queue's invariant holds at the start and every step keeps it.
LEMMA QueueInit == Init => QueueInv
BY BlockIngestAssumption DEF Init, QueueInv, TypeOK, LockedIsActive, AttemptsLeft,
   Absent, Fresh, Status, Heights

LEMMA QueueStep == QueueInv /\ [Next]_vars => QueueInv'
<1> SUFFICES ASSUME QueueInv, [Next]_vars PROVE QueueInv'
  OBVIOUS
<1> USE BlockIngestAssumption DEF QueueInv, Status
<1>f. /\ Fresh = [st |-> "wait", made |-> 0, stalls |-> 0, owner |-> NoOne]
      /\ Absent = [st |-> "absent", made |-> 0, stalls |-> 0, owner |-> NoOne]
  BY DEF Fresh, Absent
<1>a. \A j \in JobId : HeightOf(j) \in Heights /\ AttemptsOf(j) \in 1..MaxAttempts
  BY JobFacts
<1>1. CASE NewBlock
  BY <1>1 DEF NewBlock, db, slots, TypeOK, LockedIsActive, AttemptsLeft, Heights
<1>2. ASSUME NEW hs, AddKeyed(hs), UNCHANGED <<tip, db, slots>> PROVE QueueInv'
  BY <1>2, <1>f, <1>a DEF AddKeyed, db, slots, TypeOK, LockedIsActive, AttemptsLeft
<1>3. CASE \E n \in 1..Window : LiveIngest(n)
  BY <1>2, <1>3 DEF LiveIngest
<1>4. CASE \E from, to \in Heights : ReingestRange(from, to)
  BY <1>2, <1>4 DEF ReingestRange
<1>5. ASSUME NEW h \in Heights, NEW k \in 1..MaxFailSafe, FailSafeIngest(h, k)
      PROVE  QueueInv'
  <2>1. <<h, k>> \in JobId
    BY <1>5, KeyedIsJob
  <2> QED
    BY <1>5, <2>1, <1>f, <1>a DEF FailSafeIngest, db, slots, TypeOK, LockedIsActive, AttemptsLeft
<1>6. ASSUME NEW w \in Workers, NEW j \in JobId, Take(w, j) PROVE QueueInv'
  BY <1>6, <1>a DEF Take, db, TypeOK, LockedIsActive, AttemptsLeft
<1>7. ASSUME NEW j \in JobId, Stall(j) PROVE QueueInv'
  <2> DEFINE r == job[j]
             q == Requeued(r)
  <2>1. r \in JobRecord
    BY DEF TypeOK, JobRecord
  <2>2. q \in JobRecord /\ q.made = r.made /\ q.owner = NoOne
    BY <2>1 DEF Requeued, Released, JobRecord
  <2>3. job' = [job EXCEPT ![j] = q]
    BY <1>7 DEF Stall
  <2>4. r.made < AttemptsOf(j)
    BY <1>7 DEF Stall, AttemptsLeft
  <2> HIDE DEF q
  <2> QED
    BY <1>7, <1>a, <2>2, <2>3, <2>4
       DEF Stall, db, slots, TypeOK, LockedIsActive, AttemptsLeft, JobRecord
<1>8. ASSUME NEW j \in JobId, Expire(j) PROVE QueueInv'
  BY <1>8, <1>a, <1>f DEF Expire, db, slots, TypeOK, LockedIsActive, AttemptsLeft
<1>9. ASSUME NEW w \in Workers, Finish(w) PROVE QueueInv'
  <2>1. cur[w] \in JobId
    BY <1>9 DEF Finish, TypeOK
  <2> QED
    BY <1>9, <2>1, <1>a DEF Finish, Release, db, TypeOK, LockedIsActive, AttemptsLeft
<1>10. ASSUME NEW w \in Workers, Throw(w) PROVE QueueInv'
  <2>1. cur[w] \in JobId /\ HeightOf(cur[w]) \in Heights
    BY <1>10, <1>a DEF Throw, TypeOK
  <2>2. cut' \subseteq Heights /\ dispatched' \subseteq TxHeights
    BY <1>10, <2>1 DEF Throw, Interrupted, TypeOK
  <2>3. CASE job[cur[w]].owner = w
    <3> DEFINE j == cur[w]
               r == job[j]
               q == Rejected(j)
    <3>1. r \in JobRecord /\ r.made + 1 <= AttemptsOf(j)
      BY <2>1, <2>3, <1>a DEF TypeOK, JobRecord, LockedIsActive, AttemptsLeft
    <3>2. /\ q \in JobRecord /\ q.owner = NoOne
          /\ q.st \in {"wait", "active"} => q.made < AttemptsOf(j)
      BY <2>1, <3>1, <1>a DEF Rejected, Released, JobRecord
    <3>3. job' = [job EXCEPT ![j] = q]
      BY <1>10, <2>3 DEF Throw
    <3> HIDE DEF q
    <3>4. job' \in [JobId -> JobRecord] /\ LockedIsActive' /\ AttemptsLeft'
      BY <2>1, <3>2, <3>3 DEF TypeOK, JobRecord, LockedIsActive, AttemptsLeft
    <3> QED
      BY <1>10, <2>2, <3>4 DEF Throw, Release, TypeOK, JobRecord
  <2>4. CASE job[cur[w]].owner # w
    BY <1>10, <2>2, <2>4 DEF Throw, Release, TypeOK, LockedIsActive, AttemptsLeft
  <2> QED
    BY <2>3, <2>4
<1>11. ASSUME NEW w \in Workers, Crash(w) PROVE QueueInv'
  BY <1>11 DEF Crash, Release, Interrupted, TypeOK, LockedIsActive, AttemptsLeft
<1>12. ASSUME NEW w \in Workers,
              CheckExists(w) \/ FetchBlock(w) \/ SaveBlock(w) \/ FetchTxs(w) \/ SaveTxs(w)
       PROVE  QueueInv'
  <2>1. cur[w] \in JobId /\ HeightOf(cur[w]) \in Heights
    BY <1>12, <1>a DEF CheckExists, FetchBlock, SaveBlock, FetchTxs, SaveTxs, TypeOK
  <2>2. UNCHANGED <<tip, job, cur, cut>>
    BY <1>12 DEF CheckExists, FetchBlock, SaveBlock, FetchTxs, SaveTxs, Goto, db
  <2>3. blocks' \subseteq Heights /\ dispatched' \subseteq TxHeights
    BY <1>12, <2>1 DEF CheckExists, FetchBlock, SaveBlock, FetchTxs, SaveTxs, db, TypeOK
  <2>4. txs' \subseteq Heights
    BY <1>12, <2>1 DEF CheckExists, FetchBlock, SaveBlock, FetchTxs, SaveTxs, db, TypeOK
  <2>5. pc' \in [Workers -> {"idle", "check", "fetch", "save", "fetchTxs", "saveTxs", "done"}]
        /\ \A v \in Workers : pc'[v] # "idle" => pc[v] # "idle"
    BY <1>12 DEF CheckExists, FetchBlock, SaveBlock, FetchTxs, SaveTxs, Goto, TypeOK
  <2> QED
    BY <2>2, <2>3, <2>4, <2>5 DEF TypeOK, LockedIsActive, AttemptsLeft
<1>13. CASE ClearTransactions
  BY <1>13 DEF ClearTransactions, slots, TypeOK, LockedIsActive, AttemptsLeft
<1>14. CASE UNCHANGED vars
  BY <1>14 DEF vars, TypeOK, LockedIsActive, AttemptsLeft
<1> QED
  BY <1>1, <1>3, <1>4, <1>5, <1>6, <1>7, <1>8, <1>9, <1>10, <1>11, <1>12, <1>13, <1>14
     DEF Next, Producers, Slot

\* Every variable keeps its type: no count passes its limit, no slot past the
\* check is without a job.
THEOREM TypeCorrect == Spec => []TypeOK
BY QueueInit, QueueStep, PTL DEF Spec, QueueInv

-----------------------------------------------------------------------------
(* The database.                                                            *)

LEMMA RowsInit == Init => RowsInv
BY DEF Init, RowsInv, RunsInOrder, TxsHaveTheirBlock, CompletedMeansStored,
   StoredMeansDispatched, IncompleteOnlyWhenCut, Absent, Fresh

\* Steps of the chain and of the queue that leave the rows and the slots alone
\* keep RowsInv when they complete no job.
LEMMA RowsUntouched ==
    ASSUME QueueInv, RowsInv, tip' \in Heights, tip <= tip', UNCHANGED <<db, slots>>,
           \A j \in JobId : job'[j].st = "completed" => job[j].st = "completed"
    PROVE  RowsInv'
<1> USE DEF db, slots
<1>1. RunsInOrder'
  <2> SUFFICES ASSUME NEW w \in Workers, pc[w] = "save"
               PROVE  HeightOf(cur[w]) <= tip'
    BY DEF RowsInv, RunsInOrder
  <2>1. HeightOf(cur[w]) \in Heights /\ HeightOf(cur[w]) <= tip
    BY JobFacts DEF QueueInv, TypeOK, RowsInv, RunsInOrder
  <2> QED
    BY <2>1, BlockIngestAssumption DEF Heights, QueueInv, TypeOK
<1>2. CompletedMeansStored'
  BY DEF RowsInv, CompletedMeansStored
<1>3. TxsHaveTheirBlock' /\ StoredMeansDispatched' /\ IncompleteOnlyWhenCut'
  BY DEF RowsInv, TxsHaveTheirBlock, StoredMeansDispatched, IncompleteOnlyWhenCut, InFlight
<1> QED
  BY <1>1, <1>2, <1>3 DEF RowsInv

LEMMA RowsStep == QueueInv /\ RowsInv /\ [Next]_vars => RowsInv'
<1> SUFFICES ASSUME QueueInv, RowsInv, [Next]_vars PROVE RowsInv'
  OBVIOUS
<1> USE DEF db, slots
<1>t. /\ tip \in Heights /\ tip <= tip
      /\ job \in [JobId -> JobRecord]
      /\ pc \in [Workers -> {"idle", "check", "fetch", "save", "fetchTxs", "saveTxs", "done"}]
      /\ cur \in [Workers -> JobId \cup {NoJob}]
      /\ \A w \in Workers : pc[w] # "idle" => cur[w] \in JobId /\ HeightOf(cur[w]) \in Heights
  BY JobFacts, BlockIngestAssumption DEF QueueInv, TypeOK, JobRecord, Heights
<1>r. RunsInOrder /\ TxsHaveTheirBlock /\ CompletedMeansStored /\ StoredMeansDispatched
      /\ IncompleteOnlyWhenCut
  BY DEF RowsInv
<1>1. CASE NewBlock
  <2>1. tip' \in Heights /\ tip <= tip'
    BY <1>1, BlockIngestAssumption, <1>t DEF NewBlock, Heights
  <2> QED
    BY <1>1, <2>1, RowsUntouched DEF NewBlock
<1>2. CASE Producers
  <2>1. UNCHANGED <<tip, db, slots>>
    BY <1>2 DEF Producers, LiveIngest, ReingestRange, FailSafeIngest
  <2>2. \A j \in JobId : job'[j].st = "completed" => job[j].st = "completed"
    <3>1. ASSUME NEW hs, AddKeyed(hs)
          PROVE  \A j \in JobId : job'[j].st = "completed" => job[j].st = "completed"
      BY <3>1 DEF AddKeyed, Fresh
    <3>2. ASSUME NEW h \in Heights, NEW k \in 1..MaxFailSafe, FailSafeIngest(h, k)
          PROVE  \A j \in JobId : job'[j].st = "completed" => job[j].st = "completed"
      BY <3>2, <1>t DEF FailSafeIngest, Fresh
    <3> QED
      BY <1>2, <3>1, <3>2 DEF Producers, LiveIngest, ReingestRange
  <2> QED
    BY <2>1, <2>2, <1>t, RowsUntouched
<1>3. ASSUME NEW j \in JobId, Stall(j) \/ Expire(j) PROVE RowsInv'
  <2>1. \A i \in JobId : job'[i].st = "completed" => job[i].st = "completed"
    BY <1>3, <1>t DEF Stall, Expire, Requeued, Released, Absent, Fresh
  <2> QED
    BY <1>3, <2>1, <1>t, RowsUntouched DEF Stall, Expire
<1>4. ASSUME NEW w \in Workers, NEW j \in JobId, Take(w, j) PROVE RowsInv'
  <2>1. RunsInOrder'
    BY <1>4, <1>t, <1>r DEF Take, RunsInOrder
  <2>2. CompletedMeansStored'
    BY <1>4, <1>t, <1>r DEF Take, CompletedMeansStored, JobRecord
  <2>3. IncompleteOnlyWhenCut'
    BY <1>4, <1>t, <1>r DEF Take, IncompleteOnlyWhenCut, InFlight
  <2> QED
    BY <1>4, <1>r, <2>1, <2>2, <2>3 DEF Take, RowsInv, TxsHaveTheirBlock, StoredMeansDispatched
<1>5. ASSUME NEW w \in Workers, Finish(w) PROVE RowsInv'
  <2>1. RunsInOrder'
    BY <1>5, <1>t, <1>r DEF Finish, Release, RunsInOrder
  <2>2. CompletedMeansStored'
    BY <1>5, <1>t, <1>r DEF Finish, CompletedMeansStored, RunsInOrder, JobRecord
  <2>3. IncompleteOnlyWhenCut'
    BY <1>5, <1>t, <1>r DEF Finish, Release, IncompleteOnlyWhenCut, InFlight
  <2> QED
    BY <1>5, <1>r, <2>1, <2>2, <2>3 DEF Finish, RowsInv, TxsHaveTheirBlock, StoredMeansDispatched
<1>6. ASSUME NEW w \in Workers, Throw(w) \/ Crash(w) PROVE RowsInv'
  <2>1. RunsInOrder'
    BY <1>6, <1>t, <1>r DEF Throw, Crash, Release, RunsInOrder
  <2>2. CompletedMeansStored'
    BY <1>6, <1>t, <1>r DEF Throw, Crash, Rejected, Released, CompletedMeansStored
  <2>3. IncompleteOnlyWhenCut'
    BY <1>6, <1>t, <1>r DEF Throw, Crash, Release, Interrupted, IncompleteOnlyWhenCut, InFlight
  <2> QED
    BY <1>6, <1>r, <2>1, <2>2, <2>3 DEF Throw, Crash, RowsInv, TxsHaveTheirBlock, StoredMeansDispatched
<1>7. ASSUME NEW w \in Workers, CheckExists(w) \/ FetchBlock(w) PROVE RowsInv'
  <2>1. RunsInOrder'
    BY <1>7, <1>t, <1>r DEF CheckExists, FetchBlock, Goto, RunsInOrder
  <2>2. IncompleteOnlyWhenCut'
    BY <1>7, <1>t, <1>r DEF CheckExists, FetchBlock, Goto, IncompleteOnlyWhenCut, InFlight
  <2> QED
    BY <1>7, <1>r, <2>1, <2>2 DEF CheckExists, FetchBlock, Goto, RowsInv, TxsHaveTheirBlock,
       StoredMeansDispatched, CompletedMeansStored
<1>8. ASSUME NEW w \in Workers, SaveBlock(w) PROVE RowsInv'
  <2>1. RunsInOrder'
    BY <1>8, <1>t, <1>r DEF SaveBlock, Goto, RunsInOrder
  <2>2. IncompleteOnlyWhenCut'
    BY <1>8, <1>t, <1>r DEF SaveBlock, Goto, IncompleteOnlyWhenCut, InFlight
  <2> QED
    BY <1>8, <1>r, <2>1, <2>2 DEF SaveBlock, Goto, RowsInv, TxsHaveTheirBlock,
       StoredMeansDispatched, CompletedMeansStored
<1>9. ASSUME NEW w \in Workers, FetchTxs(w) PROVE RowsInv'
  <2>1. RunsInOrder'
    BY <1>9, <1>t, <1>r DEF FetchTxs, Goto, RunsInOrder
  <2>2. IncompleteOnlyWhenCut'
    BY <1>9, <1>t, <1>r DEF FetchTxs, Goto, IncompleteOnlyWhenCut, InFlight
  <2> QED
    BY <1>9, <1>r, <2>1, <2>2 DEF FetchTxs, Goto, RowsInv, TxsHaveTheirBlock,
       StoredMeansDispatched, CompletedMeansStored
<1>10. ASSUME NEW w \in Workers, SaveTxs(w) PROVE RowsInv'
  <2>1. RunsInOrder'
    BY <1>10, <1>t, <1>r DEF SaveTxs, Goto, RunsInOrder
  <2>2. IncompleteOnlyWhenCut'
    BY <1>10, <1>t, <1>r DEF SaveTxs, Goto, IncompleteOnlyWhenCut, InFlight
  <2> QED
    BY <1>10, <1>r, <2>1, <2>2 DEF SaveTxs, Goto, RowsInv, RunsInOrder, TxsHaveTheirBlock,
       StoredMeansDispatched, CompletedMeansStored
<1>11. CASE ClearTransactions
  BY <1>11, <1>r DEF ClearTransactions, RowsInv, RunsInOrder, TxsHaveTheirBlock,
     StoredMeansDispatched, CompletedMeansStored, IncompleteOnlyWhenCut, InFlight
<1>12. CASE UNCHANGED vars
  BY <1>12, <1>r DEF vars, RowsInv, RunsInOrder, TxsHaveTheirBlock,
     StoredMeansDispatched, CompletedMeansStored, IncompleteOnlyWhenCut, InFlight
<1> QED
  BY <1>1, <1>2, <1>3, <1>4, <1>5, <1>6, <1>7, <1>8, <1>9, <1>10, <1>11, <1>12
     DEF Next, Slot

LEMMA Invariants == Spec => [](QueueInv /\ RowsInv)
BY QueueInit, QueueStep, RowsInit, RowsStep, PTL DEF Spec

\* A transaction row always has the row of its block.
THEOREM ForeignKeyHolds == Spec => []TxsHaveTheirBlock
BY Invariants, PTL DEF RowsInv

\* A job that Bull reports completed has its block stored.
THEOREM CompletedJobsStored == Spec => []CompletedMeansStored
BY Invariants, PTL DEF RowsInv

\* The Millions events of a stored transaction have been queued.
THEOREM EventsDispatched == Spec => []StoredMeansDispatched
BY Invariants, PTL DEF RowsInv

\* Transactions are missing only while they are being written, or because
\* their run was interrupted or the table cleared.
THEOREM LossHasACause == Spec => []IncompleteOnlyWhenCut
BY Invariants, PTL DEF RowsInv

-----------------------------------------------------------------------------
(* Refinement.                                                              *)

\* Every step of the ingestion is one of the abstract steps or leaves the two
\* tables and the chain alone, so BlockIngest implements BlockStore.
THEOREM Refinement == Spec => ImplementsBlockStore
<1> USE DEF Store!vars, db, slots
<1>1. Init => Store!Init
  BY DEF Init, Store!Init
<1>2. ASSUME QueueInv, RowsInv, [Next]_vars PROVE [Store!Next]_(Store!vars)
  <2>t. \A w \in Workers : pc[w] # "idle" => HeightOf(cur[w]) \in Heights
    BY <1>2, JobFacts DEF QueueInv, TypeOK
  <2>1. CASE NewBlock
    BY <2>1 DEF NewBlock, Store!Next, Store!Produce
  <2>2. CASE Producers \/ UNCHANGED vars \/ \E j \in JobId : Stall(j) \/ Expire(j)
    BY <2>2 DEF Producers, LiveIngest, ReingestRange, FailSafeIngest, vars, Stall, Expire
  <2>3. ASSUME NEW w \in Workers,
               \/ \E j \in JobId : Take(w, j)
               \/ CheckExists(w) \/ FetchBlock(w) \/ FetchTxs(w)
               \/ Finish(w) \/ Throw(w) \/ Crash(w)
        PROVE  UNCHANGED Store!vars
    BY <2>3 DEF Take, CheckExists, FetchBlock, FetchTxs, Goto, Finish, Throw, Crash
  <2>4. ASSUME NEW w \in Workers, SaveBlock(w) PROVE [Store!Next]_(Store!vars)
    <3> DEFINE h == HeightOf(cur[w])
    <3>1. h \in Heights /\ h <= tip
      BY <2>4, <2>t, <1>2 DEF SaveBlock, RowsInv, RunsInOrder
    <3>2. blocks' = blocks \cup {h} /\ UNCHANGED <<tip, txs>>
      BY <2>4 DEF SaveBlock, Goto
    <3> HIDE DEF h
    <3>3. CASE h \in blocks
      BY <3>2, <3>3
    <3>4. CASE h \notin blocks
      BY <3>1, <3>2, <3>4 DEF Store!Next, Store!StoreBlock, Store!Heights, Heights
    <3> QED
      BY <3>3, <3>4
  <2>5. ASSUME NEW w \in Workers, SaveTxs(w) PROVE [Store!Next]_(Store!vars)
    <3> DEFINE h == HeightOf(cur[w])
    <3>1. h \in Heights /\ h \in blocks \cap TxHeights
      BY <2>5, <2>t, <1>2 DEF SaveTxs, RowsInv, RunsInOrder, QueueInv, TypeOK
    <3>2. txs' = txs \cup {h} /\ UNCHANGED <<tip, blocks>>
      BY <2>5 DEF SaveTxs, Goto
    <3> HIDE DEF h
    <3>3. CASE h \in txs
      BY <3>2, <3>3
    <3>4. CASE h \notin txs
      BY <3>1, <3>2, <3>4 DEF Store!Next, Store!StoreTxs, Store!Heights, Heights
    <3> QED
      BY <3>3, <3>4
  <2>6. CASE ClearTransactions
    BY <2>6 DEF ClearTransactions, Store!Next, Store!ForgetTxs
  <2> QED
    BY <1>2, <2>1, <2>2, <2>3, <2>4, <2>5, <2>6 DEF Next, Slot
<1> QED
  BY <1>1, <1>2, Invariants, PTL DEF Spec, ImplementsBlockStore, Store!Spec
=============================================================================
