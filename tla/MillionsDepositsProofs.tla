----------------------- MODULE MillionsDepositsProofs -----------------------
(***************************************************************************)
(* Proofs about MillionsDeposits, for every chain, any number of slots and *)
(* of attempts.  Two slots may both read a row before either saves it, so  *)
(* a row may go back; the invariant tells apart the runs that another one  *)
(* overtook, whose copies may be old, from the others, whose copies are    *)
(* the row as it is.                                                       *)
(***************************************************************************)
EXTENDS MillionsDeposits, TLAPS

JobRecord == [st : {"absent", "wait", "active", "completed", "failed"},
              kind : Kinds, made : 0..MaxAttempts, owner : Slots \cup {NoOne}]
SeenRecord == [winner : Winners \cup {-1}, row : Rows]

\* The chain's history of the deposit is a possible one.
ChainInv ==
    /\ live.winner <= tip
    /\ live.st = "none" => live.winner = 0
    /\ \A h \in Heights : events[h] # {} => h <= tip /\ live.st # "none"
    /\ \A h \in Heights : "withdraw" \in events[h] => live.st = "withdrawn"

\* A job stems from an event of its block; one that may run has attempts left
\* and only an active one is locked.
JobInv ==
    \A h \in Heights :
        /\ job[h].st # "absent" => job[h].kind \in events[h]
        /\ job[h].st \in {"absent", "wait", "active"} => job[h].made < MaxAttempts
        /\ job[h].owner # NoOne => job[h].st = "active"

\* Only jobs are run.
RunInv == \A s \in Slots : pc[s] # "idle" => cur[s] \in Heights /\ job[cur[s]].st # "absent"

HistoryInv == ChainInv /\ JobInv /\ RunInv

\* What RowFollowsChain says of the stored row, for any row.
Follows(r) ==
    r.height # 0 => /\ events[r.height] # {}
                    /\ r.winner <= live.winner
                    /\ r.withdrawn => live.st = "withdrawn"

\* A slot's copy follows the chain too: it was the row or the chain's answer.
RowsInv ==
    /\ Follows(row)
    /\ \A s \in Slots : Follows(seen[s].row) /\ seen[s].winner <= live.winner

FollowInv == TypeOK /\ HistoryInv /\ RowsInv

-----------------------------------------------------------------------------
LEMMA HistoryTyped == TypeOK /\ [Next]_vars => overtaken' \subseteq Slots /\ lost' \in BOOLEAN
<1> SUFFICES ASSUME TypeOK, [Next]_vars PROVE overtaken' \subseteq Slots /\ lost' \in BOOLEAN
  OBVIOUS
<1>1. ASSUME NEW s \in Slots, Write(s) PROVE overtaken' \subseteq Slots /\ lost' \in BOOLEAN
  <2>1. overtaken' \subseteq Slots
    BY <1>1 DEF Write, TypeOK
  <2>2. lost' \in BOOLEAN
    BY <1>1, Zenon DEF Write
  <2> QED
    BY <2>1, <2>2
<1>2. ASSUME NEW s \in Slots, Skip(s) \/ Release(s)
      PROVE  overtaken' \subseteq Slots /\ lost' \in BOOLEAN
  BY <1>2 DEF Skip, Release, TypeOK
<1>3. CASE UNCHANGED history
  BY <1>3 DEF history, TypeOK
<1> QED
  BY <1>1, <1>2, <1>3
     DEF Next, Calm, Slot, Fault, vars, NewBlock, Dispatch, Requeue, Take, ReadLive,
         ReadLiveFails, ReadRow, Refuse, Reject, Throw, Finish, Crash

\* No job's attempts, height or rows are ever out of their range.
LEMMA TypeStep == TypeOK /\ HistoryInv /\ [Next]_vars => TypeOK'
<1> SUFFICES ASSUME TypeOK, HistoryInv, [Next]_vars PROVE TypeOK'
  OBVIOUS
<1> USE MillionsDepositsAssumption
<1>a. /\ tip \in 0..MaxHeight
      /\ events \in [Heights -> SUBSET Kinds]
      /\ live \in [st : {"none", "alive", "withdrawn"}, winner : Winners]
      /\ job \in [Heights -> JobRecord]
      /\ row \in Rows
      /\ pc \in [Slots -> {"idle", "live", "row", "write", "done"}]
      /\ cur \in [Slots -> Heights \cup {0}]
      /\ seen \in [Slots -> SeenRecord]
  BY DEF TypeOK, JobRecord, SeenRecord
<1>b. ASSUME tip' \in 0..MaxHeight,
             events' \in [Heights -> SUBSET Kinds],
             live' \in [st : {"none", "alive", "withdrawn"}, winner : Winners],
             job' \in [Heights -> JobRecord],
             row' \in Rows,
             pc' \in [Slots -> {"idle", "live", "row", "write", "done"}],
             cur' \in [Slots -> Heights \cup {0}],
             seen' \in [Slots -> SeenRecord]
      PROVE  TypeOK'
  BY <1>b, HistoryTyped DEF TypeOK, JobRecord, SeenRecord
<1>c. [winner |-> -1, row |-> NoRow] \in SeenRecord
  BY DEF SeenRecord, Rows, NoRow, Winners
<1>d. /\ \A h \in Heights : job[h] \in JobRecord
      /\ \A s \in Slots : seen[s] \in SeenRecord
  BY <1>a
<1>1. ASSUME NEW E \in SUBSET Kinds, NewBlock(E) PROVE TypeOK'
  <2>1. tip + 1 \in Heights /\ events' \in [Heights -> SUBSET Kinds]
    BY <1>1, <1>a DEF NewBlock, Heights
  <2>2. live'.winner \in Winners /\ live' = [st |-> live'.st, winner |-> live'.winner]
    BY <1>1, <1>a DEF NewBlock, HistoryInv, ChainInv, Winners
  <2>3. live'.st \in {"none", "alive", "withdrawn"}
    BY <1>1, <1>a DEF NewBlock
  <2> QED
    BY <1>1, <1>a, <1>b, <2>1, <2>2, <2>3 DEF NewBlock, Heights
<1>2. ASSUME NEW h \in Heights, Dispatch(h) PROVE TypeOK'
  <2>1. PICK k \in events[h] : job' = [job EXCEPT ![h].st = "wait", ![h].kind = k]
    BY <1>2 DEF Dispatch
  <2>2. k \in Kinds
    BY <1>a
  <2>3. [job[h] EXCEPT !.st = "wait", !.kind = k] \in JobRecord
    BY <2>2, <1>d, Zenon DEF JobRecord
  <2>4. job' \in [Heights -> JobRecord]
    BY <1>a, <2>1, <2>3
  <2> QED
    BY <1>2, <1>a, <1>b, <2>4 DEF Dispatch, chain
<1>3. ASSUME NEW s \in Slots, NEW h \in Heights, Take(s, h) PROVE TypeOK'
  <2>1. [job[h] EXCEPT !.st = "active", !.owner = s] \in JobRecord
    BY <1>d, Zenon DEF JobRecord
  <2> QED
    BY <1>3, <1>a, <1>b, <2>1 DEF Take, chain
<1>4. ASSUME NEW h \in Heights, Requeue(h) PROVE TypeOK'
  <2>1. [job[h] EXCEPT !.st = "wait", !.owner = NoOne] \in JobRecord
    BY <1>d, Zenon DEF JobRecord
  <2> QED
    BY <1>4, <1>a, <1>b, <2>1 DEF Requeue, chain
<1>5. ASSUME NEW s \in Slots, ReadLive(s) PROVE TypeOK'
  <2>1. (IF live.st = "alive" THEN live.winner ELSE -1) \in Winners \cup {-1}
    BY <1>a
  <2>2. [seen[s] EXCEPT !.winner = IF live.st = "alive" THEN live.winner ELSE -1]
        \in SeenRecord
    BY <1>d, <2>1, Zenon DEF SeenRecord
  <2> QED
    BY <1>5, <1>a, <1>b, <2>2 DEF ReadLive, chain
<1>6. ASSUME NEW s \in Slots, ReadLiveFails(s) \/ Skip(s) PROVE TypeOK'
  BY <1>6, <1>a, <1>b, <1>c DEF ReadLiveFails, Skip, Forget, chain
<1>7. ASSUME NEW s \in Slots, ReadRow(s) PROVE TypeOK'
  <2>1. [seen[s] EXCEPT !.row = row] \in SeenRecord
    BY <1>a, <1>d, Zenon DEF SeenRecord
  <2> QED
    BY <1>7, <1>a, <1>b, <2>1 DEF ReadRow, chain
<1>8. ASSUME NEW s \in Slots, Write(s) PROVE TypeOK'
  <2>1. cur[s] \in Heights /\ Saw(s) \in Rows /\ seen[s].winner \in Winners \cup {-1}
    BY <1>8, <1>a DEF Write, HistoryInv, RunInv, Saw, SeenRecord
  <2>2. [Saw(s) EXCEPT !.withdrawn = TRUE] \in Rows
    BY <2>1, Zenon DEF Rows
  <2>3. ASSUME seen[s].winner # -1 PROVE [Saw(s) EXCEPT !.winner = seen[s].winner] \in Rows
    BY <2>1, <2>3, Zenon DEF Rows
  <2>4. ASSUME seen[s].winner # -1
        PROVE  [height |-> cur[s], winner |-> seen[s].winner, withdrawn |-> FALSE] \in Rows
    BY <2>1, <2>4 DEF Rows, Heights
  <2>5. NewRow(s) \in Rows
    BY <1>8, <2>2, <2>3, <2>4, Zenon DEF Write, Writable, NewRow
  <2> QED
    BY <1>8, <1>a, <1>b, <1>c, <2>5 DEF Write, Forget, chain
<1>9. ASSUME NEW s \in Slots, Finish(s) PROVE TypeOK'
  <2>1. cur[s] \in Heights
    BY <1>9 DEF Finish, HistoryInv, RunInv
  <2>2. [job[cur[s]] EXCEPT !.st = "completed", !.owner = NoOne] \in JobRecord
    BY <1>d, <2>1, Zenon DEF JobRecord
  <2>3. job' \in [Heights -> JobRecord]
    BY <1>9, <1>a, <2>1, <2>2 DEF Finish
  <2> QED
    BY <1>9, <1>a, <1>b, <1>c, <2>3 DEF Finish, Release, Forget, chain
<1>10. ASSUME NEW s \in Slots, Crash(s) PROVE TypeOK'
  BY <1>10, <1>a, <1>b, <1>c DEF Crash, Release, Forget, chain
<1>11. ASSUME NEW s \in Slots, Throw(s), pc[s] # "idle" PROVE TypeOK'
  <2>1. cur[s] \in Heights
    BY <1>11 DEF HistoryInv, RunInv
  <2>2. ASSUME NEW r \in JobRecord, r.made + 1 <= MaxAttempts
        PROVE  Rejected(r) \in JobRecord
    <3>1. r.made + 1 \in 0..MaxAttempts
      BY <2>2 DEF JobRecord
    <3>2. (IF r.made + 1 < MaxAttempts THEN "wait" ELSE "failed") \in {"wait", "failed"}
      OBVIOUS
    <3> QED
      BY <3>1, <3>2, Zenon DEF JobRecord, Rejected
  <2>3. job[cur[s]].owner = s => job[cur[s]].made + 1 <= MaxAttempts
    BY <1>11, <2>1, <1>a DEF HistoryInv, JobInv, JobRecord
  <2>4. job' \in [Heights -> JobRecord]
    BY <1>11, <1>a, <1>d, <2>1, <2>2, <2>3 DEF Throw
  <2> QED
    BY <1>11, <1>a, <1>b, <1>c, <2>4 DEF Throw, Release, Forget, chain
<1>12. ASSUME NEW s \in Slots, Refuse(s) \/ Reject(s) PROVE TypeOK'
  BY <1>11, <1>12 DEF Refuse, Reject
<1>13. CASE UNCHANGED vars
  BY <1>13 DEF vars, history, TypeOK
<1> QED
  BY <1>1, <1>2, <1>3, <1>4, <1>5, <1>6, <1>7, <1>8, <1>9, <1>10, <1>12, <1>13
     DEF Next, Calm, Slot, Fault

\* Blocks are only appended, and what is known of a deposit only grows.
LEMMA ChainGrows ==
    ASSUME TypeOK, HistoryInv, NEW E \in SUBSET Kinds, NewBlock(E)
    PROVE  /\ tip' \in Heights /\ tip' = tip + 1 /\ events[tip'] = {} /\ events'[tip'] = E
           /\ \A h \in Heights : h # tip' => events'[h] = events[h]
           /\ live.winner <= live'.winner /\ live'.winner <= tip'
           /\ live.st = "withdrawn" => live'.st = "withdrawn"
           /\ live.st # "none" => live'.st # "none"
           /\ "withdraw" \in E => live'.st = "withdrawn"
           /\ E # {} => live'.st # "none"
           /\ E = {} => live' = live
<1>1. tip + 1 \in Heights /\ live.winner \in Int /\ tip \in Int
  BY MillionsDepositsAssumption DEF TypeOK, NewBlock, Heights, Winners
<1>2. events' = [events EXCEPT ![tip + 1] = E] /\ tip' = tip + 1
  BY DEF NewBlock
<1>3. events[tip + 1] = {}
  BY <1>1 DEF HistoryInv, ChainInv
<1>4. live'.winner = live.winner + (IF "edit" \in E THEN 1 ELSE 0)
  BY DEF NewBlock
<1>5. live'.st = IF "withdraw" \in E THEN "withdrawn" ELSE IF E = {} THEN live.st ELSE "alive"
  BY DEF NewBlock
<1>6. live.st = "withdrawn" => E = {}
  BY DEF NewBlock
<1>7. E = {} => live' = live
  <2> HAVE E = {}
  <2>1. live' = [st |-> live.st, winner |-> live.winner]
    BY <1>1 DEF NewBlock, TypeOK
  <2> QED
    BY <2>1 DEF TypeOK
<1>8. \A h \in Heights : h # tip + 1 => events'[h] = events[h]
  BY <1>1, <1>2 DEF TypeOK
<1>9. events'[tip + 1] = E
  BY <1>1, <1>2 DEF TypeOK
<1>10. live.winner <= live'.winner /\ live'.winner <= tip + 1
  BY <1>1, <1>4 DEF HistoryInv, ChainInv
<1> QED
  BY <1>1, <1>2, <1>3, <1>5, <1>6, <1>7, <1>8, <1>9, <1>10

\* What a step may do to the jobs.
JobStep ==
    \A h \in Heights :
        /\ job[h].st # "absent" => job'[h].st # "absent" /\ job'[h].kind = job[h].kind
        /\ job'[h].st # "absent" => job'[h].kind \in events[h]
        /\ job'[h].st \in {"absent", "wait", "active"} => job'[h].made < MaxAttempts
        /\ job'[h].owner # NoOne => job'[h].st = "active"

\* A job that changed hands, was requeued, retried, completed or failed is
\* still the job of the same event.
LEMMA JobUpdate ==
    ASSUME TypeOK, JobInv, NEW h \in Heights, job[h].st # "absent",
           NEW r \in JobRecord, job' = [job EXCEPT ![h] = r],
           r.st # "absent", r.kind = job[h].kind,
           r.st \in {"wait", "active"} => r.made < MaxAttempts,
           r.owner # NoOne => r.st = "active"
    PROVE  JobStep
BY DEF TypeOK, JobInv, JobStep

LEMMA JobSteps == TypeOK /\ HistoryInv /\ [Next]_vars => UNCHANGED job \/ JobStep
<1> SUFFICES ASSUME TypeOK, HistoryInv, [Next]_vars PROVE UNCHANGED job \/ JobStep
  OBVIOUS
<1> USE MillionsDepositsAssumption
<1>a. /\ job \in [Heights -> JobRecord]
      /\ \A h \in Heights : job[h] \in JobRecord
      /\ JobInv
  BY DEF TypeOK, JobRecord, HistoryInv
<1>1. ASSUME NEW h \in Heights, Dispatch(h) PROVE JobStep
  <2>1. PICK k \in events[h] : job' = [job EXCEPT ![h].st = "wait", ![h].kind = k]
    BY <1>1 DEF Dispatch
  <2>2. /\ job'[h].st = "wait" /\ job'[h].kind = k
        /\ job'[h].made = job[h].made /\ job'[h].owner = job[h].owner
        /\ \A g \in Heights : g # h => job'[g] = job[g]
    BY <1>a, <2>1, Zenon DEF JobRecord
  <2> QED
    BY <1>1, <1>a, <2>2 DEF Dispatch, JobInv, JobStep
<1>2. ASSUME NEW s \in Slots, NEW h \in Heights, Take(s, h) PROVE JobStep
  <2> DEFINE r == [job[h] EXCEPT !.st = "active", !.owner = s]
  <2>1. r \in JobRecord /\ r.st = "active" /\ r.kind = job[h].kind /\ r.made = job[h].made
    BY <1>a, Zenon DEF JobRecord
  <2>2. job' = [job EXCEPT ![h] = r]
    BY <1>2 DEF Take
  <2> HIDE DEF r
  <2> QED
    BY <1>2, <1>a, <2>1, <2>2, JobUpdate DEF Take, JobInv
<1>3. ASSUME NEW h \in Heights, Requeue(h) PROVE JobStep
  <2> DEFINE r == [job[h] EXCEPT !.st = "wait", !.owner = NoOne]
  <2>1. /\ r \in JobRecord /\ r.st = "wait" /\ r.kind = job[h].kind
        /\ r.made = job[h].made /\ r.owner = NoOne
    BY <1>a, Zenon DEF JobRecord
  <2>2. job' = [job EXCEPT ![h] = r]
    BY <1>3 DEF Requeue
  <2> HIDE DEF r
  <2> QED
    BY <1>3, <1>a, <2>1, <2>2, JobUpdate DEF Requeue, JobInv
<1>4. ASSUME NEW s \in Slots, Finish(s) PROVE UNCHANGED job \/ JobStep
  <2> DEFINE h == cur[s]
             r == [job[h] EXCEPT !.st = "completed", !.owner = NoOne]
  <2>1. h \in Heights /\ job[h].st # "absent"
    BY <1>4 DEF Finish, HistoryInv, RunInv
  <2>2. /\ r \in JobRecord /\ r.st = "completed" /\ r.kind = job[h].kind
        /\ r.owner = NoOne
    BY <1>a, <2>1, Zenon DEF JobRecord
  <2>3. job' = [job EXCEPT ![h] = r] \/ UNCHANGED job
    BY <1>4 DEF Finish
  <2> HIDE DEF r
  <2> QED
    BY <1>a, <2>1, <2>2, <2>3, JobUpdate
<1>5. ASSUME NEW s \in Slots, Throw(s), pc[s] # "idle" PROVE UNCHANGED job \/ JobStep
  <2> DEFINE h == cur[s]
             r == Rejected(job[h])
  <2>1. h \in Heights /\ job[h].st # "absent"
    BY <1>5 DEF HistoryInv, RunInv
  <2>2. CASE job[h].owner = s
    <3>1. job[h].made + 1 <= MaxAttempts /\ job[h].made \in Nat
      BY <1>a, <2>1, <2>2 DEF JobInv, JobRecord
    <3>2. job[h].made + 1 \in 0..MaxAttempts
      BY <3>1
    <3>3. /\ r \in JobRecord
          /\ r.st = (IF job[h].made + 1 < MaxAttempts THEN "wait" ELSE "failed")
          /\ r.kind = job[h].kind /\ r.made = job[h].made + 1 /\ r.owner = NoOne
      BY <1>a, <2>1, <3>2, Zenon DEF JobRecord, Rejected
    <3>4. job' = [job EXCEPT ![h] = r]
      BY <1>5, <2>2 DEF Throw
    <3> HIDE DEF r
    <3> QED
      BY <1>a, <2>1, <3>3, <3>4, JobUpdate
  <2> QED
    BY <1>5, <2>2 DEF Throw
<1>6. ASSUME NEW s \in Slots, Refuse(s) \/ Reject(s) PROVE UNCHANGED job \/ JobStep
  BY <1>5, <1>6 DEF Refuse, Reject
<1>7. ASSUME NEW s \in Slots,
             \/ ReadLive(s) \/ ReadLiveFails(s) \/ ReadRow(s) \/ Write(s)
             \/ Skip(s) \/ Crash(s)
      PROVE  UNCHANGED job
  BY <1>7 DEF ReadLive, ReadLiveFails, ReadRow, Write, Skip, Crash
<1>8. ASSUME NEW E, NewBlock(E) PROVE UNCHANGED job
  BY <1>8 DEF NewBlock
<1> QED
  BY <1>1, <1>2, <1>3, <1>4, <1>6, <1>7, <1>8 DEF Next, Calm, Slot, Fault, vars

\* Which steps move the chain, and what the others do to the runs.
LEMMA StepKinds ==
    ASSUME [Next]_vars
    PROVE  \/ \E E \in SUBSET Kinds : NewBlock(E)
           \/ /\ UNCHANGED chain
              /\ \/ UNCHANGED <<pc, cur>>
                 \/ \E s \in Slots, h \in Heights : Take(s, h)
                 \/ \E s \in Slots : Release(s)
                 \/ \E s \in Slots :
                       pc[s] # "idle" /\ UNCHANGED cur /\ \E p \in {"row", "write", "done"} :
                                                pc' = [pc EXCEPT ![s] = p]
BY DEF Next, Calm, Slot, Fault, vars, Dispatch, Requeue, ReadLive, ReadLiveFails, ReadRow,
       Write, Skip, Refuse, Reject, Throw, Finish, Crash, Take, chain

\* The chain's history stays possible, jobs stem from its events, and only jobs
\* are run.
LEMMA HistoryStep == TypeOK /\ HistoryInv /\ [Next]_vars => HistoryInv'
<1> SUFFICES ASSUME TypeOK, HistoryInv, [Next]_vars PROVE HistoryInv'
  OBVIOUS
<1>1. ASSUME NEW E \in SUBSET Kinds, NewBlock(E) PROVE HistoryInv'
  <2>0. UNCHANGED <<job, pc, cur>> /\ tip \in Int
    BY <1>1 DEF NewBlock, TypeOK
  <2>1. ChainInv'
    <3>1. live'.st = "none" => live'.winner = 0
      <4> HAVE live'.st = "none"
      <4>1. live' = live
        BY <1>1, ChainGrows
      <4> QED
        BY <4>1 DEF HistoryInv, ChainInv
    <3>2. \A h \in Heights : events'[h] # {} => h <= tip' /\ live'.st # "none"
      BY <1>1, <2>0, ChainGrows DEF HistoryInv, ChainInv, Heights
    <3>3. \A h \in Heights : "withdraw" \in events'[h] => live'.st = "withdrawn"
      BY <1>1, ChainGrows DEF HistoryInv, ChainInv
    <3> QED
      BY <1>1, <3>1, <3>2, <3>3, ChainGrows DEF ChainInv
  <2>2. \A h \in Heights : events[h] # {} => events'[h] = events[h]
    BY <1>1, ChainGrows
  <2>3. JobInv'
    BY <2>0, <2>2 DEF HistoryInv, JobInv
  <2>4. RunInv'
    BY <2>0 DEF HistoryInv, RunInv
  <2> QED
    BY <2>1, <2>3, <2>4 DEF HistoryInv
<1>2. ASSUME UNCHANGED chain PROVE HistoryInv'
  <2>0. UNCHANGED job \/ JobStep
    BY JobSteps
  <2>1. ChainInv'
    BY <1>2 DEF HistoryInv, ChainInv, chain
  <2>2. JobInv'
    BY <1>2, <2>0 DEF HistoryInv, JobInv, JobStep, chain
  <2>3. \A h \in Heights : job[h].st # "absent" => job'[h].st # "absent"
    BY <2>0 DEF JobStep
  <2>4. RunInv'
    <3>1. CASE UNCHANGED <<pc, cur>>
      BY <2>3, <3>1 DEF HistoryInv, RunInv
    <3>2. ASSUME NEW s \in Slots, NEW h \in Heights, Take(s, h) PROVE RunInv'
      <4>1. job[h].st # "absent" /\ cur' = [cur EXCEPT ![s] = h] /\ pc' = [pc EXCEPT ![s] = "live"]
        BY <3>2 DEF Take
      <4> QED
        BY <2>3, <4>1 DEF HistoryInv, RunInv, TypeOK
    <3>3. ASSUME NEW s \in Slots, Release(s) PROVE RunInv'
      BY <2>3, <3>3 DEF Release, HistoryInv, RunInv, TypeOK
    <3>4. ASSUME NEW s \in Slots, pc[s] # "idle", UNCHANGED cur, NEW p, pc' = [pc EXCEPT ![s] = p]
          PROVE  RunInv'
      BY <2>3, <3>4 DEF HistoryInv, RunInv, TypeOK
    <3>5. CASE \E E \in SUBSET Kinds : NewBlock(E)
      BY <2>3, <3>5 DEF NewBlock, HistoryInv, RunInv
    <3> QED
      BY <3>1, <3>2, <3>3, <3>4, <3>5, StepKinds
  <2> QED
    BY <2>1, <2>2, <2>4 DEF HistoryInv
<1> QED
  BY <1>1, <1>2, StepKinds

-----------------------------------------------------------------------------
\* A row that follows the chain follows the chain with one block more.
LEMMA FollowsGrows ==
    ASSUME TypeOK, HistoryInv, NEW E \in SUBSET Kinds, NewBlock(E),
           NEW r \in Rows, Follows(r)
    PROVE  r.height # 0 => /\ events'[r.height] # {}
                           /\ r.winner <= live'.winner
                           /\ r.withdrawn => live'.st = "withdrawn"
<1>1. r.winner \in Int /\ live.winner \in Int /\ live'.winner \in Int
  BY MillionsDepositsAssumption, TypeStep DEF TypeOK, Rows, Winners, Next, Calm
<1>2. r.height # 0 => r.height \in Heights
  BY MillionsDepositsAssumption DEF Rows, Heights
<1> QED
  BY <1>1, <1>2, ChainGrows DEF Follows

\* The row and every copy of it keep following the chain: what is saved is a
\* copy that did, patched with an answer of the chain or with a withdrawal that
\* took place, or a row made of such an answer.
LEMMA FollowStep == FollowInv /\ [Next]_vars => FollowInv'
<1> SUFFICES ASSUME FollowInv, [Next]_vars PROVE FollowInv'
  OBVIOUS
<1> USE MillionsDepositsAssumption
<1>0. TypeOK' /\ HistoryInv'
  BY TypeStep, HistoryStep DEF FollowInv
<1>a. /\ TypeOK /\ HistoryInv /\ RowsInv /\ row \in Rows
      /\ seen \in [Slots -> SeenRecord]
      /\ \A s \in Slots : seen[s] \in SeenRecord
  BY DEF FollowInv, TypeOK, SeenRecord
<1>b. Follows(NoRow) /\ -1 <= live.winner
  BY <1>a DEF Follows, NoRow, TypeOK, Winners
<1>1. ASSUME NEW E \in SUBSET Kinds, NewBlock(E) PROVE RowsInv'
  <2>1. UNCHANGED <<row, seen>>
    BY <1>1 DEF NewBlock
  <2>2. Follows(row)'
    BY <1>1, <1>a, <2>1, FollowsGrows DEF RowsInv, Follows
  <2>3. ASSUME NEW s \in Slots PROVE Follows(seen[s].row)' /\ seen'[s].winner <= live'.winner
    <3>1. seen[s].row \in Rows /\ seen[s].winner \in Int
      BY <1>a DEF SeenRecord, Winners
    <3>2. live.winner <= live'.winner /\ live.winner \in Int /\ live'.winner \in Int
      BY <1>0, <1>1, <1>a, ChainGrows DEF TypeOK, Winners
    <3>3. Follows(seen[s].row) /\ seen[s].winner <= live.winner
      BY <1>a DEF RowsInv
    <3>4. seen[s].row.height # 0 => /\ events'[seen[s].row.height] # {}
                                    /\ seen[s].row.winner <= live'.winner
                                    /\ seen[s].row.withdrawn => live'.st = "withdrawn"
      BY <1>1, <1>a, <3>1, <3>3, FollowsGrows
    <3> QED
      BY <2>1, <3>1, <3>2, <3>3, <3>4 DEF Follows
  <2> QED
    BY <2>2, <2>3 DEF RowsInv
<1>2. ASSUME UNCHANGED <<chain, row, seen>> PROVE RowsInv'
  BY <1>2, <1>a DEF RowsInv, Follows, chain
<1>3. ASSUME NEW s \in Slots, Release(s), UNCHANGED <<chain, row>> PROVE RowsInv'
  BY <1>3, <1>a, <1>b DEF RowsInv, Follows, chain, Release, Forget
<1>4. ASSUME NEW s \in Slots, ReadLive(s) PROVE RowsInv'
  <2>1. /\ \A t \in Slots : seen'[t].row = seen[t].row
        /\ \A t \in Slots \ {s} : seen'[t].winner = seen[t].winner
        /\ seen'[s].winner \in {live.winner, -1}
    BY <1>4, <1>a, Zenon DEF ReadLive, SeenRecord
  <2>2. live.winner <= live.winner
    BY <1>a DEF TypeOK, Winners
  <2> QED
    BY <1>4, <1>a, <1>b, <2>1, <2>2 DEF ReadLive, RowsInv, Follows, chain
<1>5. ASSUME NEW s \in Slots, ReadRow(s) PROVE RowsInv'
  <2>1. /\ \A t \in Slots : seen'[t].winner = seen[t].winner
        /\ \A t \in Slots \ {s} : seen'[t].row = seen[t].row
        /\ seen'[s].row = row
    BY <1>5, <1>a, Zenon DEF ReadRow, SeenRecord
  <2> QED
    BY <1>5, <1>a, <2>1 DEF ReadRow, RowsInv, Follows, chain
\* A step after which the slot needs no copy, and that leaves a row that follows.
<1>6. ASSUME NEW s \in Slots, Forget(s), UNCHANGED chain, Follows(row)' PROVE RowsInv'
  BY <1>6, <1>a, <1>b DEF RowsInv, Follows, chain, Forget
<1>10. ASSUME NEW s \in Slots, Write(s) PROVE Follows(row)'
  <2>1. /\ cur[s] \in Heights /\ job[cur[s]].kind \in events[cur[s]]
        /\ Saw(s) \in Rows /\ Follows(Saw(s)) /\ seen[s].winner <= live.winner
        /\ row' = NewRow(s) /\ UNCHANGED chain
    BY <1>10, <1>a DEF Write, HistoryInv, RunInv, JobInv, RowsInv, SeenRecord, Saw
  <2>2. CASE IsWithdrawal(s)
    <3>1. live.st = "withdrawn"
      BY <1>a, <2>1, <2>2 DEF HistoryInv, ChainInv, IsWithdrawal
    <3>2. NewRow(s).height = Saw(s).height /\ NewRow(s).winner = Saw(s).winner
      BY <2>1, <2>2, Zenon DEF NewRow, Rows
    <3> QED
      BY <2>1, <3>1, <3>2 DEF Follows, chain
  <2>3. CASE ~IsWithdrawal(s) /\ Saw(s).height # 0
    <3>1. /\ NewRow(s).height = Saw(s).height /\ NewRow(s).withdrawn = Saw(s).withdrawn
          /\ NewRow(s).winner = seen[s].winner
      BY <2>1, <2>3, Zenon DEF NewRow, Rows
    <3> QED
      BY <2>1, <2>3, <3>1 DEF Follows, chain
  <2>4. CASE ~IsWithdrawal(s) /\ Saw(s).height = 0
    <3>1. NewRow(s) = [height |-> cur[s], winner |-> seen[s].winner, withdrawn |-> FALSE]
      BY <2>4 DEF NewRow
    <3>2. row'.height = cur[s] /\ row'.winner = seen[s].winner /\ row'.withdrawn = FALSE
      BY <2>1, <3>1
    <3> QED
      BY <2>1, <3>2 DEF Follows, chain
  <2> QED
    BY <2>2, <2>3, <2>4
<1>11. ASSUME NEW s \in Slots, Skip(s) PROVE Follows(row)'
  BY <1>11, <1>a DEF Skip, RowsInv, Follows, chain
<1>7. ASSUME NEW s \in Slots, Slot(s) \/ Fault(s) PROVE RowsInv'
  BY <1>2, <1>3, <1>4, <1>5, <1>6, <1>7, <1>10, <1>11
     DEF Slot, Fault, Take, ReadLiveFails, Write, Skip, Refuse, Reject, Throw, Finish, Crash
<1>8. ASSUME NEW h \in Heights, Dispatch(h) \/ Requeue(h) PROVE RowsInv'
  BY <1>2, <1>8 DEF Dispatch, Requeue
<1>9. ASSUME UNCHANGED vars PROVE RowsInv'
  BY <1>2, <1>9 DEF vars, chain
<1> QED
  BY <1>0, <1>1, <1>7, <1>8, <1>9 DEF FollowInv, Next, Calm

LEMMA FollowInit == Init => FollowInv
<1> SUFFICES ASSUME Init PROVE FollowInv
  OBVIOUS
<1> USE MillionsDepositsAssumption DEF Init
<1>1. TypeOK
  <2>1. lost \in BOOLEAN
    BY Zenon
  <2>2. row \in Rows
    BY DEF Rows, NoRow, Winners
  <2> QED
    BY <2>1, <2>2 DEF TypeOK, NoRow, Winners, Kinds
<1>2. HistoryInv
  BY DEF HistoryInv, ChainInv, JobInv, RunInv
<1>3. RowsInv
  BY DEF RowsInv, Follows, NoRow
<1> QED
  BY <1>1, <1>2, <1>3 DEF FollowInv

LEMMA AlwaysFollows == Spec => []FollowInv
BY FollowInit, FollowStep, PTL DEF Spec

\* Every reachable state is well typed: no job makes more than its attempts.
THEOREM TypeCorrect == Spec => []TypeOK
<1>1. FollowInv => TypeOK
  BY DEF FollowInv
<1> QED
  BY <1>1, AlwaysFollows, PTL

\* With any number of consumers, interleaved in any way, crashing and losing
\* their locks, the row never says what the chain did not.
THEOREM RowFollows == Spec => []RowFollowsChain
<1>1. FollowInv => RowFollowsChain
  BY DEF FollowInv, RowsInv, Follows, RowFollowsChain
<1> QED
  BY <1>1, AlwaysFollows, PTL

-----------------------------------------------------------------------------
(* Rows that go back, and rows that are current.                            *)

\* The last event of the deposit so far is in block h.
Last(h) == events[h] # {} /\ \A g \in Heights : g > h => events[g] = {}

\* The job of block h has completed, or its run is about to complete it.
Done(h) == job[h].st = "completed" \/ \E s \in Slots : pc[s] = "done" /\ cur[s] = h

\* What a run is about to save stems from the row as it is, and the winner the
\* chain gave it is no older than the row's, unless another run overtook it.
CopyInv ==
    \A s \in Slots :
        /\ ~Reading(s) => seen[s].winner = -1
        /\ s \notin overtaken =>
              /\ pc[s] = "write" => seen[s].row = row
              /\ Reading(s) /\ seen[s].winner # -1 /\ row.height # 0
                 => row.winner <= seen[s].winner

\* A withdrawal that was ingested is recorded, unless the row went back.
WithdrawnInv ==
    /\ row.withdrawn => row.height # 0
    /\ \A h \in Heights : Done(h) /\ job[h].kind = "withdraw" => lost \/ row.withdrawn

\* A run of the last event's job has the winner of the chain.  Once it is done so
\* has the row, unless the row went back.
CurrentInv ==
    /\ live.st # "none" => \E h \in Heights : Last(h)
    /\ \A h \in Heights :
          live.st = "alive" /\ Last(h) =>
              /\ Done(h) => lost \/ (row.height # 0 /\ row.winner = live.winner)
              /\ \A s \in Slots :
                    Reading(s) /\ seen[s].winner # -1 /\ cur[s] = h
                    => seen[s].winner = live.winner

IngestedInv == FollowInv /\ CopyInv /\ WithdrawnInv /\ CurrentInv

\* A job completes only when its run is about to complete it.
LEMMA CompletedByRun ==
    ASSUME TypeOK, HistoryInv, [Next]_vars,
           NEW h \in Heights, job'[h].st = "completed", job[h].st # "completed"
    PROVE  \E s \in Slots : pc[s] = "done" /\ cur[s] = h
<1> USE MillionsDepositsAssumption
<1>a. /\ job \in [Heights -> JobRecord] /\ job[h] \in JobRecord
      /\ \A g \in Heights : job[g] \in JobRecord
  BY DEF TypeOK, JobRecord
<1>1. ASSUME NEW g \in Heights, Dispatch(g) PROVE FALSE
  <2>1. PICK k \in events[g] : job' = [job EXCEPT ![g].st = "wait", ![g].kind = k]
    BY <1>1 DEF Dispatch
  <2>2. job'[g].st = "wait" /\ (h # g => job'[h] = job[h])
    BY <1>a, <2>1, Zenon DEF JobRecord
  <2> QED
    BY <2>2
<1>2. ASSUME NEW s \in Slots, NEW g \in Heights, Take(s, g) PROVE FALSE
  <2>1. job'[g].st = "active" /\ (h # g => job'[h] = job[h])
    BY <1>a, <1>2, Zenon DEF Take, TypeOK
  <2> QED
    BY <2>1
<1>3. ASSUME NEW g \in Heights, Requeue(g) PROVE FALSE
  <2>1. job'[g].st = "wait" /\ (h # g => job'[h] = job[h])
    BY <1>a, <1>3, Zenon DEF Requeue, TypeOK
  <2> QED
    BY <2>1
<1>4. ASSUME NEW s \in Slots, Finish(s) PROVE pc[s] = "done" /\ cur[s] = h
  <2>1. pc[s] = "done"
    BY <1>4 DEF Finish
  <2>2. job' = job \/ job' = [job EXCEPT ![cur[s]] = [job[cur[s]] EXCEPT !.st = "completed", !.owner = NoOne]]
    BY <1>4 DEF Finish
  <2>3. cur[s] # h => job'[h] = job[h]
    BY <1>a, <2>2, Zenon
  <2> QED
    BY <2>1, <2>3
<1>5. ASSUME NEW s \in Slots, Throw(s) PROVE FALSE
  <2>1. job' = job \/ job' = [job EXCEPT ![cur[s]] = Rejected(job[cur[s]])]
    BY <1>5 DEF Throw
  <2>2. Rejected(job[h]).st \in {"wait", "failed"}
    <3>1. Rejected(job[h]).st = IF job[h].made < MaxAttempts - 1 THEN "wait" ELSE "failed"
      <4>1. (job[h].made + 1 < MaxAttempts) = (job[h].made < MaxAttempts - 1)
        BY <1>a DEF JobRecord
      <4> QED
        BY <1>a, <4>1, Zenon DEF JobRecord, Rejected
    <3> QED
      BY <3>1
  <2>3. job'[h] = job[h] \/ job'[h] = Rejected(job[h])
    BY <1>a, <2>1, Zenon
  <2> QED
    BY <2>2, <2>3
<1>6. ASSUME UNCHANGED job PROVE FALSE
  BY <1>6
<1>7. ASSUME NEW s \in Slots,
             \/ ReadLive(s) \/ ReadLiveFails(s) \/ ReadRow(s) \/ Write(s)
             \/ Skip(s) \/ Crash(s)
      PROVE  FALSE
  BY <1>6, <1>7 DEF ReadLive, ReadLiveFails, ReadRow, Write, Skip, Crash
<1>8. ASSUME NEW E, NewBlock(E) PROVE FALSE
  BY <1>6, <1>8 DEF NewBlock
<1>9. ASSUME NEW s \in Slots, Refuse(s) \/ Reject(s) PROVE FALSE
  BY <1>5, <1>9 DEF Refuse, Reject
<1> QED
  BY <1>1, <1>2, <1>3, <1>4, <1>6, <1>7, <1>8, <1>9 DEF Next, Calm, Slot, Fault, vars

\* A job is done when its run has written or skipped, and no other way.
LEMMA DoneStep ==
    ASSUME TypeOK, HistoryInv, [Next]_vars, NEW h \in Heights, Done(h)'
    PROVE  /\ Done(h) \/ \E s \in Slots : (Write(s) \/ Skip(s)) /\ cur[s] = h
           /\ job[h].st # "absent" /\ job'[h].kind = job[h].kind
<1>1. Done(h) \/ \E s \in Slots : (Write(s) \/ Skip(s)) /\ cur[s] = h
  <2>1. CASE job'[h].st = "completed"
    BY <2>1, CompletedByRun DEF Done
  <2>2. ASSUME NEW s \in Slots, pc'[s] = "done", cur'[s] = h, pc[s] # "done"
        PROVE  (Write(s) \/ Skip(s)) /\ cur[s] = h
    <3>1. ASSUME NEW t \in Slots, NEW g \in Heights, Take(t, g) PROVE FALSE
      BY <2>2, <3>1 DEF Take, TypeOK
    <3>2. ASSUME NEW t \in Slots, Release(t) PROVE FALSE
      BY <2>2, <3>2 DEF Release, TypeOK
    <3>3. ASSUME NEW t \in Slots, ReadLive(t) \/ ReadLiveFails(t) \/ ReadRow(t) PROVE FALSE
      BY <2>2, <3>3 DEF ReadLive, ReadLiveFails, ReadRow, TypeOK
    <3>4. ASSUME UNCHANGED pc PROVE FALSE
      BY <2>2, <3>4
    <3>5. ASSUME NEW t \in Slots, Write(t) \/ Skip(t) PROVE t = s /\ cur[s] = h
      BY <2>2, <3>5 DEF Write, Skip, TypeOK
    <3>6. ASSUME NEW t \in Slots, Refuse(t) \/ Reject(t) \/ Finish(t) \/ Crash(t) PROVE FALSE
      BY <3>2, <3>6 DEF Refuse, Reject, Throw, Finish, Crash
    <3>7. ASSUME NEW g \in Heights, Dispatch(g) \/ Requeue(g) PROVE FALSE
      BY <3>4, <3>7 DEF Dispatch, Requeue
    <3>8. ASSUME NEW E, NewBlock(E) PROVE FALSE
      BY <3>4, <3>8 DEF NewBlock
    <3> QED
      BY <3>1, <3>3, <3>4, <3>5, <3>6, <3>7, <3>8 DEF Next, Calm, Slot, Fault, vars
  <2>3. ASSUME NEW s \in Slots, pc'[s] = "done", cur'[s] = h, pc[s] = "done"
        PROVE  cur[s] = h
    <3>1. ASSUME NEW t \in Slots, NEW g \in Heights, Take(t, g) PROVE cur[s] = cur'[s]
      BY <2>3, <3>1 DEF Take, TypeOK
    <3>2. ASSUME NEW t \in Slots, Release(t) PROVE cur[s] = cur'[s]
      BY <2>3, <3>2 DEF Release, TypeOK
    <3> QED
      BY <2>3, <3>1, <3>2, StepKinds DEF NewBlock
  <2> QED
    BY <2>1, <2>2, <2>3 DEF Done
<1>2. job[h].st # "absent"
  BY <1>1 DEF Done, HistoryInv, RunInv, Write, Skip
<1> QED
  BY <1>1, <1>2, JobSteps DEF JobStep

\* Only a save changes the row.
LEMMA RowStep == [Next]_vars => UNCHANGED <<row, lost>> \/ \E s \in Slots : Write(s)
BY DEF Next, Calm, Slot, Fault, vars, history, NewBlock, Dispatch, Requeue, Take, ReadLive,
       ReadLiveFails, ReadRow, Skip, Refuse, Reject, Throw, Finish, Crash, Release

\* What a save makes of the copy.
LEMMA Saved ==
    ASSUME FollowInv, NEW s \in Slots, Write(s)
    PROVE  /\ row' = NewRow(s) /\ row'.height # 0 /\ Saw(s) \in Rows
           /\ IsWithdrawal(s) => /\ Saw(s).height # 0 /\ row'.height = Saw(s).height
                                 /\ row'.winner = Saw(s).winner /\ row'.withdrawn = TRUE
           /\ ~IsWithdrawal(s) => row'.winner = seen[s].winner /\ seen[s].winner # -1
           /\ ~IsWithdrawal(s) /\ Saw(s).height # 0 => row'.withdrawn = Saw(s).withdrawn
<1> USE MillionsDepositsAssumption
<1>1. /\ row' = NewRow(s) /\ Writable(s) /\ cur[s] \in Heights /\ Saw(s) \in Rows
  BY DEF Write, FollowInv, TypeOK, HistoryInv, RunInv, Saw
<1>2. CASE IsWithdrawal(s)
  <2>1. /\ row'.height = Saw(s).height /\ row'.winner = Saw(s).winner /\ row'.withdrawn = TRUE
    BY <1>1, <1>2, Zenon DEF NewRow, Rows
  <2> QED
    BY <1>1, <1>2, <2>1 DEF Writable
<1>3. CASE ~IsWithdrawal(s) /\ Saw(s).height # 0
  <2>1. /\ row'.height = Saw(s).height /\ row'.winner = seen[s].winner
        /\ row'.withdrawn = Saw(s).withdrawn
    BY <1>1, <1>3, Zenon DEF NewRow, Rows
  <2> QED
    BY <1>1, <1>3, <2>1 DEF Writable
<1>4. CASE ~IsWithdrawal(s) /\ Saw(s).height = 0
  <2>1. row' = [height |-> cur[s], winner |-> seen[s].winner, withdrawn |-> FALSE]
    BY <1>1, <1>4 DEF NewRow
  <2>2. cur[s] # 0
    BY <1>1 DEF Heights
  <2> QED
    BY <1>1, <1>4, <2>1, <2>2 DEF Writable
<1> QED
  BY <1>2, <1>3, <1>4

\* A run that was not overtaken holds the row as it is: nobody saved it since.
LEMMA CopyStep ==
    ASSUME FollowInv, CopyInv, [Next]_vars
    PROVE  CopyInv'
<1> USE MillionsDepositsAssumption
<1>a. /\ TypeOK /\ HistoryInv /\ row \in Rows
      /\ seen \in [Slots -> SeenRecord]
      /\ \A s \in Slots : seen[s] \in SeenRecord
      /\ pc \in [Slots -> {"idle", "live", "row", "write", "done"}]
      /\ overtaken \subseteq Slots
  BY DEF FollowInv, TypeOK, SeenRecord
<1>b. row.height # 0 => row.winner <= live.winner
  BY DEF FollowInv, RowsInv, Follows
<1>1. ASSUME NEW s \in Slots, NEW h \in Heights, Take(s, h) PROVE CopyInv'
  BY <1>1, <1>a DEF Take, CopyInv, Reading, history
<1>2. ASSUME NEW s \in Slots, ReadLive(s) PROVE CopyInv'
  <2>1. /\ \A t \in Slots : seen'[t].row = seen[t].row
        /\ \A t \in Slots \ {s} : seen'[t].winner = seen[t].winner
        /\ seen'[s].winner \in {live.winner, -1}
    BY <1>2, <1>a, Zenon DEF ReadLive, SeenRecord
  <2> QED
    BY <1>2, <1>a, <1>b, <2>1 DEF ReadLive, CopyInv, Reading, history
<1>3. ASSUME NEW s \in Slots, ReadLiveFails(s) PROVE CopyInv'
  BY <1>3, <1>a DEF ReadLiveFails, CopyInv, Reading, history
<1>4. ASSUME NEW s \in Slots, ReadRow(s) PROVE CopyInv'
  <2>1. /\ \A t \in Slots : seen'[t].winner = seen[t].winner
        /\ \A t \in Slots \ {s} : seen'[t].row = seen[t].row
        /\ seen'[s].row = row
    BY <1>4, <1>a, Zenon DEF ReadRow, SeenRecord
  <2> QED
    BY <1>4, <1>a, <2>1 DEF ReadRow, CopyInv, Reading, history
\* The slot that ends reads nothing any more; the others are as they were.
<1>5. ASSUME NEW s \in Slots, Forget(s), UNCHANGED row,
             NEW p \in {"idle", "done"}, pc' = [pc EXCEPT ![s] = p],
             overtaken' = overtaken \ {s}
      PROVE  CopyInv'
  <2>1. /\ seen'[s].winner = -1 /\ pc'[s] = p
        /\ \A t \in Slots \ {s} : seen'[t] = seen[t] /\ pc'[t] = pc[t]
    BY <1>5, <1>a DEF Forget
  <2> QED
    BY <1>5, <2>1 DEF CopyInv, Reading
<1>6. ASSUME NEW s \in Slots, Write(s) PROVE CopyInv'
  <2>1. /\ seen'[s].winner = -1 /\ pc'[s] = "done"
        /\ \A t \in Slots \ {s} : /\ seen'[t] = seen[t] /\ pc'[t] = pc[t]
                                  /\ Reading(t) => t \in overtaken'
    BY <1>6, <1>a DEF Write, Forget
  <2> QED
    BY <2>1 DEF CopyInv, Reading
<1>7. ASSUME UNCHANGED <<row, pc, seen, overtaken>> PROVE CopyInv'
  BY <1>7 DEF CopyInv, Reading
<1>8. ASSUME NEW s \in Slots, Release(s), UNCHANGED row PROVE CopyInv'
  BY <1>5, <1>8 DEF Release
<1>9. ASSUME NEW s \in Slots, Skip(s) PROVE CopyInv'
  BY <1>5, <1>9 DEF Skip
<1>10. ASSUME NEW s \in Slots, Slot(s) \/ Fault(s) PROVE CopyInv'
  BY <1>1, <1>2, <1>3, <1>4, <1>6, <1>8, <1>9, <1>10
     DEF Slot, Fault, Refuse, Reject, Throw, Finish, Crash
<1> QED
  BY <1>7, <1>10 DEF Next, Calm, NewBlock, Dispatch, Requeue, vars, history

\* The row goes back only by the save of a run that another one overtook.
LEMMA BackStep ==
    ASSUME FollowInv, CopyInv, [Next]_vars, GoesBack
    PROVE  \E s \in overtaken : Write(s)
<1> USE MillionsDepositsAssumption
<1>a. row \in Rows /\ row.winner <= row.winner
  BY DEF FollowInv, TypeOK, Rows, Winners
<1>1. ASSUME NEW s \in Slots, Write(s), s \notin overtaken PROVE FALSE
  <2>1. Saw(s) = row
    BY <1>1 DEF Write, CopyInv, Saw
  <2>2. /\ row'.height # 0
        /\ row.withdrawn => row'.withdrawn
    BY <1>1, <2>1, Saved DEF GoesBack
  <2>3. row.winner <= row'.winner
    <3>1. CASE IsWithdrawal(s)
      BY <1>1, <1>a, <2>1, <3>1, Saved
    <3>2. CASE ~IsWithdrawal(s)
      BY <1>1, <3>2, Saved DEF Write, CopyInv, Reading, GoesBack
    <3> QED
      BY <3>1, <3>2
  <2>4. row.winner \in Int /\ row'.winner \in Int
    BY <1>a, TypeStep DEF FollowInv, TypeOK, Rows, Winners
  <2> QED
    BY <2>2, <2>3, <2>4 DEF GoesBack
<1>2. ASSUME UNCHANGED row PROVE FALSE
  BY <1>2, <1>a DEF GoesBack, Rows, Winners
<1>3. PICK s \in Slots : Write(s)
  BY <1>2, RowStep
<1> QED
  BY <1>1, <1>3

\* While no row went back, what a row says stays said.
LEMMA ForwardStep ==
    ASSUME FollowInv, [Next]_vars, ~lost'
    PROVE  /\ ~lost
           /\ row.height # 0 => /\ row'.height # 0
                                /\ row.withdrawn => row'.withdrawn
                                /\ row.winner <= row'.winner
<1> USE MillionsDepositsAssumption
<1>1. row.winner \in Int /\ row'.winner \in Int
  BY TypeStep DEF FollowInv, TypeOK, Rows, Winners
<1>2. CASE UNCHANGED <<row, lost>>
  BY <1>1, <1>2
<1>3. ASSUME NEW s \in Slots, Write(s) PROVE ~lost /\ ~GoesBack
  BY <1>3, Zenon DEF Write
<1>4. CASE ~lost /\ ~GoesBack
  BY <1>1, <1>4 DEF GoesBack
<1> QED
  BY <1>2, <1>3, <1>4, RowStep

LEMMA WithdrawnStep ==
    ASSUME FollowInv, WithdrawnInv, [Next]_vars
    PROVE  WithdrawnInv'
<1>a. TypeOK /\ HistoryInv /\ lost' \in BOOLEAN
  BY HistoryTyped DEF FollowInv
<1>1. row'.withdrawn => row'.height # 0
  BY RowStep, Saved DEF WithdrawnInv
<1>2. ASSUME NEW h \in Heights, Done(h)', job'[h].kind = "withdraw", ~lost'
      PROVE  row'.withdrawn
  <2>1. /\ Done(h) \/ \E s \in Slots : (Write(s) \/ Skip(s)) /\ cur[s] = h
        /\ job[h].kind = "withdraw"
    BY <1>2, <1>a, DoneStep
  <2>2. CASE Done(h)
    BY <1>2, <2>1, <2>2, ForwardStep DEF WithdrawnInv
  <2>3. ASSUME NEW s \in Slots, Write(s), cur[s] = h PROVE row'.withdrawn
    BY <2>1, <2>3, Saved DEF IsWithdrawal
  <2>4. ASSUME NEW s \in Slots, Skip(s), cur[s] = h PROVE FALSE
    BY <2>1, <2>4 DEF Skip, IsWithdrawal
  <2> QED
    BY <2>1, <2>2, <2>3, <2>4
<1> QED
  BY <1>a, <1>1, <1>2 DEF WithdrawnInv

\* What a new block does to the last event and to the jobs that are done.
LEMMA CurrentAfterBlock ==
    ASSUME FollowInv, CurrentInv, NEW E \in SUBSET Kinds, NewBlock(E)
    PROVE  CurrentInv'
<1>a. /\ TypeOK /\ HistoryInv /\ UNCHANGED <<job, row, pc, cur, seen, lost>>
      /\ tip \in Int
  BY DEF FollowInv, NewBlock, TypeOK, history
<1>b. \A h \in Heights : events[h] # {} => h < tip' /\ h # tip'
  BY <1>a, ChainGrows DEF HistoryInv, ChainInv, Heights
<1>1. CASE E = {}
  <2>1. live' = live /\ \A h \in Heights : events'[h] = events[h]
    BY <1>1, <1>a, ChainGrows
  <2> QED
    BY <1>a, <2>1 DEF CurrentInv, Last, Done, Reading
<1>2. CASE E # {}
  <2>0. PICK n \in Heights : n = tip'
    BY <1>a, ChainGrows
  <2>1. Last(n)'
    BY <1>2, <1>a, <1>b, <2>0, ChainGrows DEF Last, Heights
  <2>2. ASSUME NEW h \in Heights, Last(h)' PROVE h = n
    BY <1>2, <1>a, <1>b, <2>0, <2>2, ChainGrows DEF Last, Heights
  <2>3. events[n] = {}
    BY <1>a, <2>0, ChainGrows
  <2>4. job[n].st = "absent"
    BY <1>a, <2>3 DEF HistoryInv, JobInv
  <2>5. \A s \in Slots : pc[s] # "idle" => cur[s] # n
    BY <1>a, <2>4 DEF HistoryInv, RunInv
  <2>6. ~Done(n)'
    BY <1>a, <2>4, <2>5 DEF Done
  <2> QED
    BY <1>a, <2>1, <2>2, <2>5, <2>6 DEF CurrentInv, Reading
<1> QED
  BY <1>1, <1>2

LEMMA CurrentStep ==
    ASSUME FollowInv, CopyInv, CurrentInv, [Next]_vars
    PROVE  CurrentInv'
<1>a. /\ TypeOK /\ HistoryInv /\ RowsInv /\ lost' \in BOOLEAN
      /\ seen \in [Slots -> SeenRecord]
      /\ \A s \in Slots : seen[s] \in SeenRecord
      /\ pc \in [Slots -> {"idle", "live", "row", "write", "done"}]
      /\ cur \in [Slots -> Heights \cup {0}]
  BY HistoryTyped DEF FollowInv, TypeOK, SeenRecord
<1>1. SUFFICES ASSUME UNCHANGED chain, NEW h \in Heights, live.st = "alive", Last(h)
               PROVE  /\ Done(h)' /\ ~lost' => row'.height # 0 /\ row'.winner = live.winner
                      /\ \A s \in Slots :
                            Reading(s)' /\ seen'[s].winner # -1 /\ cur'[s] = h
                            => seen'[s].winner = live.winner
  <2>1. ASSUME UNCHANGED chain, \E h \in Heights : Last(h) PROVE (\E h \in Heights : Last(h))'
    BY <2>1 DEF chain, Last
  <2>2. ASSUME UNCHANGED chain PROVE \A h \in Heights : Last(h)' <=> Last(h)
    BY <2>2 DEF chain, Last
  <2> QED
    BY <1>a, <1>1, <2>1, <2>2, StepKinds, CurrentAfterBlock DEF CurrentInv, chain
\* The winner of the last event: it is kept, and no save can be ahead of the chain.
<1>2. ASSUME Done(h), ~lost' PROVE row'.height # 0 /\ row'.winner = live.winner
  <2>1. /\ row.height # 0 /\ row.winner = live.winner
    BY <1>1, <1>2, ForwardStep DEF CurrentInv
  <2>2. row'.height # 0 /\ live.winner <= row'.winner
    BY <1>2, <2>1, ForwardStep
  <2>3. row'.winner <= live.winner
    BY <1>1, <2>2, FollowStep DEF FollowInv, RowsInv, Follows, chain
  <2>4. row'.winner \in Int /\ live.winner \in Int
    BY <1>a, MillionsDepositsAssumption, TypeStep DEF TypeOK, Rows, Winners
  <2> QED
    BY <2>2, <2>3, <2>4
\* The run of the last event: it is no withdrawal, and it is not outdated.
<1>3. ASSUME NEW s \in Slots, Write(s), cur[s] = h
      PROVE  row'.height # 0 /\ row'.winner = live.winner
  <2>1. ~IsWithdrawal(s)
    BY <1>1, <1>3, <1>a DEF HistoryInv, ChainInv, JobInv, RunInv, IsWithdrawal, Write
  <2>2. row'.height # 0 /\ row'.winner = seen[s].winner /\ seen[s].winner # -1
    BY <1>3, <2>1, Saved
  <2> QED
    BY <1>1, <1>3, <2>2 DEF CurrentInv, Reading, Write
<1>4. ASSUME NEW s \in Slots, Skip(s), cur[s] = h PROVE FALSE
  <2>1. Saw(s) \in Rows /\ Follows(Saw(s)) /\ Saw(s).height > cur[s] /\ cur[s] \in Heights
    BY <1>4, <1>a DEF Skip, Outdated, RowsInv, Saw, HistoryInv, RunInv, SeenRecord
  <2>2. Saw(s).height \in Heights /\ events[Saw(s).height] # {}
    BY <2>1, MillionsDepositsAssumption DEF Follows, Rows, Heights
  <2> QED
    BY <1>1, <1>4, <2>1, <2>2 DEF Last
<1>5. Done(h)' /\ ~lost' => row'.height # 0 /\ row'.winner = live.winner
  BY <1>a, <1>2, <1>3, <1>4, DoneStep
<1>6. ASSUME NEW s \in Slots, Reading(s)', seen'[s].winner # -1, cur'[s] = h
      PROVE  seen'[s].winner = live.winner
  <2>0. Reading(s) /\ cur[s] = h /\ seen'[s].winner = seen[s].winner
        => seen'[s].winner = live.winner
    BY <1>1, <1>6 DEF CurrentInv
  <2>1. ASSUME NEW t \in Slots, ReadLive(t) PROVE seen'[s].winner = live.winner
    <3>1. CASE t = s
      <4>1. seen'[s].winner = IF live.st = "alive" THEN live.winner ELSE -1
        BY <1>a, <2>1, <3>1, Zenon DEF ReadLive, SeenRecord
      <4> QED
        BY <1>1, <4>1
    <3>2. CASE t # s
      BY <1>6, <1>a, <2>0, <2>1, <3>2 DEF ReadLive, Reading
    <3> QED
      BY <3>1, <3>2
  <2>2. ASSUME NEW t \in Slots, ReadLiveFails(t) PROVE seen'[s].winner = live.winner
    <3>1. t # s
      BY <1>6, <2>2 DEF ReadLiveFails, CopyInv, Reading
    <3> QED
      BY <1>6, <1>a, <2>0, <2>2, <3>1 DEF ReadLiveFails, Reading
  <2>3. ASSUME NEW t \in Slots, ReadRow(t) PROVE seen'[s].winner = live.winner
    <3>1. seen'[s].winner = seen[s].winner
      BY <1>a, <2>3, Zenon DEF ReadRow, SeenRecord
    <3>2. Reading(s) /\ cur[s] = h
      BY <1>6, <1>a, <2>3 DEF ReadRow, Reading
    <3> QED
      BY <2>0, <3>1, <3>2
  <2>4. ASSUME NEW t \in Slots, NEW p \in {"idle", "live", "done"}, pc' = [pc EXCEPT ![t] = p],
               \A u \in Slots \ {t} : cur'[u] = cur[u] /\ seen'[u] = seen[u]
        PROVE  seen'[s].winner = live.winner
    <3>1. s # t
      BY <1>6, <1>a, <2>4 DEF Reading
    <3> QED
      BY <1>6, <1>a, <2>0, <2>4, <3>1 DEF Reading
  <2>5. ASSUME NEW t \in Slots, NEW g \in Heights, Take(t, g) PROVE seen'[s].winner = live.winner
    BY <1>a, <2>4, <2>5 DEF Take
  <2>6. ASSUME NEW t \in Slots, Release(t) PROVE seen'[s].winner = live.winner
    BY <1>a, <2>4, <2>6 DEF Release, Forget
  <2>7. ASSUME NEW t \in Slots, Write(t) \/ Skip(t) PROVE seen'[s].winner = live.winner
    BY <1>a, <2>4, <2>7 DEF Write, Skip, Forget
  <2>8. ASSUME UNCHANGED <<pc, cur, seen>> PROVE seen'[s].winner = live.winner
    BY <1>6, <2>0, <2>8 DEF Reading
  <2>9. ASSUME NEW t \in Slots, Refuse(t) \/ Reject(t) \/ Finish(t) \/ Crash(t)
        PROVE  seen'[s].winner = live.winner
    BY <2>6, <2>9 DEF Refuse, Reject, Throw, Finish, Crash
  <2> QED
    BY <2>1, <2>2, <2>3, <2>5, <2>7, <2>8, <2>9
       DEF Next, Calm, Slot, Fault, vars, NewBlock, Dispatch, Requeue
<1> QED
  BY <1>5, <1>6

-----------------------------------------------------------------------------
LEMMA IngestedAlways == Spec => []IngestedInv
<1>1. Init => IngestedInv
  <2> SUFFICES ASSUME Init PROVE CopyInv /\ WithdrawnInv /\ CurrentInv
    BY FollowInit DEF IngestedInv
  <2> QED
    BY DEF Init, CopyInv, WithdrawnInv, CurrentInv, Done, Last, NoRow, Reading
<1>2. IngestedInv /\ [Next]_vars => IngestedInv'
  BY FollowStep, CopyStep, WithdrawnStep, CurrentStep DEF IngestedInv
<1> QED
  BY <1>1, <1>2, PTL DEF Spec

\* With any number of consumers, in whatever order the jobs of a deposit run,
\* overlap, fail, are retried or run twice: its row goes back only by the save of
\* a run that another one overtook (millions.consumer.ts:39-46, 61-106).
THEOREM OnlyOvertakenGoBack == Spec => BackOnlyIfOvertaken
<1>1. IngestedInv /\ [Next]_vars => [GoesBack => \E s \in overtaken : Write(s)]_vars
  BY BackStep DEF IngestedInv
<1> QED
  BY <1>1, IngestedAlways, PTL DEF Spec, BackOnlyIfOvertaken

\* With any number of consumers, when the jobs of all the deposit's events have
\* completed the row is current, unless it once went back.
THEOREM IngestedIsCurrent == Spec => []IngestedMeansCurrent
<1>1. IngestedInv => IngestedMeansCurrent
  <2> SUFFICES ASSUME IngestedInv, AllIngested, ~lost
               PROVE  /\ live.st = "alive" => row.height # 0 /\ row.winner = live.winner
                      /\ (\E h \in Heights : job[h].st # "absent" /\ job[h].kind = "withdraw")
                         => row.withdrawn
    BY DEF IngestedMeansCurrent
  <2>1. \A h \in Heights : events[h] # {} => Done(h)
    <3>1. \A h \in Heights : events[h] # {} => h \in 1..tip
      BY MillionsDepositsAssumption
         DEF IngestedInv, FollowInv, TypeOK, HistoryInv, ChainInv, Heights
    <3> QED
      BY <3>1 DEF AllIngested, Done
  <2>2. ASSUME live.st = "alive" PROVE row.height # 0 /\ row.winner = live.winner
    <3>1. PICK h \in Heights : Last(h)
      BY <2>2 DEF IngestedInv, CurrentInv
    <3>2. Done(h)
      BY <2>1, <3>1 DEF Last
    <3> QED
      BY <2>2, <3>1, <3>2 DEF IngestedInv, CurrentInv
  <2>3. ASSUME NEW h \in Heights, job[h].st # "absent", job[h].kind = "withdraw"
        PROVE  row.withdrawn
    <3>1. Done(h)
      BY <2>1, <2>3 DEF IngestedInv, FollowInv, HistoryInv, JobInv
    <3> QED
      BY <2>3, <3>1 DEF IngestedInv, WithdrawnInv
  <2> QED
    BY <2>2, <2>3
<1> QED
  BY <1>1, IngestedAlways, PTL
=============================================================================
