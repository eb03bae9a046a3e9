------------------------- MODULE BackwardCheckProofs -------------------------
(***************************************************************************)
(* Proofs about BackwardCheck, for every chain and every Threshold.  The   *)
(* difficulty of CoveredExceptSplits is that a sub-check added by one      *)
(* check may be an old job, in any state, left by another: what a finished *)
(* check leaves behind must be stated without it.  CoverInv does so by     *)
(* length: the heights of a finished check are covered by strictly shorter *)
(* checks.                                                                 *)
(***************************************************************************)
EXTENDS BackwardCheck, FiniteSetTheorems, TLAPS

JobRecord == [st : Status, requeues : 0..MaxRequeues]

\* Only ranges with a missing row are acted on, only long ones are split.
GapInv ==
    /\ initial \subseteq blocks
    /\ \A c \in Check : check[c].st = "counted" => \E m \in Looked(c) : m \notin initial
    /\ \A c \in Check : check[c].st = "half" => ~Short(c)

Shorter(n, h) == \E d \in Check : Open(d) /\ Length(d) < n /\ h \in Looked(d)

\* The height h is seen to, counting only checks shorter than n.
Covered(n, h) == h \in blocks \/ h \in wanted \/ h \in skipped \/ Shorter(n, h)

CoverInv ==
    /\ \A c \in Check : check[c].st = "completed"
                        => \A h \in Looked(c) : Covered(Length(c), h)
    /\ \A c \in Check : check[c].st = "half"
                        => \A h \in Looked(FirstHalf(c)) : Covered(Length(c), h)
    /\ \A h \in due : Covered(MaxHeight + 1, h)

-----------------------------------------------------------------------------
(* Ranges.                                                                  *)

LEMMA CheckFacts ==
    ASSUME NEW c \in Check
    PROVE  /\ c.from \in Heights /\ c.to \in Heights /\ c.from <= c.to
           /\ c.from \in Nat /\ c.to \in Nat
           /\ Length(c) \in Nat /\ Length(c) < MaxHeight + 1
           /\ Looked(c) \subseteq Heights
BY BackwardCheckAssumption DEF Check, Heights, Length, Looked

\* The two halves of a range that is split are ranges, shorter than it, and
\* together look at all it looks at but its middle.
LEMMA Halves ==
    ASSUME NEW c \in Check, ~Short(c)
    PROVE  /\ FirstHalf(c) \in Check /\ Length(FirstHalf(c)) < Length(c)
           /\ SecondHalf(c) \in Check /\ Length(SecondHalf(c)) < Length(c)
           /\ Middle(c) \in Heights
           /\ \A h \in Looked(c) : \/ h \in Looked(FirstHalf(c))
                                   \/ h = Middle(c)
                                   \/ h \in Looked(SecondHalf(c))
<1>1. /\ c.from \in Nat /\ c.to \in Nat /\ c.to - c.from > 1
      /\ StartHeight <= c.from /\ c.to <= MaxHeight
  BY CheckFacts, BackwardCheckAssumption DEF Short, Length, Heights
<1>2. Middle(c) \in Nat /\ c.from <= Middle(c) /\ Middle(c) < c.to
  BY <1>1 DEF Middle, Length
<1> HIDE DEF Middle
<1> QED
  BY <1>1, <1>2, BackwardCheckAssumption
     DEF FirstHalf, SecondHalf, Check, Length, Looked, Heights

\* The test on the number of rows tells whether a row is missing.
LEMMA CountFindsGaps ==
    ASSUME NEW c \in Check
    PROVE  Missing(c) > 0 <=> \E h \in Looked(c) : h \notin blocks
<1>1. /\ IsFiniteSet(Looked(c))
      /\ Cardinality(Looked(c)) = Length(c)
  <2> DEFINE a == c.from
             b == c.to - 1
  <2>1. a \in Int /\ b \in Int /\ b - a + 1 = Length(c) /\ (a > b => Length(c) = 0)
    BY CheckFacts DEF Length
  <2> HIDE DEF a, b
  <2>2. IsFiniteSet(a..b) /\ Cardinality(a..b) = IF a > b THEN 0 ELSE b - a + 1
    BY <2>1, FS_Interval
  <2> QED
    BY <2>1, <2>2 DEF Looked, a, b
<1>2. /\ IsFiniteSet(blocks \cap Looked(c))
      /\ Cardinality(blocks \cap Looked(c)) \in Nat
      /\ Cardinality(blocks \cap Looked(c)) <= Cardinality(Looked(c))
      /\ Cardinality(blocks \cap Looked(c)) = Cardinality(Looked(c))
         => blocks \cap Looked(c) = Looked(c)
  BY <1>1, FS_Subset, FS_CardinalityType
<1>3. (\A h \in Looked(c) : h \in blocks) <=> blocks \cap Looked(c) = Looked(c)
  OBVIOUS
<1>4. Length(c) \in Nat
  BY CheckFacts
<1> DEFINE n == Cardinality(blocks \cap Looked(c))
<1>5. Missing(c) = Length(c) - n
  BY DEF Missing
<1>6. n \in Nat /\ n <= Length(c) /\ (n = Length(c) <=> blocks \cap Looked(c) = Looked(c))
  BY <1>1, <1>2
<1>7. Missing(c) > 0 <=> n # Length(c)
  <2> HIDE DEF n
  <2> QED
    BY <1>4, <1>5, <1>6
<1> QED
  BY <1>3, <1>6, <1>7

-----------------------------------------------------------------------------
(* Types.                                                                   *)

LEMMA TypeInit == Init => TypeOK /\ GapInv
BY BackwardCheckAssumption DEF Init, TypeOK, GapInv, Absent, Status, Heights

LEMMA TypeStep == TypeOK /\ GapInv /\ [Next]_vars => TypeOK'
<1> SUFFICES ASSUME TypeOK, GapInv, [Next]_vars PROVE TypeOK'
  OBVIOUS
<1> USE DEF history
<1>f. Fresh \in JobRecord /\ Absent \in JobRecord
  BY BackwardCheckAssumption DEF Fresh, Absent, JobRecord, Status
<1>t. check \in [Check -> JobRecord]
  BY DEF TypeOK, JobRecord
<1>1. CASE NewBlock \/ \E h \in Heights : StoreBlock(h)
  <2>1. tip' \in Heights
    BY <1>1, BackwardCheckAssumption DEF NewBlock, StoreBlock, TypeOK, Heights
  <2>2. blocks' \subseteq Heights
    BY <1>1 DEF NewBlock, StoreBlock, TypeOK
  <2> QED
    BY <1>1, <2>1, <2>2 DEF NewBlock, StoreBlock, TypeOK
<1>2. CASE DailyCheck
  <2>1. due' \subseteq Heights
    BY <1>2, BackwardCheckAssumption DEF DailyCheck, TypeOK, Heights
  <2>2. check' \in [Check -> JobRecord]
    BY <1>2, <1>f, <1>t DEF DailyCheck
  <2> QED
    BY <1>2, <2>1, <2>2 DEF DailyCheck, TypeOK, JobRecord
<1>3. ASSUME NEW c \in Check, Count(c) \/ Expire(c) \/ Interrupt(c) PROVE TypeOK'
  <2>1. check' \in [Check -> JobRecord]
    <3>1. CASE Count(c)
      BY <3>1, <1>t DEF Count, JobRecord, Status
    <3>2. CASE Expire(c)
      BY <3>2, <1>t, <1>f DEF Expire
    <3>3. CASE Interrupt(c)
      <4>1. PICK r \in Interrupted(check[c]) : check' = [check EXCEPT ![c] = r]
        BY <3>3 DEF Interrupt
      <4>2. r \in JobRecord
        BY <4>1, <1>t, BackwardCheckAssumption DEF Interrupted, JobRecord, Status
      <4> QED
        BY <4>1, <4>2, <1>t
    <3> QED
      BY <1>3, <3>1, <3>2, <3>3
  <2> QED
    BY <1>3, <2>1 DEF Count, Expire, Interrupt, TypeOK, JobRecord
<1>4. ASSUME NEW c \in Check, Reingest(c) PROVE TypeOK'
  <2>1. wanted' \subseteq Heights
    BY <1>4, CheckFacts, BackwardCheckAssumption DEF Reingest, TypeOK, Heights
  <2> QED
    BY <1>4, <2>1 DEF Reingest, TypeOK, Status
<1>5. ASSUME NEW c \in Check, SplitFirst(c) PROVE TypeOK'
  <2>1. Added(FirstHalf(c)) \in JobRecord
    BY <1>5, <1>f, <1>t, Halves DEF SplitFirst, Added
  <2>2. check' \in [Check -> JobRecord]
    BY <1>5, <2>1, <1>t DEF SplitFirst, JobRecord, Status
  <2> QED
    BY <1>5, <2>2 DEF SplitFirst, TypeOK, JobRecord
<1>6. ASSUME NEW c \in Check, SplitSecond(c) PROVE TypeOK'
  <2>h. ~Short(c)
    BY <1>6 DEF SplitSecond, GapInv
  <2>1. Added(SecondHalf(c)) \in JobRecord
    BY <2>h, <1>f, <1>t, Halves DEF Added
  <2>2. check' \in [Check -> JobRecord]
    BY <1>6, <2>1, <1>t DEF SplitSecond, JobRecord, Status
  <2>3. skipped' \subseteq Heights
    BY <1>6, <2>h, Halves DEF SplitSecond, TypeOK
  <2> QED
    BY <1>6, <2>2, <2>3 DEF SplitSecond, TypeOK, JobRecord
<1>7. CASE UNCHANGED vars
  BY <1>7 DEF vars, TypeOK
<1> QED
  BY <1>1, <1>2, <1>3, <1>4, <1>5, <1>6, <1>7 DEF Next, Run

\* What a step does to the status of a check c: it stays, or c is the check
\* the step is about, or c is the sub-check it adds.
LEMMA GapStep == TypeOK /\ GapInv /\ [Next]_vars => GapInv'
<1> SUFFICES ASSUME TypeOK, GapInv, [Next]_vars PROVE GapInv'
  OBVIOUS
<1> USE DEF history
<1>t. check \in [Check -> JobRecord]
  BY DEF TypeOK, JobRecord
<1>1. initial' \subseteq blocks' /\ initial' = initial
  BY DEF GapInv, Next, Run, NewBlock, StoreBlock, DailyCheck, Count, Expire, Interrupt,
     Reingest, SplitFirst, SplitSecond, vars
<1>2. ASSUME NEW c \in Check, check'[c].st = "counted", check[c].st # "counted"
      PROVE  \E m \in Looked(c) : m \notin initial
  <2>1. Count(c) /\ Missing(c) > 0
    <3>1. CASE NewBlock \/ (\E h \in Heights : StoreBlock(h)) \/ UNCHANGED vars
      BY <3>1, <1>2 DEF NewBlock, StoreBlock, vars
    <3>2. CASE DailyCheck
      BY <3>2, <1>2, <1>t DEF DailyCheck, Fresh
    <3>3. ASSUME NEW d \in Check, Count(d) PROVE Count(c) /\ Missing(c) > 0
      BY <3>3, <1>2, <1>t DEF Count, JobRecord
    <3>4. ASSUME NEW d \in Check, Expire(d) \/ Interrupt(d) PROVE FALSE
      BY <3>4, <1>2, <1>t DEF Expire, Interrupt, Interrupted, Absent
    <3>5. ASSUME NEW d \in Check, Reingest(d) \/ SplitFirst(d) \/ SplitSecond(d) PROVE FALSE
      BY <3>5, <1>2, <1>t DEF Reingest, SplitFirst, SplitSecond, Added, Fresh, JobRecord
    <3> QED
      BY <3>1, <3>2, <3>3, <3>4, <3>5 DEF Next, Run
  <2> QED
    BY <2>1, CountFindsGaps DEF GapInv
<1>3. ASSUME NEW c \in Check, check'[c].st = "half", check[c].st # "half" PROVE ~Short(c)
  <2>1. CASE NewBlock \/ (\E h \in Heights : StoreBlock(h)) \/ UNCHANGED vars
    BY <2>1, <1>3 DEF NewBlock, StoreBlock, vars
  <2>2. CASE DailyCheck
    BY <2>2, <1>3, <1>t DEF DailyCheck, Fresh
  <2>3. ASSUME NEW d \in Check, Count(d) \/ Expire(d) \/ Interrupt(d) PROVE FALSE
    BY <2>3, <1>3, <1>t DEF Count, Expire, Interrupt, Interrupted, Absent, JobRecord
  <2>4. ASSUME NEW d \in Check, Reingest(d) \/ SplitSecond(d) PROVE FALSE
    BY <2>4, <1>3, <1>t DEF Reingest, SplitSecond, Added, Fresh, JobRecord
  <2>5. ASSUME NEW d \in Check, SplitFirst(d) PROVE ~Short(c)
    BY <2>5, <1>3, <1>t DEF SplitFirst, Added, Fresh, JobRecord
  <2> QED
    BY <2>1, <2>2, <2>3, <2>4, <2>5 DEF Next, Run
<1> QED
  BY <1>1, <1>2, <1>3 DEF GapInv, Short, Length, Looked

\* Every variable keeps its type; no check is requeued past its limit.
THEOREM TypeCorrect == Spec => []TypeOK
BY TypeInit, TypeStep, GapStep, PTL DEF Spec

-----------------------------------------------------------------------------
(* Neighbours.                                                              *)

LEMMA NeighboursStep ==
    TypeOK /\ GapInv /\ NeighboursOnly /\ [Next]_vars => NeighboursOnly'
<1> SUFFICES ASSUME TypeOK, GapInv, NeighboursOnly, [Next]_vars PROVE NeighboursOnly'
  OBVIOUS
<1>0. initial' = initial
  BY DEF Next, Run, NewBlock, StoreBlock, DailyCheck, Count, Expire, Interrupt,
     Reingest, SplitFirst, SplitSecond, vars, history
<1> SUFFICES ASSUME NEW h \in wanted', h \notin wanted
             PROVE  \E m \in Heights \ initial : m - h <= Threshold /\ h - m <= Threshold
  BY <1>0 DEF NeighboursOnly
<1>1. PICK c \in Check : Reingest(c)
  BY DEF Next, Run, NewBlock, StoreBlock, DailyCheck, Count, Expire, Interrupt,
     SplitFirst, SplitSecond, vars, history
<1>2. PICK m \in Looked(c) : m \notin initial
  BY <1>1 DEF Reingest, GapInv
<1>3. /\ c.from \in Nat /\ c.to \in Nat /\ c.to - c.from <= Threshold
      /\ h \in c.from..c.to /\ m \in c.from..(c.to - 1) /\ m \in Heights
  BY <1>1, <1>2, CheckFacts DEF Reingest, Short, Length, Looked
<1>4. m - h <= Threshold /\ h - m <= Threshold
  BY <1>3, BackwardCheckAssumption
<1> QED
  BY <1>2, <1>3, <1>4

\* Only missing blocks and their neighbours are re-ingested.
THEOREM OnlyNeighbours == Spec => []NeighboursOnly
<1>1. Init => NeighboursOnly
  BY DEF Init, NeighboursOnly
<1> QED
  BY <1>1, TypeInit, TypeStep, GapStep, NeighboursStep, PTL DEF Spec

-----------------------------------------------------------------------------
(* Coverage.                                                                *)

LEMMA CoverInit == Init => CoverInv
BY DEF Init, CoverInv, Absent

\* What is covered stays covered, if every check that a step closes leaves its
\* heights covered by shorter ones.
LEMMA Persist ==
    ASSUME blocks \subseteq blocks', wanted \subseteq wanted', skipped \subseteq skipped',
           \A d \in Check : Open(d) => Open(d)' \/ \A h \in Looked(d) : Covered(Length(d), h)'
    PROVE  \A n \in Nat : \A h : Covered(n, h) => Covered(n, h)'
<1> SUFFICES ASSUME NEW n \in Nat, NEW h, Covered(n, h) PROVE Covered(n, h)'
  OBVIOUS
<1>1. CASE ~Shorter(n, h)
  BY <1>1 DEF Covered
<1>2. CASE Shorter(n, h)
  <2>1. PICK d \in Check : Open(d) /\ Length(d) < n /\ h \in Looked(d)
    BY <1>2 DEF Shorter
  <2>2. CASE Open(d)'
    BY <2>1, <2>2 DEF Covered, Shorter, Length, Looked
  <2>3. CASE Covered(Length(d), h)'
    <3>1. CASE ~Shorter(Length(d), h)'
      BY <2>3, <3>1 DEF Covered
    <3>2. CASE Shorter(Length(d), h)'
      <4>1. PICK e \in Check : Open(e)' /\ Length(e) < Length(d) /\ h \in Looked(e)
        BY <3>2 DEF Shorter, Length, Looked
      <4>2. Length(e) < n
        BY <2>1, <4>1, CheckFacts
      <4> QED
        BY <4>1, <4>2 DEF Covered, Shorter, Length, Looked
    <3> QED
      BY <3>1, <3>2
  <2> QED
    BY <2>1, <2>2, <2>3
<1> QED
  BY <1>1, <1>2

\* A sub-check that is there in any state covers its heights for its parent.
LEMMA SubCheckCovers ==
    ASSUME CoverInv, NEW c \in Check, NEW d \in Check, Length(d) < Length(c),
           check[d].st \in Status, check[d].st # "absent"
    PROVE  \A h \in Looked(d) : Covered(Length(c), h)
<1> SUFFICES ASSUME NEW h \in Looked(d) PROVE Covered(Length(c), h)
  OBVIOUS
<1>1. CASE Open(d)
  BY <1>1 DEF Covered, Shorter
<1>2. CASE ~Open(d)
  <2>1. Covered(Length(d), h)
    BY <1>2 DEF Open, Queued, Status, CoverInv
  <2>2. Length(d) \in Nat /\ Length(c) \in Nat
    BY CheckFacts
  <2>3. CASE Shorter(Length(d), h)
    <3>1. PICK e \in Check : Open(e) /\ Length(e) < Length(d) /\ h \in Looked(e)
      BY <2>3 DEF Shorter
    <3>2. Length(e) < Length(c)
      BY <3>1, <2>2, CheckFacts
    <3> QED
      BY <3>1, <3>2 DEF Covered, Shorter
  <2> QED
    BY <2>1, <2>3 DEF Covered
<1> QED
  BY <1>1, <1>2

\* The check that a step completes leaves its heights covered by shorter ones.
LEMMA ClosedIsCovered ==
    ASSUME TypeOK, GapInv, CoverInv, [Next]_vars,
           NEW c \in Check, check[c].st # "completed", check'[c].st = "completed"
    PROVE  \A h \in Looked(c) : Covered(Length(c), h)'
<1> USE DEF history
<1>t. check \in [Check -> JobRecord]
  BY DEF TypeOK, JobRecord
<1>1. (Count(c) /\ ~(Missing(c) > 0)) \/ Reingest(c) \/ SplitSecond(c)
  <2>1. CASE NewBlock \/ (\E h \in Heights : StoreBlock(h)) \/ UNCHANGED vars
    BY <2>1 DEF NewBlock, StoreBlock, vars
  <2>2. CASE DailyCheck
    BY <2>2, <1>t DEF DailyCheck, Fresh
  <2>3. ASSUME NEW d \in Check, Expire(d) \/ Interrupt(d) PROVE FALSE
    BY <2>3, <1>t DEF Expire, Interrupt, Interrupted, Absent
  <2>4. ASSUME NEW d \in Check, Count(d) PROVE Count(c) /\ ~(Missing(c) > 0)
    BY <2>4, <1>t DEF Count, JobRecord
  <2>5. ASSUME NEW d \in Check, Reingest(d) PROVE Reingest(c)
    BY <2>5, <1>t DEF Reingest
  <2>6. ASSUME NEW d \in Check, SplitFirst(d) PROVE FALSE
    BY <2>6, <1>t DEF SplitFirst, Added, Fresh, JobRecord
  <2>7. ASSUME NEW d \in Check, SplitSecond(d) PROVE SplitSecond(c)
    BY <2>7, <1>t DEF SplitSecond, Added, Fresh, JobRecord
  <2> QED
    BY <2>1, <2>2, <2>3, <2>4, <2>5, <2>6, <2>7 DEF Next, Run
<1>2. CASE Count(c) /\ ~(Missing(c) > 0)
  BY <1>2, CountFindsGaps DEF Count, Covered
<1>3. CASE Reingest(c)
  <2>1. \A h \in Looked(c) : h \in c.from..c.to
    BY CheckFacts DEF Looked
  <2> QED
    BY <1>3, <2>1 DEF Reingest, Covered
<1>4. CASE SplitSecond(c)
  <2> DEFINE d == SecondHalf(c)
  <2>1. /\ d \in Check /\ Length(d) < Length(c) /\ Length(d) \in Nat
        /\ Length(c) \in Nat /\ d # c
        /\ \A h \in Looked(c) : h \in Looked(FirstHalf(c)) \/ h = Middle(c) \/ h \in Looked(d)
    BY <1>4, Halves, CheckFacts DEF SplitSecond, GapInv
  <2>2. /\ blocks' = blocks /\ wanted' = wanted /\ skipped' = skipped \cup {Middle(c)}
        /\ check' = [check EXCEPT ![d] = Added(d), ![c].st = "completed"]
        /\ check[c].st = "half"
    BY <1>4 DEF SplitSecond
  <2> HIDE DEF d
  <2>3. \A e \in Check : e # c /\ Open(e) => Open(e)'
    BY <2>1, <2>2, <1>t DEF Open, Queued, Added, JobRecord
  <2>4. ASSUME NEW h, Covered(Length(c), h) PROVE Covered(Length(c), h)'
    <3>1. CASE Shorter(Length(c), h)
      <4>1. PICK e \in Check : Open(e) /\ Length(e) < Length(c) /\ h \in Looked(e)
        BY <3>1 DEF Shorter
      <4>2. e # c
        BY <2>1, <4>1
      <4> QED
        BY <4>1, <4>2, <2>3 DEF Covered, Shorter, Length, Looked
    <3>2. CASE ~Shorter(Length(c), h)
      BY <2>2, <2>4, <3>2 DEF Covered
    <3> QED
      BY <3>1, <3>2
  <2>5. ASSUME NEW h \in Looked(FirstHalf(c)) PROVE Covered(Length(c), h)'
    BY <2>2, <2>4, <2>5 DEF CoverInv
  <2>6. Covered(Length(c), Middle(c))'
    BY <2>2 DEF Covered
  <2>7. ASSUME NEW h \in Looked(d) PROVE Covered(Length(c), h)'
    <3>1. CASE check[d].st = "absent"
      <4>1. Open(d)'
        BY <3>1, <2>1, <2>2, <1>t DEF Open, Queued, Added, Fresh
      <4> QED
        BY <4>1, <2>1, <2>7 DEF Covered, Shorter, Length, Looked
    <3>2. CASE check[d].st # "absent"
      <4>1. check[d].st \in Status
        BY <2>1, <1>t DEF JobRecord
      <4>2. Covered(Length(c), h)
        BY <3>2, <4>1, <2>1, <2>7, SubCheckCovers
      <4> QED
        BY <4>2, <2>4
    <3> QED
      BY <3>1, <3>2
  <2> QED
    BY <2>1, <2>5, <2>6, <2>7 DEF Middle, Length
<1> QED
  BY <1>1, <1>2, <1>3, <1>4

LEMMA CoverStep == TypeOK /\ GapInv /\ CoverInv /\ [Next]_vars => CoverInv'
<1> SUFFICES ASSUME TypeOK, GapInv, CoverInv, [Next]_vars PROVE CoverInv'
  OBVIOUS
<1> USE DEF history
<1>t. check \in [Check -> JobRecord]
  BY DEF TypeOK, JobRecord
<1>1. blocks \subseteq blocks' /\ wanted \subseteq wanted' /\ skipped \subseteq skipped'
  BY DEF Next, Run, NewBlock, StoreBlock, DailyCheck, Count, Expire, Interrupt,
     Reingest, SplitFirst, SplitSecond, vars
<1>2. ASSUME NEW d \in Check, Open(d), ~(Open(d)')
      PROVE  check[d].st # "completed" /\ check'[d].st = "completed"
  <2>1. CASE NewBlock \/ (\E h \in Heights : StoreBlock(h)) \/ UNCHANGED vars
    BY <2>1, <1>2 DEF NewBlock, StoreBlock, vars, Open, Queued
  <2>2. CASE DailyCheck
    BY <2>2, <1>2, <1>t DEF DailyCheck, Fresh, Open, Queued
  <2>3. ASSUME NEW c \in Check, Expire(c) \/ Interrupt(c) PROVE FALSE
    BY <2>3, <1>2, <1>t DEF Expire, Interrupt, Interrupted, Absent, Open, Queued
  <2>4. ASSUME NEW c \in Check, Run(c)
        PROVE  check[d].st # "completed" /\ check'[d].st = "completed"
    BY <2>4, <1>2, <1>t DEF Run, Count, Reingest, SplitFirst, SplitSecond, Added, Open, Queued,
       JobRecord
  <2> QED
    BY <2>1, <2>2, <2>3, <2>4 DEF Next
<1>3. \A n \in Nat : \A h : Covered(n, h) => Covered(n, h)'
  BY <1>1, <1>2, ClosedIsCovered, Persist
<1>4. ASSUME NEW c \in Check, check'[c].st = "completed", NEW h \in Looked(c)
      PROVE  Covered(Length(c), h)'
  <2>1. CASE check[c].st = "completed"
    BY <1>3, <1>4, <2>1, CheckFacts DEF CoverInv
  <2>2. CASE check[c].st # "completed"
    BY <1>4, <2>2, ClosedIsCovered
  <2> QED
    BY <2>1, <2>2
<1>5. ASSUME NEW c \in Check, check'[c].st = "half", NEW h \in Looked(FirstHalf(c))
      PROVE  Covered(Length(c), h)'
  <2>1. CASE check[c].st = "half"
    BY <1>3, <1>5, <2>1, CheckFacts DEF CoverInv
  <2>2. CASE check[c].st # "half"
    <3>1. SplitFirst(c)
      <4>1. CASE NewBlock \/ (\E i \in Heights : StoreBlock(i)) \/ UNCHANGED vars
        BY <4>1, <1>5, <2>2 DEF NewBlock, StoreBlock, vars
      <4>2. CASE DailyCheck
        BY <4>2, <1>5, <2>2, <1>t DEF DailyCheck, Fresh
      <4>3. ASSUME NEW d \in Check,
                   Expire(d) \/ Interrupt(d) \/ Count(d) \/ Reingest(d) \/ SplitSecond(d)
            PROVE FALSE
        BY <4>3, <1>5, <2>2, <1>t DEF Expire, Interrupt, Interrupted, Absent, Count, Reingest,
           SplitSecond, Added, Fresh, JobRecord
      <4>4. ASSUME NEW d \in Check, SplitFirst(d) PROVE SplitFirst(c)
        BY <4>4, <1>5, <2>2, <1>t DEF SplitFirst, Added, Fresh, JobRecord
      <4> QED
        BY <4>1, <4>2, <4>3, <4>4 DEF Next, Run
    <3> DEFINE d == FirstHalf(c)
    <3>2. d \in Check /\ Length(d) < Length(c) /\ Length(c) \in Nat /\ d # c
      BY <3>1, Halves, CheckFacts DEF SplitFirst
    <3>3. check' = [check EXCEPT ![d] = Added(d), ![c].st = "half"] /\ h \in Looked(d)
      BY <3>1, <1>5 DEF SplitFirst
    <3> HIDE DEF d
    <3>4. CASE check[d].st = "absent"
      <4>1. Open(d)'
        BY <3>2, <3>3, <3>4, <1>t DEF Open, Queued, Added, Fresh
      <4> QED
        BY <4>1, <3>2, <3>3 DEF Covered, Shorter, Length, Looked
    <3>5. CASE check[d].st # "absent"
      <4>1. check[d].st \in Status
        BY <3>2, <1>t DEF JobRecord
      <4> QED
        BY <4>1, <3>2, <3>3, <3>5, <1>3, SubCheckCovers
    <3> QED
      BY <3>4, <3>5
  <2> QED
    BY <2>1, <2>2
<1>6. ASSUME NEW h \in due' PROVE Covered(MaxHeight + 1, h)'
  <2>0. MaxHeight + 1 \in Nat
    BY BackwardCheckAssumption
  <2>1. CASE h \in due
    BY <1>3, <2>0, <2>1 DEF CoverInv
  <2>2. CASE h \notin due
    <3> DEFINE c == [from |-> StartHeight, to |-> tip, daily |-> TRUE]
    <3>1. DailyCheck
      BY <1>6, <2>2 DEF Next, Run, NewBlock, StoreBlock, Count, Expire, Interrupt,
         Reingest, SplitFirst, SplitSecond, vars
    <3>2. c \in Check /\ h \in Looked(c)
      BY <3>1, <1>6, BackwardCheckAssumption DEF DailyCheck, Check, Heights, TypeOK, Looked
    <3>3. check'[c].st = "wait"
      BY <3>1, <3>2, <1>t DEF DailyCheck, Fresh
    <3> HIDE DEF c
    <3>4. \E d \in Check : Open(d)' /\ Length(d) < MaxHeight + 1 /\ h \in Looked(d)
      BY <3>2, <3>3, CheckFacts DEF Open, Queued
    <3> QED
      BY <3>4 DEF Covered, Shorter, Length, Looked
  <2> QED
    BY <2>1, <2>2
<1> QED
  BY <1>4, <1>5, <1>6 DEF CoverInv, Length, Looked, FirstHalf, Middle

\* Nothing below the tip is overlooked by the daily check but the heights
\* where a range was split, whatever runs, crashes and rows come in between.
THEOREM NothingOverlookedButSplits == Spec => []CoveredExceptSplits
<1>1. CoverInv => CoveredExceptSplits
  BY DEF CoverInv, CoveredExceptSplits, Covered, Shorter
<1> QED
  BY <1>1, TypeInit, TypeStep, GapStep, CoverInit, CoverStep, PTL DEF Spec

-----------------------------------------------------------------------------
(* Splitting.                                                               *)

\* A job that is put on the queue, or back on it, under the id of a range is
\* half, at most, as long as the check that puts it there and lies within it.
SplitsHalve ==
    \A c \in Check :
        ~c.daily /\ check[c].st = "absent" /\ check'[c].st # "absent"
        => \E d \in Check :
              /\ Queued(d)
              /\ 2 * Length(c) <= Length(d)
              /\ d.from <= c.from /\ c.to <= d.to

LEMMA HalfLengths ==
    ASSUME NEW c \in Check, ~Short(c)
    PROVE  \A d \in {FirstHalf(c), SecondHalf(c)} :
              2 * Length(d) <= Length(c) /\ c.from <= d.from /\ d.to <= c.to
<1>1. /\ c.from \in Nat /\ c.to \in Nat /\ c.to - c.from > 1
  BY CheckFacts, BackwardCheckAssumption DEF Short, Length
<1> DEFINE k == Length(c) \div 2
<1>2. k \in Nat /\ 2 * k <= Length(c) /\ Length(c) <= 2 * k + 1
  BY <1>1 DEF Length
<1>3. Middle(c) = c.from + k
  BY DEF Middle
<1> HIDE DEF k
<1> QED
  BY <1>1, <1>2, <1>3 DEF FirstHalf, SecondHalf, Length

\* Splitting cannot go on for ever (block.consumer.ts:208-233): whatever jobs
\* of earlier passes are still there, expire or are requeued, a check adds only
\* checks of at most half its length, so that below a range of n heights they
\* are nested log2(n / Threshold) deep.  ChecksDrain rests on it.
THEOREM SplittingHalves == Spec => [][SplitsHalve]_vars
<1>1. TypeOK /\ GapInv /\ [Next]_vars => [SplitsHalve]_vars
  <2> SUFFICES ASSUME TypeOK, GapInv, Next, NEW c \in Check, ~c.daily,
                      check[c].st = "absent", check'[c].st # "absent"
               PROVE  \E d \in Check : /\ Queued(d)
                                       /\ 2 * Length(c) <= Length(d)
                                       /\ d.from <= c.from /\ c.to <= d.to
    BY DEF SplitsHalve
  <2>t. check \in [Check -> JobRecord]
    BY DEF TypeOK, JobRecord
  <2>1. CASE NewBlock \/ \E h \in Heights : StoreBlock(h)
    BY <2>1 DEF NewBlock, StoreBlock
  <2>2. CASE DailyCheck
    <3>1. PICK d \in [from : {StartHeight}, to : {tip}, daily : {TRUE}] :
             check' = [check EXCEPT ![d] = Fresh]
      BY <2>2 DEF DailyCheck
    <3> QED
      BY <3>1, <2>t
  <2>3. ASSUME NEW d \in Check, Count(d) \/ Reingest(d) \/ Interrupt(d) \/ Expire(d)
        PROVE  FALSE
    <3>1. check[d].st # "absent"
      BY <2>3 DEF Count, Reingest, Interrupt, Expire
    <3>2. \A e \in Check : e # d => check'[e] = check[e]
      BY <2>3, <2>t DEF Count, Reingest, Interrupt, Expire
    <3> QED
      BY <3>1, <3>2
  <2>4. ASSUME NEW d \in Check, SplitFirst(d) \/ SplitSecond(d)
        PROVE  /\ Queued(d) /\ ~Short(d)
               /\ c \in {FirstHalf(d), SecondHalf(d)}
    <3>1. Queued(d) /\ ~Short(d)
      BY <2>4 DEF SplitFirst, SplitSecond, Queued, GapInv
    <3>2. \A e \in Check : e \notin {d, FirstHalf(d), SecondHalf(d)}
                           => check'[e] = check[e]
      BY <2>4, <2>t DEF SplitFirst, SplitSecond
    <3>3. c # d
      BY <3>1 DEF Queued
    <3> QED
      BY <3>1, <3>2, <3>3
  <2> QED
    BY <2>1, <2>2, <2>3, <2>4, HalfLengths DEF Next, Run
<1> QED
  BY <1>1, TypeInit, TypeStep, GapStep, PTL DEF Spec
=============================================================================
