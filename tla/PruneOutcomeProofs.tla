------------------------- MODULE PruneOutcomeProofs -------------------------
(***************************************************************************)
(* What follows from the invariant of PruneSafetyProofs for a retention    *)
(* check, for the consumer groups and for the script's wait; and that      *)
(* phases 40 and 50 implement Offload, the refinement that TLC checks on   *)
(* small topics as the property ImplementsOffload, for all of them.        *)
(***************************************************************************)
EXTENDS PruneSafetyProofs

-----------------------------------------------------------------------------
(* One retention check deletes the whole prediction or nothing. *)

LEMMA ProduceLosesNothing ==
  ASSUME TypeOK, LogInv, NEW p \in Partition, NEW q \in Partition, Produce(q), UNCHANGED baseline
  PROVE  Lost(p)' = Lost(p)
<1>1. high[p] \notin DOMAIN baseline[p].segments
  BY BaselineFacts, TopicFacts DEF LogInv, ExtendsBaseline
<1>2. DOMAIN segs'[p] \in {DOMAIN segs[p], DOMAIN segs[p] \cup {high[p]}}
  <2>1. PICK lag \in Late, a \in DOMAIN segs[q] : Produce(q)!2!(lag, a)
    BY Zenon DEF Produce
  <2>2. DOMAIN segs = Partition
    BY DEF TypeOK, TopicTypeOK
  <2>3. PICK log \in {segs'[q]} : segs' = [segs EXCEPT ![q] = log]
                /\ DOMAIN log \in {DOMAIN segs[q], DOMAIN segs[q] \cup {high[q]}}
    <3>1. ASSUME NEW r, segs' = [segs EXCEPT ![q][a] = r]
          PROVE  segs' = [segs EXCEPT ![q] = [segs[q] EXCEPT ![a] = r]]
      BY <3>1
    <3>. QED
      BY <2>1, <2>2, <3>1
  <2>. QED
    BY <2>2, <2>3
<1>. QED
  BY <1>1, <1>2 DEF Lost

\* A segment that an established prediction deletes is old in the live log
\* too, and a later segment that is kept lets the broker reach it.
LEMMA PredictedIsDeletable ==
  ASSUME TypeOK, LogInv, retention_ms # Infinite,
         NEW pred \in Prediction, Established(pred), InForce(pred),
         NEW p \in Partition, NEW b \in pred.deleted[p], b \in DOMAIN segs[p]
  PROVE  b \in DeletableSegments(segs[p], high[p], high[p], now, retention_ms)
<1>. USE PruneGateAssumption
<1>. DEFINE B == DOMAIN baseline[p].segments
            S == DOMAIN segs[p]
<1>1. SeededPartition(baseline[p]) /\ pred.now \in Nat /\ now \in Nat /\ pred.now <= now
  BY BaselineFacts, TopicFacts DEF Prediction, Established
<1>2. pred.deleted[p] = {d \in B : \A c \in B : c <= d => pred.now - baseline[p].segments[c].max_ts > Retention}
  <2>1. pred.deleted[p] = predict_partition(baseline[p], pred.now, Retention)
    BY DEF Established, build_prediction
  <2>2. pred.now \in Int /\ Retention \in Int
    BY <1>1
  <2>. QED
    BY <1>1, <2>1, <2>2, PredictIsBreachedPrefix
<1>3. ExtendsBaseline(p) /\ retention_ms = Retention
  BY DEF LogInv
<1>4. PICK k \in B : k \in S /\ k \notin pred.deleted[p]
  BY SomethingIsKept
<1>5. b \in B /\ b < k
  <2>1. PICK c \in B : c <= k /\ ~(pred.now - baseline[p].segments[c].max_ts > Retention)
    BY <1>2, <1>4
  <2>2. ~(c <= b) /\ b \in B
    BY <1>2, <2>1
  <2>. QED
    BY <1>4, <2>1, <2>2, BaselineFacts
<1>6. ASSUME NEW c \in S, c <= b
      PROVE  Deletable(segs[p], c, high[p], high[p], now, retention_ms)
  <2>1. c < k /\ k <= high[p]
    BY <1>4, <1>5, <1>6, BaselineFacts, TopicFacts
  <2>2. c \in B
    <3>1. c < baseline[p].high_watermark
      BY <1>5, <1>6, BaselineFacts, TopicFacts
    <3>. QED
      BY <1>3, <3>1, BaselineFacts, TopicFacts DEF ExtendsBaseline
  <2>3. segs[p][c] = baseline[p].segments[c]
    <3>1. ~IsLast(p, c)
      BY <1>4, <2>1, <2>2, BaselineFacts DEF IsLast
    <3>. QED
      BY <1>3, <2>2, <3>1 DEF ExtendsBaseline
  <2>4. pred.now - baseline[p].segments[c].max_ts > Retention
    BY <1>2, <1>6, <2>2
  <2>5. Breached(segs[p][c], now, retention_ms)
    BY <1>1, <1>3, <2>2, <2>3, <2>4, BaselineFacts DEF Breached
  <2>6. BelowHighWatermark(segs[p], c, high[p], high[p])
    BY <1>4, <2>1 DEF BelowHighWatermark
  <2>. QED
    BY <2>5, <2>6 DEF Deletable
<1>. QED
  BY <1>6 DEF DeletableSegments

LEMMA CheckLosesPrediction ==
  ASSUME TypeOK, PruneInv, OnlyPredictedDeleted', NEW q \in Partition, RetentionCheck(q),
         UNCHANGED <<baseline, applied>>, NEW pred \in applied, InForce(pred)',
         NEW p \in Partition, Lost(p)' # Lost(p)
  PROVE  Lost(p)' = pred.deleted[p]
<1>. DEFINE D == DeletableSegments(segs[p], high[p], high[p], now, retention_ms)
            B == DOMAIN baseline[p].segments
<1>1. now' = now /\ high' = high /\ retention_ms # Infinite
  BY DEF RetentionCheck
<1>2. p = q
  BY DEF RetentionCheck, Lost, TypeOK, TopicTypeOK
<1>3. pred \in Prediction /\ Established(pred) /\ LogInv /\ InForce(pred)
  BY <1>1 DEF TypeOK, PruneInv, FileKnowledge, InForce
<1>4. Lost(p)' \subseteq pred.deleted[p]
  BY DEF OnlyPredictedDeleted
<1>5. pred.deleted[p] \subseteq B
  BY <1>3 DEF Established, build_prediction, predict_partition, DeletableSegments
<1>6. B \cap DOMAIN segs'[p] \cap D = {}
  <2>1. DOMAIN segs'[p] \in {{high[p]}, DOMAIN segs[p] \ D}
    BY <1>2 DEF RetentionCheck, TypeOK, TopicTypeOK, Restrict
  <2>2. high[p] \notin B
    BY <1>3, BaselineFacts, TopicFacts DEF LogInv, ExtendsBaseline
  <2>. HIDE DEF D
  <2>. QED
    BY <2>1, <2>2
<1>7. DOMAIN segs'[p] \cap B \subseteq DOMAIN segs[p]
  <2>1. DOMAIN segs'[p] \in {{high[p]}, DOMAIN segs[p] \ D}
    BY <1>2 DEF RetentionCheck, TypeOK, TopicTypeOK, Restrict
  <2>2. high[p] \notin B
    BY <1>3, BaselineFacts, TopicFacts DEF LogInv, ExtendsBaseline
  <2>. QED
    BY <2>1, <2>2
<1>8. ASSUME NEW b \in pred.deleted[p]
      PROVE  b \in Lost(p)'
  <2>1. b \in DOMAIN segs[p] => b \in D
    BY <1>1, <1>3, PredictedIsDeletable
  <2>. HIDE DEF D
  <2>. QED
    BY <1>5, <1>6, <1>7, <2>1 DEF Lost
<1>. QED
  BY <1>4, <1>8

\* Inside the margin a retention check that deletes of a partition deletes
\* exactly the prediction.
THEOREM CheckDeletesExactly == Spec => CheckDeletesPrediction
<1>. DEFINE Exact == \A pred \in applied : InForce(pred)' =>
                       \A p \in Partition : Lost(p)' # Lost(p) => Lost(p)' = pred.deleted[p]
<1>1. TypeOK /\ PruneInv /\ OnlyPredictedDeleted' /\ [Next]_vars => [Exact]_vars
  <2>1. SUFFICES ASSUME TypeOK, PruneInv, OnlyPredictedDeleted', Next,
                        NEW pred \in applied, InForce(pred)', NEW p \in Partition, Lost(p)' # Lost(p)
                 PROVE  Lost(p)' = pred.deleted[p]
    OBVIOUS
  <2>2. CASE Environment
    <3>1. UNCHANGED <<baseline, applied>>
      BY <2>2 DEF Environment, fixedVars, fileVars
    <3>2. PICK q \in Partition : RetentionCheck(q)
      <4>1. ASSUME NEW q \in Partition, Produce(q)
            PROVE  FALSE
        BY <2>1, <3>1, <4>1, ProduceLosesNothing DEF PruneInv
      <4>2. ASSUME NEW g \in Group, NEW q \in Partition, CommitForward(g, q) \/ ResetOffset(g, q)
            PROVE  FALSE
        BY <2>1, <3>1, <4>2 DEF CommitForward, ResetOffset, Lost
      <4>. QED
        BY <2>2, <4>1, <4>2 DEF Environment, TopicStep
    <3>. QED
      BY <2>1, <3>1, <3>2, CheckLosesPrediction
  <2>3. CASE ~Environment
    <3>1. segs' = segs /\ baseline' = baseline
      BY <2>1, <2>3 DEF Next, topicVars, fixedVars, Tick, StartPhase, Crash, PhaseStep, ReadEvidence,
         CompareInventory, Look, WakeUp, WritePrediction, ConsumerInventory, WriteSizes,
         AlterRetention, BeginCheck, PollDone, ReadMarks, WriteCheck, ReclaimGate,
         ReadCommitted, ResumeConsumer
    <3>. QED
      BY <2>1, <3>1 DEF Lost
  <2>. QED
    BY <2>2, <2>3
<1>. QED
  BY <1>1, PruneInvariant, OnlyPredictedIsDeleted, PTL DEF Spec, CheckDeletesPrediction

-----------------------------------------------------------------------------
(* The wait. *)

\* No sleep ends later than one second after the deadline of the wait.
THEOREM WaitIsWithinBudget == Spec => []WaitWithinBudget
<1>1. Init => WaitWithinBudget
  BY DEF Init, NoJob, WaitWithinBudget
<1>2. TypeOK /\ WaitWithinBudget /\ [Next]_vars => WaitWithinBudget'
  <2>1. SUFFICES ASSUME TypeOK, WaitWithinBudget, [Next]_vars, job'.pc = "sleep"
                 PROVE  job'.wake <= job'.deadline + 1
    BY DEF WaitWithinBudget
  <2>2. job \in Job
    BY <2>1 DEF TypeOK
  <2>3. CASE Look
    <3>1. job'.wake <= job.deadline + 1
      BY <2>1, <2>3, SleepLength
    <3>2. job'.deadline = job.deadline
      <4>1. PICK w : job' \in {[job EXCEPT !.pc = "predict", !.clock = now],
                               [job EXCEPT !.pc = "sleep", !.wake = w]}
        BY <2>3 DEF Look
      <4>. QED
        BY <2>2, <4>1 DEF Job
    <3>. QED
      BY <3>1, <3>2
  <2>4. CASE job' = job
    BY <2>1, <2>4 DEF WaitWithinBudget
  <2>5. CASE ~Look /\ job' # job
    <3>1. job' = NoJob \/ \E r \in {"evidence", "inventory", "look", "predict", "groups", "sizes", "alter",
             "check", "poll", "settle", "observe", "reclaim", "resume", "consume"} : job'.pc = r
      BY <2>1, <2>2, <2>5 DEF Next, vars, Tick, Environment, StartPhase, Crash, PhaseStep, ReadEvidence,
         CompareInventory, WakeUp, WritePrediction, ConsumerInventory, WriteSizes,
         AlterRetention, BeginCheck, PollDone, ReadMarks, WriteCheck, ReclaimGate,
         ReadCommitted, ResumeConsumer, End, Gate, Job, NoJob
    <3>. QED
      BY <2>1, <3>1 DEF NoJob
  <2>. QED
    BY <2>3, <2>4, <2>5
<1>. QED
  BY <1>1, <1>2, TypeCorrect, PTL DEF Spec

-----------------------------------------------------------------------------
(* Consumer groups that never go back. *)

\* What a group that only commits forward has committed does not decrease.
LEMMA CommitsOnlyAdvance ==
  ASSUME TypeOK, ~Rewinds, [Next]_vars, NEW g \in Group, NEW p \in Partition
  PROVE  \/ committed'[g][p] = committed[g][p]
         \/ committed[g][p] # NoOffset /\ committed'[g][p] > committed[g][p]
<1>1. CASE Environment
  <2>1. ASSUME NEW h \in Group, NEW q \in Partition, CommitForward(h, q)
        PROVE  \/ committed'[g][p] = committed[g][p]
               \/ committed[g][p] # NoOffset /\ committed'[g][p] > committed[g][p]
    <3>1. PICK o \in (committed[h][q] + 1)..high[q] : committed' = [committed EXCEPT ![h][q] = o]
      BY <2>1 DEF CommitForward
    <3>2. committed[h][q] \in Int /\ high[q] \in Int /\ committed[h][q] # NoOffset
      BY <2>1, TopicFacts DEF CommitForward, TypeOK, TopicTypeOK, NoOffset
    <3>3. o > committed[h][q]
      BY <3>1, <3>2
    <3>4. committed \in [Group -> [Partition -> Nat \cup {NoOffset}]]
      BY DEF TypeOK, TopicTypeOK
    <3>. QED
      BY <3>1, <3>2, <3>3, <3>4
  <2>2. ASSUME NEW h \in Group, NEW q \in Partition,
               Produce(q) \/ RetentionCheck(q) \/ ResetOffset(h, q)
        PROVE  committed' = committed
    BY <2>2 DEF Produce, RetentionCheck, ResetOffset
  <2>. QED
    BY <1>1, <2>1, <2>2 DEF Environment, TopicStep, Produce, RetentionCheck
<1>2. CASE ~Environment
  <2>1. committed' = committed
    BY <1>2 DEF Next, vars, topicVars, Tick, StartPhase, Crash, PhaseStep, ReadEvidence,
         CompareInventory, Look, WakeUp, WritePrediction, ConsumerInventory, WriteSizes,
         AlterRetention, BeginCheck, PollDone, ReadMarks, WriteCheck, ReclaimGate,
         ReadCommitted, ResumeConsumer
  <2>. QED
    BY <2>1
<1>. QED
  BY <1>1, <1>2

\* Some segment is kept, so the cut is the base of one.
LEMMA CutIsKept ==
  ASSUME TypeOK, NEW pred, Established(pred), NEW p \in Partition
  PROVE  cut(pred, p) \in kept_segments(baseline[p], pred.deleted[p]) /\ cut(pred, p) \in Nat
<1>. DEFINE K == kept_segments(baseline[p], pred.deleted[p])
<1>1. K \in SUBSET Nat /\ K # {}
  BY BaselineFacts DEF Established, kept_segments
<1>2. cut(pred, p) = Min(K)
  BY <1>1 DEF cut, predicted_log_start
<1>. HIDE DEF K
<1>3. Min(K) \in K
  BY <1>1, MinOfNat
<1>. QED
  BY <1>1, <1>2, <1>3 DEF K

LEMMA GroupsAboveCutStays ==
  ASSUME TypeOK, ~Rewinds, [Next]_vars, NEW pred, Established(pred), UNCHANGED baseline,
         GroupsAboveCut(pred)
  PROVE  GroupsAboveCut(pred)'
<1>1. SUFFICES ASSUME NEW g \in Group \ Acked, NEW p \in Partition, committed'[g][p] # NoOffset
               PROVE  committed'[g][p] >= cut(pred, p)
  BY DEF GroupsAboveCut, cut
<1>2. cut(pred, p) \in Nat
  BY CutIsKept
<1>3. \/ committed'[g][p] = committed[g][p]
      \/ committed[g][p] # NoOffset /\ committed'[g][p] > committed[g][p]
  BY CommitsOnlyAdvance
<1>4. committed[g][p] # NoOffset => committed[g][p] >= cut(pred, p)
  BY DEF GroupsAboveCut
<1>5. committed[g][p] \in Int /\ committed'[g][p] \in Int
  BY StepTypeOK DEF TypeOK, TopicTypeOK, NoOffset
<1>. QED
  BY <1>1, <1>2, <1>3, <1>4, <1>5

\* The consumer inventory establishes GroupsAboveCut, the commits keep it.
LEMMA StepGroupsInv == TypeOK /\ PruneInv /\ ~Rewinds /\ GroupsInv /\ [Next]_vars => GroupsInv'
<1>. SUFFICES ASSUME TypeOK, PruneInv, ~Rewinds, GroupsInv, [Next]_vars
              PROVE  GroupsInv'
  OBVIOUS
<1>1. UNCHANGED baseline
  BY DEF Next, vars, fixedVars, Tick, Environment, StartPhase, Crash, PhaseStep, ReadEvidence,
         CompareInventory, Look, WakeUp, WritePrediction, ConsumerInventory, WriteSizes,
         AlterRetention, BeginCheck, PollDone, ReadMarks, WriteCheck, ReclaimGate,
         ReadCommitted, ResumeConsumer
<1>2. job \in Job
  BY DEF TypeOK
<1>3. \A pred \in applied : GroupsAboveCut(pred)'
  BY <1>1, GroupsAboveCutStays DEF GroupsInv, PruneInv, FileKnowledge
<1>4. CASE ConsumerInventory
  <2>1. UNCHANGED <<prediction, applied, committed>> /\ job.pc = "groups"
    BY <1>4 DEF ConsumerInventory, topicVars
  <2>2. ASSUME job'.pc = "alter", NEW pred \in prediction["apply"]
        PROVE  GroupsAboveCut(pred)'
    <3>1. PICK e \in prediction[Label[job.phase]] :
            Gate(behind(e) \subseteq Acked, IF job.phase = "40" THEN "sizes" ELSE "alter")
      BY <1>4 DEF ConsumerInventory
    <3>2. behind(e) \subseteq Acked /\ job.phase = "50"
      <4>1. job'.pc = "alter" => job' # NoJob
        BY DEF NoJob
      <4>2. /\ behind(e) \subseteq Acked
            /\ job' = [job EXCEPT !.pc = IF job.phase = "40" THEN "sizes" ELSE "alter"]
        BY <2>2, <3>1, <4>1 DEF Gate, End
      <4>3. job.phase \in Phase
        BY <1>2, <2>1 DEF Job, TypeOK
      <4>. QED
        BY <1>2, <2>2, <4>2, <4>3 DEF Job, Phase
    <3>3. e = pred
      BY <2>2, <3>1, <3>2 DEF PruneInv, FileKnowledge, Label, Phase
    <3>4. Established(pred)
      BY <2>1, <2>2, <3>1, <3>3 DEF PruneInv, JobKnowledge, FileKnowledge, Label, Phase
    <3>5. GroupsAboveCut(pred)
      <4>1. SUFFICES ASSUME NEW g \in Group \ Acked, NEW p \in Partition, committed[g][p] # NoOffset
                     PROVE  committed[g][p] >= cut(pred, p)
        BY DEF GroupsAboveCut
      <4>2. ~(committed[g][p] < cut(pred, p))
        BY <3>2, <3>3, <4>1 DEF behind
      <4>3. cut(pred, p) \in Nat
        BY <3>4, CutIsKept
      <4>4. committed[g][p] \in Int
        BY DEF TypeOK, TopicTypeOK, NoOffset
      <4>. QED
        BY <4>2, <4>3, <4>4
    <3>. QED
      BY <1>1, <3>4, <3>5, GroupsAboveCutStays
  <2>. QED
    BY <1>3, <2>1, <2>2 DEF GroupsInv
<1>5. CASE AlterRetention
  <2>1. job.pc = "alter" /\ applied' = prediction["apply"] /\ job'.pc = "check"
    BY <1>2, <1>5 DEF AlterRetention, Job
  <2>2. ASSUME NEW pred \in prediction["apply"]
        PROVE  Established(pred) /\ GroupsAboveCut(pred)
    BY <2>1, <2>2 DEF PruneInv, JobKnowledge, FileKnowledge, Label, Phase, GroupsInv
  <2>. QED
    BY <1>1, <2>1, <2>2, GroupsAboveCutStays DEF GroupsInv
<1>6. CASE UNCHANGED <<job, prediction, applied>>
  <2>1. ASSUME job.pc = "alter", NEW pred \in prediction["apply"]
        PROVE  GroupsAboveCut(pred)'
    <3>1. Established(pred) /\ GroupsAboveCut(pred)
      BY <2>1 DEF PruneInv, JobKnowledge, FileKnowledge, Label, Phase, GroupsInv
    <3>. QED
      BY <1>1, <3>1, GroupsAboveCutStays
  <2>. QED
    BY <1>3, <1>6, <2>1 DEF GroupsInv
<1>7. CASE ~ConsumerInventory /\ ~AlterRetention /\ ~UNCHANGED <<job, prediction, applied>>
  <2>1. applied' = applied
    BY <1>7 DEF Next, vars, fileVars, Tick, Environment, StartPhase, Crash, PhaseStep, ReadEvidence,
         CompareInventory, Look, WakeUp, WritePrediction, WriteSizes, BeginCheck, PollDone,
         ReadMarks, WriteCheck, ReclaimGate, ReadCommitted, ResumeConsumer
  <2>2. job' = NoJob \/ \E r \in {"evidence", "inventory", "look", "sleep", "predict", "groups", "sizes",
           "check", "poll", "settle", "observe", "reclaim", "resume", "consume"} : job'.pc = r
    BY <1>2, <1>7 DEF Next, vars, fileVars, Tick, Environment, StartPhase, Crash, PhaseStep, ReadEvidence,
         CompareInventory, Look, WakeUp, WritePrediction, WriteSizes, BeginCheck, PollDone,
         ReadMarks, WriteCheck, ReclaimGate, ReadCommitted, ResumeConsumer, End, Gate, Job, NoJob
  <2>3. job'.pc # "alter"
    BY <2>2 DEF NoJob
  <2>. QED
    BY <1>3, <2>1, <2>3 DEF GroupsInv
<1>. QED
  BY <1>4, <1>5, <1>6, <1>7

\* With offsets that only move forward, whoever passed the consumer inventory
\* stays above the cut for good.
THEOREM GroupsStayAboveCut == ASSUME ~Rewinds PROVE Spec => []GroupsInv
<1>1. Init => GroupsInv
  BY DEF Init, NoJob, GroupsInv
<1>2. TypeOK /\ PruneInv /\ GroupsInv /\ [Next]_vars => GroupsInv'
  BY StepGroupsInv
<1>. QED
  BY <1>1, <1>2, PruneInvariant, PTL DEF Spec

\* If groups only commit forward, no group whose impact nobody acknowledged is
\* cut off inside the margin.
THEOREM UnackedGroupIsNotCut == ASSUME ~Rewinds PROVE Spec => []UnackedGroupNotCut
<1>1. Spec => []GroupsInv
  BY GroupsStayAboveCut
<1>2. TypeOK /\ PruneInv /\ GroupsInv => UnackedGroupNotCut
  <2>1. SUFFICES ASSUME TypeOK, PruneInv, GroupsInv, NEW pred \in applied, InForce(pred),
                        NEW g \in Group \ Acked, NEW p \in Partition, committed[g][p] # NoOffset
                 PROVE  committed[g][p] >= low[p]
    BY DEF UnackedGroupNotCut
  <2>2. pred \in Prediction /\ Established(pred) /\ LogInv
    BY <2>1 DEF TypeOK, PruneInv, FileKnowledge
  <2>3. cut(pred, p) \in kept_segments(baseline[p], pred.deleted[p]) /\ cut(pred, p) \in Nat
    BY <2>1, <2>2, CutIsKept
  <2>4. cut(pred, p) \in DOMAIN segs[p]
    BY <2>1, <2>2, <2>3, LostWasPredicted DEF kept_segments, Lost
  <2>5. committed[g][p] >= cut(pred, p) /\ committed[g][p] \in Int
    BY <2>1 DEF GroupsInv, GroupsAboveCut, TypeOK, TopicTypeOK, NoOffset
  <2>. QED
    BY <2>1, <2>3, <2>4, <2>5, TopicFacts
<1>. QED
  BY <1>1, <1>2, PruneInvariant, PTL

-----------------------------------------------------------------------------
(* What a PASS of phase 50 stands for. *)

LEMMA LowNeverFalls ==
  ASSUME TypeOK, [Next]_vars, NEW p \in Partition
  PROVE  low'[p] \in Nat /\ low'[p] >= low[p]
<1>1. CASE Environment
  <2>1. ASSUME NEW q \in Partition, RetentionCheck(q)
        PROVE  low'[p] \in Nat /\ low'[p] >= low[p]
    <3>1. PICK k \in {high[q]} \cup DOMAIN segs[q] : low' = [low EXCEPT ![q] = k]
      BY <2>1 DEF RetentionCheck
    <3>2. k \in Nat /\ k >= low[q]
      BY <3>1, TopicFacts
    <3>. QED
      BY <3>1, <3>2, TopicFacts DEF TypeOK, TopicTypeOK
  <2>2. ASSUME NEW h \in Group, NEW q \in Partition,
               Produce(q) \/ CommitForward(h, q) \/ ResetOffset(h, q)
        PROVE  low' = low
    BY <2>2 DEF Produce, CommitForward, ResetOffset
  <2>3. Group # {}
    BY PruneGateAssumption
  <2>. QED
    BY <1>1, <2>1, <2>2, <2>3, TopicFacts DEF Environment, TopicStep
<1>2. CASE ~Environment
  <2>1. low' = low
    BY <1>2 DEF Next, vars, topicVars, Tick, StartPhase, Crash, PhaseStep, ReadEvidence,
         CompareInventory, Look, WakeUp, WritePrediction, ConsumerInventory, WriteSizes,
         AlterRetention, BeginCheck, PollDone, ReadMarks, WriteCheck, ReclaimGate,
         ReadCommitted, ResumeConsumer
  <2>. QED
    BY <2>1, TopicFacts
<1>. QED
  BY <1>1, <1>2

LEMMA CheckHoldsStays ==
  ASSUME TypeOK, [Next]_vars, UNCHANGED <<baseline, evidence>>, NEW c \in Check, CheckHolds(c)
  PROVE  CheckHolds(c)'
<1>1. \A p \in Partition : c.low[p] <= low'[p]
  <2>1. SUFFICES ASSUME NEW p \in Partition PROVE c.low[p] <= low'[p]
    OBVIOUS
  <2>2. c.low[p] \in Nat /\ c.low[p] <= low[p]
    BY DEF Check, CheckHolds
  <2>. QED
    BY <2>2, LowNeverFalls, TopicFacts
<1>. QED
  BY <1>1 DEF CheckHolds

\* An established prediction that deletes anything of a partition moves its
\* log start.
LEMMA DeletingMovesCut ==
  ASSUME TypeOK, NEW pred, Established(pred), NEW p \in Partition, pred.deleted[p] # {}
  PROVE  cut(pred, p) > baseline[p].log_start
<1>. DEFINE B == DOMAIN baseline[p].segments
<1>1. cut(pred, p) \in kept_segments(baseline[p], pred.deleted[p]) /\ cut(pred, p) \in Nat
  BY CutIsKept
<1>2. cut(pred, p) \in B /\ cut(pred, p) \notin pred.deleted[p]
  BY <1>1 DEF kept_segments
<1>3. pred.deleted[p] = DeletableSegments(baseline[p].segments, baseline[p].high_watermark,
                                          baseline[p].high_watermark, pred.now, Retention)
  BY DEF Established, build_prediction, predict_partition
<1>4. baseline[p].log_start \in B /\ \A b \in B : baseline[p].log_start <= b
  BY BaselineFacts DEF SeededPartition
<1>5. baseline[p].log_start \in pred.deleted[p]
  <2>. DEFINE Del(c) == Deletable(baseline[p].segments, c, baseline[p].high_watermark,
                                  baseline[p].high_watermark, pred.now, Retention)
  <2>1. pred.deleted[p] = {b \in B : \A c \in B : c <= b => Del(c)}
    BY <1>3, Zenon DEF DeletableSegments
  <2>. HIDE DEF Del
  <2>2. PICK d \in B : \A c \in B : c <= d => Del(c)
    BY <2>1
  <2>3. \A c \in B : c <= baseline[p].log_start => c <= d
    BY <1>4, <2>2, BaselineFacts
  <2>. QED
    BY <1>4, <2>1, <2>2, <2>3
<1>. QED
  BY <1>1, <1>2, <1>4, <1>5, BaselineFacts

\* The gates of prune-check establish what PassedPruneStands says.
LEMMA PassedCheckHolds ==
  ASSUME TypeOK, PruneInv, OutcomeInv, job.pc = "observe", NEW pred \in prediction["apply"],
         \A p \in Partition : /\ job.marks[p].low = cut(pred, p)
                              /\ evidence.first[p] <= baseline[p].log_start
                              /\ evidence.last[p] >= cut(pred, p) - 1,
         \E p \in Partition : pred.deleted[p] # {}, NEW ok
  PROVE  CheckHolds([low |-> [p \in Partition |-> job.marks[p].low], passed |-> ok])
<1>1. Established(pred)
  BY DEF OutcomeInv, PruneInv, FileKnowledge
<1>2. \E p \in Partition : job.marks[p].low > baseline[p].log_start
  BY <1>1, DeletingMovesCut
<1>3. ASSUME NEW p \in Partition
      PROVE  /\ job.marks[p].low <= low[p]
             /\ baseline[p].log_start..(job.marks[p].low - 1) \subseteq evidence.first[p]..evidence.last[p]
  <2>1. job.marks[p].low <= low[p]
    BY DEF OutcomeInv
  <2>2. cut(pred, p) \in Nat
    BY <1>1, CutIsKept
  <2>3. evidence.first[p] \in Nat /\ evidence.last[p] \in Int
    BY PruneGateAssumption DEF TypeOK, EvidenceTypeOK
  <2>. QED
    BY <2>1, <2>2, <2>3, BaselineFacts
<1>. QED
  BY <1>2, <1>3 DEF CheckHolds

\* OutcomeInv where the files that it is about stay.
LEMMA CheckInvStays ==
  ASSUME TypeOK, OutcomeInv, [Next]_vars, UNCHANGED <<baseline, evidence, check>>
  PROVE  /\ \A c \in check' : c.passed => CheckHolds(c)'
         /\ CheckPassed' <=> CheckPassed
BY CheckHoldsStays DEF TypeOK, OutcomeInv, CheckPassed

LEMMA StepOutcomeInv == TypeOK /\ PruneInv /\ OutcomeInv /\ [Next]_vars => OutcomeInv'
<1>. SUFFICES ASSUME TypeOK, PruneInv, OutcomeInv, [Next]_vars
              PROVE  OutcomeInv'
  OBVIOUS
<1>1. UNCHANGED <<baseline, evidence>>
  BY DEF Next, vars, fixedVars, Tick, Environment, StartPhase, Crash, PhaseStep, ReadEvidence,
         CompareInventory, Look, WakeUp, WritePrediction, ConsumerInventory, WriteSizes,
         AlterRetention, BeginCheck, PollDone, ReadMarks, WriteCheck, ReclaimGate,
         ReadCommitted, ResumeConsumer
<1>2. job \in Job /\ timings \in [Phase -> {"NONE", "PASS", "FAIL"}]
  BY DEF TypeOK
<1>3. CASE UNCHANGED <<job, check, timings, prediction>>
  <2>1. job.pc = "observe" => \A p \in Partition : job.marks[p].low <= low'[p]
    <3>1. SUFFICES ASSUME job.pc = "observe", NEW p \in Partition
                   PROVE  job.marks[p].low <= low'[p]
      OBVIOUS
    <3>2. job.marks[p].low <= low[p] /\ job.marks[p].low \in Nat
      BY <1>2, <3>1 DEF OutcomeInv, Job, Marks
    <3>. QED
      BY <3>2, LowNeverFalls, TopicFacts
  <2>. QED
    BY <1>1, <1>3, <2>1, CheckInvStays DEF OutcomeInv
<1>4. ASSUME UNCHANGED check, job' = NoJob,
             timings'["50"] = "PASS" => timings["50"] = "PASS" \/ CheckPassed
      PROVE  OutcomeInv'
  BY <1>1, <1>4, CheckInvStays DEF OutcomeInv, NoJob
<1>5. ASSUME UNCHANGED <<check, timings>>,
             job'.pc \in {"evidence", "inventory", "look", "sleep", "predict", "groups", "alter"}
      PROVE  OutcomeInv'
  BY <1>1, <1>5, CheckInvStays DEF OutcomeInv
<1>6. CASE StartPhase("40") \/ StartPhase("50") \/ ReadEvidence \/ CompareInventory \/ Look \/ WakeUp
  <2>1. UNCHANGED <<check, timings>>
    BY <1>6 DEF StartPhase, ReadEvidence, CompareInventory, Look, WakeUp, fileVars
  <2>2. job'.pc \in {"evidence", "inventory", "look", "sleep", "predict"}
    BY <1>2, <1>6 DEF StartPhase, ReadEvidence, CompareInventory, Look, WakeUp, NoJob, Job
  <2>. QED
    BY <1>5, <2>1, <2>2
<1>7. CASE WritePrediction
  <2>1. check' = check
    BY <1>7 DEF WritePrediction
  <2>2. End("FAIL") \/ (UNCHANGED timings /\ job' = [job EXCEPT !.pc = "groups"])
    BY <1>7, Zenon DEF WritePrediction, Gate
  <2>3. CASE End("FAIL")
    BY <1>2, <1>4, <2>1, <2>3 DEF End
  <2>4. CASE UNCHANGED timings /\ job' = [job EXCEPT !.pc = "groups"]
    BY <1>2, <1>5, <2>1, <2>4 DEF Job
  <2>. QED
    BY <2>2, <2>3, <2>4
<1>8. CASE ConsumerInventory
  <2>1. UNCHANGED <<check, prediction>>
    BY <1>8 DEF ConsumerInventory
  <2>2. End("FAIL") \/ (UNCHANGED timings /\ job' = [job EXCEPT !.pc = IF job.phase = "40" THEN "sizes" ELSE "alter"])
    BY <1>8, Zenon DEF ConsumerInventory, Gate
  <2>3. CASE End("FAIL")
    BY <1>2, <1>4, <2>1, <2>3 DEF End
  <2>4. CASE UNCHANGED timings /\ job' = [job EXCEPT !.pc = IF job.phase = "40" THEN "sizes" ELSE "alter"]
    <3>1. (job'.pc = "sizes" /\ job'.phase = "40") \/ job'.pc = "alter"
      BY <1>2, <2>4 DEF Job
    <3>. QED
      BY <1>1, <2>1, <2>4, <3>1, CheckInvStays DEF OutcomeInv
  <2>. QED
    BY <2>2, <2>3, <2>4
<1>9. CASE WriteSizes
  <2>1. check' = check /\ End("PASS") /\ job.phase = "40"
    BY <1>9 DEF WriteSizes, OutcomeInv
  <2>. QED
    BY <1>2, <1>4, <2>1 DEF End
<1>10. CASE AlterRetention
  <2>1. UNCHANGED <<check, timings, prediction>> /\ job.pc = "alter" /\ job'.pc = "check"
    BY <1>2, <1>10 DEF AlterRetention, Job
  <2>2. \A pred \in prediction["apply"] : pred.passed
    BY <2>1 DEF PruneInv, JobKnowledge, Label, Phase
  <2>. QED
    BY <1>1, <2>1, <2>2, CheckInvStays DEF OutcomeInv
<1>11. CASE BeginCheck \/ PollDone
  <2>1. UNCHANGED <<check, timings, prediction>> /\ job.pc \in {"check", "poll"} /\ job'.pc \in {"poll", "settle"}
    BY <1>2, <1>11 DEF BeginCheck, PollDone, fileVars, Job
  <2>. QED
    BY <1>1, <2>1, CheckInvStays DEF OutcomeInv
<1>12. CASE ReadMarks
  <2>1. UNCHANGED <<check, timings, prediction, low>> /\ job.pc = "settle"
    BY <1>12 DEF ReadMarks, topicVars, fileVars
  <2>2. job'.pc = "observe" /\ job'.marks = watermarks
    BY <1>2, <1>12 DEF ReadMarks, Job
  <2>3. \A p \in Partition : job'.marks[p].low <= low'[p]
    BY <2>1, <2>2, TopicFacts DEF watermarks
  <2>. QED
    BY <1>1, <2>1, <2>2, <2>3, CheckInvStays DEF OutcomeInv
<1>13. CASE WriteCheck
  <2>. DEFINE Seen(ok) == [low |-> [p \in Partition |-> job.marks[p].low], passed |-> ok]
              Gates(pred) ==
                /\ \A p \in Partition :
                     /\ job.marks[p].low = cut(pred, p)
                     /\ DOMAIN segs[p] = kept_segments(baseline[p], pred.deleted[p])
                     /\ evidence.first[p] <= baseline[p].log_start
                     /\ evidence.last[p] >= cut(pred, p) - 1
                /\ bytes_before - log_dir_sizes = deleted_bytes(pred)
                /\ only_old_data_deleted(pred, job.clock)
  <2>1. PICK pred \in prediction["apply"] :
          \/ End("FAIL") /\ UNCHANGED check
          \/ /\ deletes_something(pred)
             /\ check' = {Seen(Gates(pred))} /\ Gate(Gates(pred), "reclaim")
    BY <1>13, Zenon DEF WriteCheck
  <2>2. job.pc = "observe" /\ prediction' = prediction
    BY <1>13 DEF WriteCheck
  <2>3. job.phase = "50"
    BY <2>2 DEF PruneInv, JobKnowledge
  <2>4. CASE End("FAIL") /\ UNCHANGED check
    BY <1>2, <1>4, <2>4 DEF End
  <2>5. SUFFICES ASSUME deletes_something(pred),
                        check' = {Seen(Gates(pred))}, Gate(Gates(pred), "reclaim")
                 PROVE  OutcomeInv'
    BY <2>1, <2>4, Zenon
  <2>6. CASE Gates(pred)
    <3>1. CheckHolds(Seen(TRUE))
      <4>1. /\ \A p \in Partition : /\ job.marks[p].low = cut(pred, p)
                                    /\ evidence.first[p] <= baseline[p].log_start
                                    /\ evidence.last[p] >= cut(pred, p) - 1
            /\ \E p \in Partition : pred.deleted[p] # {}
        BY <2>5, <2>6, Zenon DEF deletes_something
      <4>. QED
        BY <2>2, <4>1, PassedCheckHolds
    <3>2. Gates(pred) = TRUE
      BY <2>6
    <3>. HIDE DEF Gates
    <3>3. check' = {Seen(TRUE)}
      BY <2>5, <3>2
    <3>4. Seen(TRUE) \in Check /\ Seen(TRUE).passed
      BY <1>2 DEF Check, Job, Marks
    <3>. HIDE DEF Seen
    <3>5. PICK c \in Check : c = Seen(TRUE) /\ check' = {c} /\ c.passed
      BY <3>3, <3>4
    <3>6. CheckHolds(c)'
      BY <1>1, <3>1, <3>5, CheckHoldsStays
    <3>7. UNCHANGED timings /\ job'.pc = "reclaim"
      BY <1>2, <2>5, <2>6 DEF Gate, Job
    <3>. QED
      BY <3>5, <3>6, <3>7 DEF OutcomeInv, CheckPassed
  <2>7. CASE ~Gates(pred)
    <3>. HIDE DEF Gates
    <3>1. End("FAIL")
      BY <2>5, <2>7, Zenon DEF Gate
    <3>2. job' = NoJob /\ timings'["50"] = "FAIL"
      BY <1>2, <2>3, <3>1 DEF End, Phase
    <3>3. \A c \in check' : ~c.passed
      BY <2>5, <2>7
    <3>. QED
      BY <3>2, <3>3 DEF OutcomeInv, NoJob
  <2>. QED
    BY <2>6, <2>7
<1>14. CASE ReclaimGate \/ ReadCommitted
  <2>1. check' = check /\ CheckPassed
    BY <1>14 DEF ReclaimGate, ReadCommitted, fileVars, OutcomeInv
  <2>2. End("FAIL") \/ (UNCHANGED timings /\ job'.pc \in {"resume", "consume"})
    BY <1>2, <1>14 DEF ReclaimGate, ReadCommitted, Gate, fileVars, Job
  <2>3. CASE End("FAIL")
    BY <1>2, <1>4, <2>1, <2>3 DEF End
  <2>4. CASE UNCHANGED timings /\ job'.pc \in {"resume", "consume"}
    BY <1>1, <2>1, <2>4, CheckInvStays DEF OutcomeInv
  <2>. QED
    BY <2>2, <2>3, <2>4
<1>15. CASE ResumeConsumer
  <2>1. check' = check /\ CheckPassed /\ job' = NoJob
    BY <1>15 DEF ResumeConsumer, OutcomeInv, End
  <2>. QED
    BY <1>4, <2>1
<1>16. CASE Crash
  <2>1. UNCHANGED <<check, timings>> /\ job' = NoJob
    BY <1>16 DEF Crash, fileVars
  <2>. QED
    BY <1>4, <2>1
<1>17. CASE Tick \/ Environment \/ UNCHANGED vars
  BY <1>3, <1>17 DEF Tick, Environment, vars, fileVars
<1>. QED
  BY <1>6, <1>7, <1>8, <1>9, <1>10, <1>11, <1>12, <1>13, <1>14, <1>15, <1>16, <1>17 DEF Next, PhaseStep, Phase

\* However often the phases are re-run or killed, a PASS of phase 50 stays
\* backed by a check that passed, of a deletion that stands and is sealed.
THEOREM PassedPruneIsBacked == Spec => []PassedPruneStands
<1>1. Init => OutcomeInv
  BY DEF Init, NoJob, OutcomeInv, Phase
<1>2. TypeOK /\ PruneInv /\ OutcomeInv /\ [Next]_vars => OutcomeInv'
  BY StepOutcomeInv
<1>3. OutcomeInv => PassedPruneStands
  BY DEF OutcomeInv, PassedPruneStands, CheckPassed, CheckHolds
<1>. QED
  BY <1>1, <1>2, <1>3, PruneInvariant, PTL DEF Spec

-----------------------------------------------------------------------------
(* The refinement. *)


\* The oldest segment of the log is one of the baseline while a prediction is
\* in force.
OldestIsOfBaseline ==
  \A pred \in applied : InForce(pred) =>
    \A p \in Partition : low[p] \in DOMAIN baseline[p].segments \cap DOMAIN segs[p]

-----------------------------------------------------------------------------
\* Where a prediction cuts while it is in force: at a segment that is still in
\* the log, below the watermark of the baseline, with all in front of it sealed.
LEMMA CutIsHonest ==
  ASSUME TypeOK, LogInv, NEW pred \in Prediction, Established(pred), InForce(pred), NEW p \in Partition
  PROVE  /\ cut(pred, p) \in DOMAIN segs[p]
         /\ low[p] <= cut(pred, p) /\ cut(pred, p) < high[p]
         /\ baseline[p].log_start..(cut(pred, p) - 1) \subseteq evidence.first[p]..evidence.last[p]
<1>1. cut(pred, p) \in kept_segments(baseline[p], pred.deleted[p]) /\ cut(pred, p) \in Nat
  BY CutIsKept
<1>2. cut(pred, p) \in DOMAIN segs[p] /\ cut(pred, p) < baseline[p].high_watermark
  BY <1>1, LostWasPredicted, BaselineFacts DEF kept_segments, Lost
<1>3. baseline[p].high_watermark <= high[p]
  BY DEF LogInv, ExtendsBaseline
<1>4. /\ evidence.first[p] <= baseline[p].log_start
      /\ evidence.last[p] >= baseline[p].high_watermark - 1
  BY DEF Established, BaselineSealed
<1>5. evidence.first[p] \in Nat /\ evidence.last[p] \in Int
  BY PruneGateAssumption DEF TypeOK, EvidenceTypeOK
<1>. QED
  BY <1>1, <1>2, <1>3, <1>4, <1>5, BaselineFacts, TopicFacts

LEMMA OldestStays == TypeOK /\ PruneInv => OldestIsOfBaseline
<1>. SUFFICES ASSUME TypeOK, PruneInv, NEW pred \in applied, InForce(pred), NEW p \in Partition
              PROVE  low[p] \in DOMAIN baseline[p].segments \cap DOMAIN segs[p]
  BY DEF OldestIsOfBaseline
<1>1. pred \in Prediction /\ Established(pred) /\ LogInv
  BY DEF TypeOK, PruneInv, FileKnowledge
<1>2. PICK k \in DOMAIN baseline[p].segments : k \in DOMAIN segs[p]
  BY <1>1, SomethingIsKept
<1>3. low[p] < baseline[p].high_watermark
  BY <1>2, BaselineFacts, TopicFacts
<1>. QED
  BY <1>1, <1>3, BaselineFacts, TopicFacts DEF LogInv, ExtendsBaseline

\* What a retention check leaves of a partition.
LEMMA CheckLeaves ==
  ASSUME TypeOK, NEW p \in Partition, RetentionCheck(p)
  PROVE  \/ DOMAIN segs'[p] = {high[p]}
         \/ DOMAIN segs'[p] = DOMAIN segs[p] \ DeletableSegments(segs[p], high[p], high[p], now, retention_ms)
<1>1. DOMAIN segs = Partition
  BY DEF TypeOK, TopicTypeOK
<1>2. \/ segs' = [segs EXCEPT ![p] = [b \in {high[p]} |-> EmptySegment]]
      \/ segs' = [segs EXCEPT ![p] = Restrict(segs[p], DOMAIN segs[p] \
                    DeletableSegments(segs[p], high[p], high[p], now, retention_ms))]
  BY DEF RetentionCheck
<1>. QED
  BY <1>1, <1>2 DEF Restrict

\* A retention check inside the margin moves the log start to the cut.
LEMMA CheckMovesToCut ==
  ASSUME TypeOK, TypeOK', PruneInv, PruneInv', OldestIsOfBaseline', OnlyPredictedDeleted',
         NEW p \in Partition, RetentionCheck(p), UNCHANGED <<baseline, applied>>,
         NEW pred \in applied, InForce(pred)
  PROVE  low'[p] = cut(pred, p)
<1>. DEFINE D == DeletableSegments(segs[p], high[p], high[p], now, retention_ms)
            B == DOMAIN baseline[p].segments
<1>1. now' = now /\ D # {}
  BY DEF RetentionCheck
<1>2. /\ pred \in Prediction /\ Established(pred) /\ LogInv
      /\ Established(pred)' /\ LogInv' /\ InForce(pred)'
  BY <1>1 DEF TypeOK, PruneInv, FileKnowledge, InForce
<1>3. low[p] \in B /\ low[p] \in DOMAIN segs[p]
  BY OldestStays DEF OldestIsOfBaseline
<1>4. low'[p] \in B /\ low'[p] \in DOMAIN segs'[p]
  BY <1>2 DEF OldestIsOfBaseline
<1>5. low[p] \notin DOMAIN segs'[p]
  <2>1. low[p] \in D
    <3>. HIDE DEF D
    <3>1. PICK d \in D : TRUE
      BY <1>1
    <3>. USE DEF D
    <3>2. d \in DOMAIN segs[p] /\ \A c \in DOMAIN segs[p] :
            c <= d => Deletable(segs[p], c, high[p], high[p], now, retention_ms)
      BY <3>1, Zenon DEF DeletableSegments
    <3>3. \A c \in DOMAIN segs[p] : c <= low[p] => c <= d
      BY <3>2, TopicFacts
    <3>4. \A c \in DOMAIN segs[p] : c <= low[p] => Deletable(segs[p], c, high[p], high[p], now, retention_ms)
      BY <3>2, <3>3
    <3>. QED
      BY <1>3, <3>4, Zenon DEF DeletableSegments
  <2>2. high[p] \notin B
    BY <1>2, BaselineFacts, TopicFacts DEF LogInv, ExtendsBaseline
  <2>3. DOMAIN segs'[p] = {high[p]} \/ DOMAIN segs'[p] = DOMAIN segs[p] \ D
    BY CheckLeaves
  <2>. HIDE DEF D
  <2>. QED
    BY <1>3, <2>1, <2>2, <2>3
<1>6. Lost(p)' = pred.deleted[p]
  BY <1>2, <1>3, <1>5, CheckLosesPrediction DEF Lost
<1>7. cut(pred, p) \in kept_segments(baseline[p], pred.deleted[p]) /\ cut(pred, p) \in Nat
  BY <1>2, CutIsKept
<1>8. kept_segments(baseline[p], pred.deleted[p]) = B \cap DOMAIN segs'[p]
  BY <1>6 DEF kept_segments, Lost
<1>9. low'[p] <= cut(pred, p)
  BY <1>7, <1>8 DEF TypeOK, TopicTypeOK, PartitionTypeOK
<1>10. cut(pred, p) <= low'[p]
  <2>1. kept_segments(baseline[p], pred.deleted[p]) \in SUBSET Nat
    BY BaselineFacts DEF kept_segments
  <2>2. cut(pred, p) = Min(kept_segments(baseline[p], pred.deleted[p]))
    BY <1>7 DEF cut, predicted_log_start
  <2>. QED
    BY <1>4, <1>7, <1>8, <2>1, <2>2, MinOfNat
<1>11. low'[p] \in Nat
  BY DEF TypeOK, TopicTypeOK, PartitionTypeOK, IsLog
<1>. QED
  BY <1>7, <1>9, <1>10, <1>11

-----------------------------------------------------------------------------
(* The steps. *)

LEMMA InitImplements == Init => O!Init
<1>. SUFFICES ASSUME Init PROVE O!Init
  OBVIOUS
<1>1. TypeOK
  BY InitTypeOK
<1>2. low \in [Partition -> Nat] /\ \A p \in Partition : low[p] <= high[p]
  <2>1. \A p \in Partition : low[p] \in Nat /\ low[p] <= high[p]
    BY <1>1, TopicFacts
  <2>2. low = [p \in Partition |-> low[p]]
    BY DEF Init, InitTopic
  <2>. QED
    BY <2>1, <2>2
<1>3. [p \in Partition |-> baseline[p].log_start] = low
  BY <1>2 DEF Init
<1>4. ~(applied # {}) /\ boundaries = {}
  BY DEF Init, boundaries
<1>. QED
  BY <1>2, <1>3, <1>4 DEF O!Init

\* The mapped state depends on the clock only through the margin.
LEMMA QuietStutters ==
  ASSUME UNCHANGED <<now, low, high, baseline, evidence, applied>>
  PROVE  UNCHANGED O!vars
BY DEF O!vars, boundaries, spans, cut, InForce

LEMMA ProduceImplements ==
  ASSUME TypeOK, NEW p \in Partition, Produce(p), UNCHANGED <<baseline, evidence, applied>>
  PROVE  O!Append(p)
<1>1. UNCHANGED <<now, low>> /\ high' = [high EXCEPT ![p] = high[p] + 1]
  BY DEF Produce
<1>2. boundaries' = boundaries /\ spans' = spans
  BY <1>1 DEF boundaries, spans, cut, InForce
<1>. QED
  BY <1>1, <1>2 DEF O!Append

LEMMA RetentionCheckImplements ==
  ASSUME TypeOK, TypeOK', PruneInv, PruneInv', OldestIsOfBaseline', OnlyPredictedDeleted',
         NEW p \in Partition, RetentionCheck(p), UNCHANGED <<baseline, evidence, applied>>
  PROVE  O!Remove(p)
<1>1. UNCHANGED <<now, high>> /\ retention_ms # Infinite
  BY DEF RetentionCheck
<1>2. boundaries' = boundaries /\ spans' = spans
  BY <1>1 DEF boundaries, spans, cut, InForce
<1>3. applied # {}
  BY <1>1 DEF PruneInv, AppliedInv
<1>4. low' = [low EXCEPT ![p] = low'[p]]
  BY DEF RetentionCheck, TypeOK, TopicTypeOK
<1>5. low[p] <= low'[p] /\ low'[p] <= high[p]
  <2>1. low'[p] \in {high[p]} \cup DOMAIN segs[p]
    BY DEF RetentionCheck, TypeOK, TopicTypeOK
  <2>. QED
    BY <2>1, TopicFacts
<1>6. \A b \in boundaries : low'[p] = b[p]
  BY CheckMovesToCut DEF boundaries
<1>. QED
  BY <1>1, <1>2, <1>3, <1>4, <1>5, <1>6 DEF O!Remove

\* Time only ends the margin.
LEMMA TickImplements ==
  ASSUME TypeOK, PruneInv, Tick
  PROVE  O!GiveUp \/ UNCHANGED O!vars
<1>1. now' = now + 1 /\ now \in Nat /\ UNCHANGED <<low, high, baseline, evidence, applied>>
  BY DEF Tick, TypeOK, TopicTypeOK, fixedVars, fileVars
<1>2. spans' = spans
  BY <1>1 DEF spans
<1>3. CASE \A pred \in applied : InForce(pred)' <=> InForce(pred)
  <2>1. boundaries' = boundaries
    BY <1>1, <1>3 DEF boundaries, cut
  <2>. QED
    BY <1>1, <1>2, <2>1 DEF O!vars
<1>4. CASE \E pred \in applied : ~(InForce(pred)' <=> InForce(pred))
  <2>1. PICK pred \in applied : ~(InForce(pred)' <=> InForce(pred))
    BY <1>4
  <2>2. pred.now \in Nat /\ Margin \in Nat
    BY PruneGateAssumption DEF TypeOK, Prediction
  <2>3. ~InForce(pred)'
    BY <1>1, <2>1, <2>2 DEF InForce
  <2>4. \A a \in applied' : a = pred
    BY <1>1 DEF PruneInv, AppliedInv
  <2>5. boundaries' = {}
    BY <2>3, <2>4 DEF boundaries
  <2>6. applied' # {}
    BY <1>1, <2>1
  <2>. QED
    BY <1>1, <1>2, <2>5, <2>6 DEF O!GiveUp
<1>. QED
  BY <1>3, <1>4

\* retention.ms is lowered with a prediction that is in force, or too late.
LEMMA AlterRetentionImplements ==
  ASSUME TypeOK, TypeOK', PruneInv, PruneInv', AlterRetention
  PROVE  O!Give \/ O!GiveUp
<1>1. UNCHANGED <<now, low, high, baseline, evidence>>
  BY DEF AlterRetention, fixedVars
<1>2. applied' # {}
  BY DEF AlterRetention, PruneInv, AppliedInv
<1>3. spans' = spans
  BY <1>1 DEF spans
<1>4. CASE boundaries' = {}
  BY <1>1, <1>2, <1>3, <1>4 DEF O!GiveUp
<1>5. CASE boundaries' # {}
  <2>1. ASSUME NEW b \in boundaries'
        PROVE  O!Honest(b)
    <3>1. PICK pred \in applied' : InForce(pred)' /\ b = [p \in Partition |-> cut(pred, p)']
      BY <2>1 DEF boundaries
    <3>2. pred \in Prediction /\ Established(pred) /\ InForce(pred)
      <4>1. pred \in Prediction /\ Established(pred)'
        BY <3>1 DEF TypeOK, PruneInv, FileKnowledge
      <4>. QED
        BY <1>1, <3>1, <4>1 DEF Established, InForce, build_prediction, BaselineSealed
    <3>3. \A p \in Partition : b[p] = cut(pred, p)
      BY <1>1, <3>1 DEF cut
    <3>. QED
      BY <3>2, <3>3, CutIsHonest DEF O!Honest, PruneInv, spans
  <2>. QED
    BY <1>1, <1>2, <1>3, <1>5, <2>1 DEF O!Give
<1>. QED
  BY <1>4, <1>5

LEMMA StepImplements ==
  ASSUME TypeOK, TypeOK', PruneInv, PruneInv', OldestIsOfBaseline', OnlyPredictedDeleted', [Next]_vars
  PROVE  [O!Next]_(O!vars)
<1>1. CASE Environment
  <2>1. UNCHANGED <<baseline, evidence, applied>>
    BY <1>1 DEF Environment, fixedVars, fileVars
  <2>2. ASSUME NEW p \in Partition, Produce(p)
        PROVE  O!Next
    BY <2>1, <2>2, ProduceImplements DEF O!Next
  <2>3. ASSUME NEW p \in Partition, RetentionCheck(p)
        PROVE  O!Next
    BY <2>1, <2>3, RetentionCheckImplements DEF O!Next
  <2>4. ASSUME NEW g \in Group, NEW p \in Partition, CommitForward(g, p) \/ ResetOffset(g, p)
        PROVE  UNCHANGED O!vars
    <3>1. UNCHANGED <<now, low, high>>
      BY <2>4 DEF CommitForward, ResetOffset
    <3>. QED
      BY <2>1, <3>1, QuietStutters
  <2>. QED
    BY <1>1, <2>2, <2>3, <2>4 DEF Environment, TopicStep
<1>2. CASE Tick
  BY <1>2, TickImplements DEF O!Next
<1>3. CASE AlterRetention
  BY <1>3, AlterRetentionImplements DEF O!Next
<1>4. CASE ~Environment /\ ~Tick /\ ~AlterRetention
  <2>1. UNCHANGED <<now, low, high, baseline, evidence, applied>>
    BY <1>4 DEF Next, vars, topicVars, fixedVars, fileVars, StartPhase, Crash, PhaseStep, ReadEvidence,
         CompareInventory, Look, WakeUp, WritePrediction, ConsumerInventory, WriteSizes, BeginCheck,
         PollDone, ReadMarks, WriteCheck, ReclaimGate, ReadCommitted, ResumeConsumer
  <2>. QED
    BY <2>1, QuietStutters
<1>. QED
  BY <1>1, <1>2, <1>3, <1>4

\* For every topic, retention, margin and set of groups, whatever broker,
\* producers, groups and crashes do: phases 40 and 50 keep Offload's promise.
THEOREM PruneImplementsOffload == Spec => ImplementsOffload
<1>1. Init => O!Init
  BY InitImplements
<1>2. TypeOK /\ TypeOK' /\ PruneInv /\ PruneInv' /\ OldestIsOfBaseline' /\ OnlyPredictedDeleted' /\ [Next]_vars => [O!Next]_(O!vars)
  BY StepImplements
<1>. QED
  BY <1>1, <1>2, PruneInvariant, OldestStays, OnlyPredictedIsDeleted, PTL DEF Spec, ImplementsOffload, O!Spec

=============================================================================
