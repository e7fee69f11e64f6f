------------------------- MODULE PruneSafetyProofs --------------------------
(***************************************************************************)
(* The types of PruneGate and the safety argument of the prune, for every  *)
(* topic, retention, margin and number of partitions and groups.  The      *)
(* inductive invariant PruneInv says that the live log extends the         *)
(* baseline, that what it lost is a prefix of the baseline which had aged  *)
(* out (LogInv), and what the gates have established about each prediction *)
(* that passed (JobKnowledge and FileKnowledge).                           *)
(***************************************************************************)
EXTENDS PruneGate, WellFoundedInduction, TLAPS

-----------------------------------------------------------------------------
(* Lemmas about the retention arithmetic. *)

\* Every nonempty set of naturals has a smallest element, so Min is defined.
LEMMA MinOfNat ==
  ASSUME NEW S \in SUBSET Nat, S # {}
  PROVE  Min(S) \in S /\ \A x \in S : Min(S) <= x
<1>. DEFINE R == OpToRel(<, Nat)
<1>1. \E x \in S : \A y \in S : ~(<<y, x>> \in R)
  <2>1. IsWellFoundedOn(R, Nat)
    BY NatLessThanWellFounded, Zenon
  <2>. HIDE DEF R
  <2>. QED
    BY <2>1, WFMin, Zenon
<1>2. PICK x \in S : \A y \in S : ~(<<y, x>> \in R)
  BY <1>1, Zenon
<1>3. \A y \in S : ~(y < x)
  <2>1. SUFFICES ASSUME NEW y \in S, y < x
                 PROVE  <<y, x>> \in R
    BY <1>2, Zenon
  <2>2. <<y, x>> \in Nat \X Nat
    BY Zenon
  <2>. QED
    BY <2>1, <2>2, Zenon DEF OpToRel
<1>. HIDE DEF R
<1>4. \A y \in S : x <= y
  BY <1>3
<1>5. \E z \in S : \A y \in S : z <= y
  BY <1>4, Zenon
<1>. QED
  BY <1>5, Zenon DEF Min

\* A nonempty set of naturals below a bound has a largest element.
LEMMA MaxOfBoundedNat ==
  ASSUME NEW n \in Nat, NEW S \in SUBSET (0..n), S # {}
  PROVE  Max(S) \in S /\ \A x \in S : x <= Max(S)
<1>. DEFINE T == {n - x : x \in S}
<1>1. T \in SUBSET Nat /\ T # {}
  <2>1. \A x \in S : x \in 0..n
    OBVIOUS
  <2>2. \A x \in S : n - x \in Nat
    BY <2>1
  <2>3. PICK x \in S : TRUE
    OBVIOUS
  <2>4. n - x \in T
    BY <2>3
  <2>. QED
    BY <2>2, <2>4
<1>2. Min(T) \in T /\ \A y \in T : Min(T) <= y
  BY <1>1, MinOfNat, Zenon
<1>3. PICK m \in S : Min(T) = n - m
  BY <1>2
<1>4. \A x \in S : m >= x
  <2>1. ASSUME NEW x \in S
        PROVE  m >= x
    <3>1. n - x \in T
      OBVIOUS
    <3>2. n - m <= n - x
      BY <1>2, <1>3, <3>1
    <3>. QED
      BY <3>2
  <2>. QED
    BY <2>1
<1>5. \E z \in S : \A x \in S : z >= x
  BY <1>4, Zenon
<1>6. Max(S) \in S /\ \A x \in S : Max(S) >= x
  BY <1>5, Zenon DEF Max
<1>. QED
  BY <1>6

\* In a seeded partition a segment is deletable exactly when it is breached:
\* whatever follows it starts below the high watermark.
LEMMA PredictIsBreachedPrefix ==
  ASSUME NEW bp, SeededPartition(bp), NEW t \in Int, NEW ret \in Int
  PROVE  predict_partition(bp, t, ret) =
           {b \in DOMAIN bp.segments : \A c \in DOMAIN bp.segments :
               c <= b => t - bp.segments[c].max_ts > ret}
<1>1. ASSUME NEW c \in DOMAIN bp.segments
      PROVE  Deletable(bp.segments, c, bp.high_watermark, bp.high_watermark, t, ret)
               <=> t - bp.segments[c].max_ts > ret
  <2>1. bp.segments[c].count > 0
    BY DEF SeededPartition
  <2>2. BelowHighWatermark(bp.segments, c, bp.high_watermark, bp.high_watermark)
    BY DEF SeededPartition, IsLog, BelowHighWatermark
  <2>. QED
    BY <2>1, <2>2 DEF Deletable, Breached
<1>. QED
  BY <1>1 DEF predict_partition, DeletableSegments

\* The reason for the margin: if no segment is ambiguous at t, a segment that
\* breaches the retention at any time up to t + margin already did at t.
LEMMA UnambiguousIsStable ==
  ASSUME NEW bp, SeededPartition(bp), NEW t \in Int, NEW u \in Int,
         NEW ret \in Int, NEW margin \in Nat, u <= t + margin,
         ambiguous_segments(bp, t, ret, margin) = {},
         NEW b \in DOMAIN bp.segments, u - bp.segments[b].max_ts > ret
  PROVE  t - bp.segments[b].max_ts > ret
<1>1. bp.segments[b].count > 0 /\ bp.segments[b].max_ts \in Int
  BY DEF SeededPartition, IsLog, Segment
<1>. DEFINE age == t - bp.segments[b].max_ts
<1>2. ~(-margin <= age - ret /\ age - ret <= margin)
  BY <1>1 DEF ambiguous_segments
<1>. QED
  BY <1>1, <1>2

-----------------------------------------------------------------------------
(* Types. *)

LEMMA InitTypeOK == Init => TypeOK
<1>. SUFFICES ASSUME Init
              PROVE  TypeOK
  OBVIOUS
<1>. USE SourceTopicAssumption, PruneGateAssumption
<1>1. PICK t \in SeedTopics :
        /\ \A p \in Partition : SeededPartition(t[p])
        /\ segs = [p \in Partition |-> t[p].segments]
        /\ low = [p \in Partition |-> t[p].log_start]
        /\ high = [p \in Partition |-> t[p].high_watermark]
  BY DEF Init, InitTopic
<1>2. ASSUME NEW p \in Partition
      PROVE  PartitionTypeOK(p)
  <2>1. segs[p] = t[p].segments /\ low[p] = t[p].log_start /\ high[p] = t[p].high_watermark
    BY <1>1
  <2>2. SeededPartition(t[p])
    BY <1>1
  <2>. QED
    BY <2>1, <2>2 DEF SeededPartition, PartitionTypeOK, IsLog
<1>3. TopicTypeOK
  <2>1. now \in Nat /\ retention_ms \in Int
    BY DEF Init, InitTopic, Infinite
  <2>2. committed \in [Group -> [Partition -> Nat \cup {NoOffset}]]
    BY DEF Init, InitTopic, NoOffset
  <2>3. DOMAIN segs = Partition /\ DOMAIN low = Partition /\ DOMAIN high = Partition
    BY <1>1
  <2>. QED
    BY <1>2, <2>1, <2>2, <2>3 DEF TopicTypeOK
<1>4. NoJob \in Job /\ (NoJob.phase = "none" <=> NoJob.pc = "idle")
  BY DEF NoJob, Job, Phase, Step, Marks, NoOffset
<1>5. prediction \in [{"gate", "apply"} -> SUBSET Prediction]
  BY DEF Init
<1>6. EvidenceTypeOK
  <2>1. ASSUME NEW p \in Partition
        PROVE  SeededPartition(baseline[p])
    <3>1. /\ baseline[p].segments = t[p].segments
          /\ baseline[p].log_start = t[p].log_start
          /\ baseline[p].high_watermark = t[p].high_watermark
      BY <1>1 DEF Init
    <3>. QED
      BY <1>1, <3>1 DEF SeededPartition
  <2>. QED
    BY <2>1 DEF Init, EvidenceTypeOK
<1>. QED
  BY <1>3, <1>4, <1>5, <1>6 DEF Init, TypeOK

\* Taking one more record, or deleting, keeps a partition well formed and
\* leaves the others alone.
LEMMA ProduceType ==
  ASSUME TopicTypeOK, NEW p \in Partition, Produce(p)
  PROVE  TopicTypeOK'
<1>. USE SourceTopicAssumption
<1>1. PICK lag \in Late, a \in DOMAIN segs[p] : Produce(p)!2!(lag, a)
  BY Zenon DEF Produce
<1>. DEFINE ts == now - lag
            seg == segs[p][a]
            last == IF seg.count > 0 /\ seg.max_ts > ts THEN seg.max_ts ELSE ts
<1>2. now \in Nat /\ lag \in Nat /\ high[p] \in Nat /\ seg \in Segment /\ IsLog(segs[p])
  BY DEF TopicTypeOK, PartitionTypeOK, IsLog
<1>3. ts \in Int /\ last \in Int /\ seg.count + 1 \in Nat
  BY <1>2 DEF Segment
<1>4. high' = [high EXCEPT ![p] = high[p] + 1] /\ UNCHANGED <<now, low, retention_ms, committed>>
  BY DEF Produce
<1>5. DOMAIN segs' = Partition /\ \A q \in Partition \ {p} : segs'[q] = segs[q]
  BY <1>1 DEF TopicTypeOK
<1>6. IsLog(segs'[p]) /\ DOMAIN segs'[p] \in {DOMAIN segs[p], DOMAIN segs[p] \cup {high[p]}}
  <2>1. CASE segs' = [segs EXCEPT ![p][a] = [count |-> seg.count + 1, max_ts |-> last]]
    <3>. DEFINE grown == [count |-> seg.count + 1, max_ts |-> last]
    <3>0. segs' = [segs EXCEPT ![p] = [segs[p] EXCEPT ![a] = grown]]
      BY <2>1
    <3>. HIDE DEF grown
    <3>1. segs'[p] = [segs[p] EXCEPT ![a] = grown]
      BY <3>0 DEF TopicTypeOK
    <3>. HIDE DEF last, seg
    <3>2. grown \in Segment
      BY <1>3 DEF Segment, grown
    <3>. QED
      BY <3>1, <3>2, <1>2 DEF IsLog
  <2>2. CASE segs' = [segs EXCEPT ![p] = [b \in DOMAIN segs[p] \cup {high[p]} |->
                        IF b = high[p] THEN [count |-> 1, max_ts |-> ts] ELSE segs[p][b]]]
    <3>1. segs'[p] = [b \in DOMAIN segs[p] \cup {high[p]} |->
                        IF b = high[p] THEN [count |-> 1, max_ts |-> ts] ELSE segs[p][b]]
      BY <2>2 DEF TopicTypeOK
    <3>2. [count |-> 1, max_ts |-> ts] \in Segment
      BY <1>3 DEF Segment
    <3>. QED
      BY <3>1, <3>2, <1>2 DEF IsLog
  <2>. QED
    BY <1>1, <2>1, <2>2
<1>7. ASSUME NEW q \in Partition
      PROVE  PartitionTypeOK(q)'
  <2>1. PartitionTypeOK(p)'
    <3>1. high'[p] = high[p] + 1 /\ low'[p] = low[p]
      BY <1>4 DEF TopicTypeOK
    <3>2. low[p] \in DOMAIN segs[p] /\ \A b \in DOMAIN segs[p] : low[p] <= b /\ b <= high[p]
      BY DEF TopicTypeOK, PartitionTypeOK
    <3>3. DOMAIN segs[p] \subseteq Nat
      BY <1>2 DEF IsLog
    <3>. QED
      BY <3>1, <3>2, <3>3, <1>2, <1>6 DEF PartitionTypeOK
  <2>2. CASE q # p
    BY <2>2, <1>4, <1>5 DEF TopicTypeOK, PartitionTypeOK
  <2>. QED
    BY <2>1, <2>2
<1>. QED
  BY <1>4, <1>5, <1>7 DEF TopicTypeOK

LEMMA RetentionCheckType ==
  ASSUME TopicTypeOK, NEW p \in Partition, RetentionCheck(p)
  PROVE  TopicTypeOK'
<1>. DEFINE kept == DOMAIN segs[p] \ DeletableSegments(segs[p], high[p], high[p], now, retention_ms)
<1>1. UNCHANGED <<now, high, retention_ms, committed>>
  BY DEF RetentionCheck
<1>2. DOMAIN segs' = Partition /\ DOMAIN low' = Partition
      /\ \A q \in Partition \ {p} : segs'[q] = segs[q] /\ low'[q] = low[q]
  BY DEF RetentionCheck, TopicTypeOK
<1>3. PartitionTypeOK(p)'
  <2>. USE DEF TopicTypeOK
  <2>1. IsLog(segs[p]) /\ high[p] \in Nat /\ \A b \in DOMAIN segs[p] : b <= high[p]
    BY DEF PartitionTypeOK
  <2>2. CASE segs' = [segs EXCEPT ![p] = [b \in {high[p]} |-> EmptySegment]]
             /\ low' = [low EXCEPT ![p] = high[p]]
    <3>1. segs'[p] = [b \in {high[p]} |-> EmptySegment] /\ low'[p] = high[p] /\ high'[p] = high[p]
      BY <2>2, <1>1
    <3>2. EmptySegment \in Segment
      BY DEF EmptySegment, Segment
    <3>. QED
      BY <2>1, <3>1, <3>2 DEF IsLog, PartitionTypeOK
  <2>3. ASSUME NEW k \in kept, \A c \in kept : k <= c,
               segs' = [segs EXCEPT ![p] = Restrict(segs[p], kept)],
               low' = [low EXCEPT ![p] = k]
        PROVE  PartitionTypeOK(p)'
    <3>1. segs'[p] = [b \in kept |-> segs[p][b]] /\ low'[p] = k /\ high'[p] = high[p]
      BY <2>3, <1>1 DEF Restrict
    <3>2. kept \subseteq DOMAIN segs[p]
      OBVIOUS
    <3>. HIDE DEF kept
    <3>. QED
      BY <2>1, <2>3, <3>1, <3>2 DEF IsLog, PartitionTypeOK
  <2>. QED
    BY <2>2, <2>3 DEF RetentionCheck
<1>4. ASSUME NEW q \in Partition
      PROVE  PartitionTypeOK(q)'
  BY <1>1, <1>2, <1>3 DEF TopicTypeOK, PartitionTypeOK
<1>. QED
  BY <1>1, <1>2, <1>4 DEF TopicTypeOK

LEMMA TopicStepType ==
  ASSUME TopicTypeOK, TopicStep
  PROVE  TopicTypeOK'
<1>1. ASSUME NEW g \in Group, NEW p \in Partition, CommitForward(g, p) \/ ResetOffset(g, p)
      PROVE  TopicTypeOK'
  <2>1. PICK o \in Int : o >= 0 /\ committed' = [committed EXCEPT ![g][p] = o]
    BY <1>1 DEF CommitForward, ResetOffset, TopicTypeOK, PartitionTypeOK, IsLog, NoOffset
  <2>2. committed' \in [Group -> [Partition -> Nat \cup {NoOffset}]]
    BY <2>1 DEF TopicTypeOK
  <2>3. UNCHANGED <<now, segs, low, high, retention_ms>>
    BY <1>1 DEF CommitForward, ResetOffset
  <2>. QED
    BY <2>2, <2>3 DEF TopicTypeOK, PartitionTypeOK
<1>. QED
  BY <1>1, ProduceType, RetentionCheckType DEF TopicStep

\* Names for what a step of the script leaves alone.
LEMMA FilesType ==
  ASSUME TypeOK, UNCHANGED <<topicVars, fixedVars>>
  PROVE  TopicTypeOK' /\ EvidenceTypeOK'
BY DEF TypeOK, topicVars, fixedVars, TopicTypeOK, PartitionTypeOK, EvidenceTypeOK

LEMMA NoJobType == NoJob \in Job /\ NoJob.phase = "none" /\ NoJob.pc = "idle"
BY DEF NoJob, Job, Phase, Step, Marks, NoOffset

LEMMA WatermarksType ==
  ASSUME TopicTypeOK
  PROVE  watermarks \in [Partition -> Marks]
<1>1. ASSUME NEW p \in Partition
      PROVE  low[p] \in Nat /\ high[p] \in Nat
  BY DEF TopicTypeOK, PartitionTypeOK, IsLog
<1>. QED
  BY <1>1 DEF watermarks, Marks

\* A gate or the end of the script: the job stays well typed.
LEMMA EndType ==
  ASSUME TypeOK, job.pc # "idle", NEW v \in {"PASS", "FAIL"}, End(v)
  PROVE  /\ job' \in Job /\ (job'.phase = "none" <=> job'.pc = "idle")
         /\ timings' \in [Phase -> {"NONE", "PASS", "FAIL"}]
<1>1. job.phase \in Phase
  BY DEF TypeOK, Job
<1>. QED
  BY <1>1, NoJobType DEF TypeOK, End

LEMMA GateType ==
  ASSUME TypeOK, job.pc # "idle", NEW passed \in BOOLEAN, NEW pc \in Step \ {"idle"}, Gate(passed, pc)
  PROVE  /\ job' \in Job /\ (job'.phase = "none" <=> job'.pc = "idle")
         /\ timings' \in [Phase -> {"NONE", "PASS", "FAIL"}]
<1>1. CASE passed
  BY <1>1 DEF TypeOK, Gate, Job
<1>2. CASE ~passed
  BY <1>2, EndType DEF Gate
<1>. QED
  BY <1>1, <1>2

\* A segment in the band clears within twice the margin (the comment at
\* prune.py:124).
LEMMA ClearsWithinTwoMargins ==
  ASSUME EvidenceTypeOK, NEW t \in Int, NEW s \in ambiguous(t)
  PROVE  clears_in(baseline[s[1]], s[2], t, Retention, Margin) \in 0..2 * Margin
<1>0. PICK p \in Partition : \E b \in ambiguous_segments(baseline[p], t, Retention, Margin) : s = <<p, b>>
  BY DEF ambiguous
<1>1. PICK b \in ambiguous_segments(baseline[p], t, Retention, Margin) : s = <<p, b>>
  BY <1>0
<1>2. b \in DOMAIN baseline[p].segments /\ baseline[p].segments[b].max_ts \in Int
  BY <1>1 DEF EvidenceTypeOK, SeededPartition, IsLog, Segment, ambiguous_segments
<1>3. /\ -Margin <= (t - baseline[p].segments[b].max_ts) - Retention
      /\ (t - baseline[p].segments[b].max_ts) - Retention <= Margin
  BY <1>1 DEF ambiguous_segments
<1>4. baseline[p].segments[b].max_ts + Retention + Margin - t \in 0..2 * Margin
  BY <1>2, <1>3, PruneGateAssumption
<1>. QED
  BY <1>1, <1>4 DEF clears_in

\* So the length of a sleep is well defined, at least one tick and, until the
\* deadline, never longer than what is left of it.
LEMMA SleepLength ==
  ASSUME TypeOK, Look, job'.pc = "sleep"
  PROVE  job'.wake \in Nat /\ now < job'.wake /\ job'.wake <= job.deadline + 1
<1>. USE PruneGateAssumption
<1>. DEFINE clear == {clears_in(baseline[s[1]], s[2], now, Retention, Margin) : s \in ambiguous(now)}
            longest == Max(clear)
            two == {longest + 1, job.deadline - now}
            wait == Min(two)
            atleast == {wait, 1}
<1>1. now \in Nat /\ job.deadline \in Nat /\ EvidenceTypeOK
  BY DEF TypeOK, TopicTypeOK, Job
<1>2. ~(ambiguous(now) = {} \/ now > job.deadline) /\ job' = [job EXCEPT !.pc = "sleep", !.wake = now + Max(atleast)]
  <2>. HIDE DEF atleast
  <2>1. IF ambiguous(now) = {} \/ now > job.deadline
        THEN job' = [job EXCEPT !.pc = "predict", !.clock = now]
        ELSE job' = [job EXCEPT !.pc = "sleep", !.wake = now + Max(atleast)]
    BY Zenon DEF Look, atleast
  <2>2. CASE job' = [job EXCEPT !.pc = "predict", !.clock = now]
    BY <2>2 DEF TypeOK, Job
  <2>. QED
    BY <2>1, <2>2
<1>3. clear \in SUBSET (0..2 * Margin) /\ clear # {}
  <2>1. now \in Int
    BY <1>1
  <2>2. \A s \in ambiguous(now) :
          clears_in(baseline[s[1]], s[2], now, Retention, Margin) \in 0..2 * Margin
    BY <1>1, <2>1, ClearsWithinTwoMargins, Zenon
  <2>3. ambiguous(now) # {}
    BY <1>2
  <2>. QED
    BY <2>2, <2>3
<1>4. longest \in Nat
  <2>. HIDE DEF clear
  <2>1. 2 * Margin \in Nat
    OBVIOUS
  <2>2. longest \in clear
    BY <1>3, <2>1, MaxOfBoundedNat, Zenon
  <2>. HIDE DEF longest
  <2>. QED
    BY <1>3, <2>1, <2>2
<1>. HIDE DEF longest, clear
<1>5. job.deadline - now \in Nat
  BY <1>1, <1>2
<1>6. wait \in Nat /\ wait <= job.deadline - now
  <2>1. two \in SUBSET Nat /\ two # {}
    BY <1>4, <1>5
  <2>. HIDE DEF two
  <2>2. wait \in two /\ \A x \in two : wait <= x
    BY <2>1, MinOfNat
  <2>. QED
    BY <2>1, <2>2 DEF two
<1>. HIDE DEF wait
<1>7. Max(atleast) \in Nat /\ Max(atleast) >= 1 /\ Max(atleast) <= (job.deadline - now) + 1
  <2>. DEFINE n == wait + 1
  <2>1. atleast \in SUBSET (0..n) /\ atleast # {} /\ n \in Nat
    BY <1>6
  <2>2. Max(atleast) \in atleast /\ \A x \in atleast : x <= Max(atleast)
    BY <2>1, MaxOfBoundedNat
  <2>. QED
    BY <1>5, <1>6, <2>2
<1>. HIDE DEF atleast
<1>. QED
  BY <1>1, <1>2, <1>7 DEF TypeOK, Job

\* Steps of the script that leave the topic and the files alone.
LEMMA QuietStepType ==
  ASSUME TypeOK, NEW ph \in Phase,
         \/ StartPhase(ph) \/ ReadEvidence \/ CompareInventory \/ Look \/ WakeUp
         \/ BeginCheck \/ PollDone \/ ReadMarks \/ ReadCommitted \/ Crash
  PROVE  TypeOK'
<1>. USE PruneGateAssumption
<1>1. UNCHANGED <<topicVars, fixedVars, fileVars>>
  BY DEF StartPhase, ReadEvidence, CompareInventory, Look, WakeUp, BeginCheck, PollDone,
         ReadMarks, ReadCommitted, Crash
<1>2. TopicTypeOK' /\ EvidenceTypeOK'
  BY <1>1, FilesType
<1>3. /\ now \in Nat /\ job \in Job /\ (job.phase = "none" <=> job.pc = "idle")
      /\ watermarks \in [Partition -> Marks]
      /\ committed[SimGroup] \in [Partition -> Nat \cup {NoOffset}]
  BY WatermarksType DEF TypeOK, TopicTypeOK
<1>4. job' \in Job /\ (job'.phase = "none" <=> job'.pc = "idle")
  <2>1. CASE StartPhase(ph)
    BY <2>1, <1>3, NoJobType DEF StartPhase, Job, Phase, Step
  <2>2. CASE ReadEvidence
    <3>. DEFINE ok == /\ evidence.backup_verified /\ evidence.manifest_anchor_intact
                      /\ evidence.sealed_copy_verified /\ backup_covers(watermarks)
    <3>1. job.pc = "evidence"
          /\ job' = [job EXCEPT !.pc = "inventory", !.marks = watermarks, !.ok = ok]
      BY <2>2, Zenon DEF ReadEvidence
    <3>2. ok \in BOOLEAN
      OBVIOUS
    <3>. HIDE DEF ok
    <3>. QED
      BY <1>3, <3>1, <3>2 DEF Job, Step, Phase
  <2>3. CASE CompareInventory
    <3>. DEFINE ok == job.ok /\ unchanged_since_baseline(job.marks)
                deadline == now + 2 * Margin + Slack
    <3>1. job.pc = "inventory"
          /\ job' = [job EXCEPT !.pc = "look", !.ok = ok, !.deadline = deadline]
      BY <2>3, Zenon DEF CompareInventory
    <3>2. ok \in BOOLEAN /\ deadline \in Nat
      BY <1>3
    <3>. HIDE DEF ok, deadline
    <3>. QED
      BY <1>3, <3>1, <3>2 DEF Job, Step, Phase
  <2>4. CASE Look
    <3>1. CASE job'.pc = "sleep"
      <4>1. job'.wake \in Nat
        BY <2>4, <3>1, SleepLength
      <4>2. PICK w : job' = [job EXCEPT !.pc = "sleep", !.wake = w]
        BY <2>4, <3>1, <1>3 DEF Look, Job
      <4>. QED
        BY <4>1, <4>2, <2>4, <1>3 DEF Job, Step, Phase, Look
    <3>2. CASE job'.pc # "sleep"
      <4>1. job' = [job EXCEPT !.pc = "predict", !.clock = now]
        BY <2>4, <3>2, <1>3 DEF Look, Job
      <4>. QED
        BY <4>1, <2>4, <1>3 DEF Job, Step, Phase, Look
    <3>. QED
      BY <3>1, <3>2
  <2>5. CASE WakeUp
    BY <2>5, <1>3 DEF WakeUp, Job, Step, Phase
  <2>6. CASE BeginCheck
    <3>1. now + CheckTimeout \in Nat
      BY <1>3
    <3>. QED
      BY <2>6, <3>1, <1>3 DEF BeginCheck, Job, Step, Phase
  <2>7. CASE PollDone
    <3>1. now + Settle \in Nat
      BY <1>3
    <3>2. job.pc = "poll" /\ job' = [job EXCEPT !.pc = "settle", !.wake = now + Settle]
      BY <2>7 DEF PollDone
    <3>. QED
      BY <3>1, <3>2, <1>3 DEF Job, Step, Phase
  <2>8. CASE ReadMarks
    BY <2>8, <1>3 DEF ReadMarks, Job, Step, Phase
  <2>9. CASE ReadCommitted
    BY <2>9, <1>3 DEF ReadCommitted, Job, Step, Phase
  <2>10. CASE Crash
    BY <2>10, NoJobType DEF Crash
  <2>. QED
    BY <2>1, <2>2, <2>3, <2>4, <2>5, <2>6, <2>7, <2>8, <2>9, <2>10
<1>. QED
  BY <1>1, <1>2, <1>4 DEF TypeOK, fileVars

\* Steps that write a file, end the script or change the topic.
LEMMA PredictionIsTyped ==
  ASSUME EvidenceTypeOK, NEW t \in Int
  PROVE  build_prediction(t) \in [Partition -> SUBSET Nat]
<1>1. ASSUME NEW p \in Partition
      PROVE  predict_partition(baseline[p], t, Retention) \in SUBSET Nat
  BY DEF EvidenceTypeOK, SeededPartition, IsLog, predict_partition, DeletableSegments
<1>. QED
  BY <1>1 DEF build_prediction

LEMMA FileStepType ==
  ASSUME TypeOK,
         \/ WritePrediction \/ ConsumerInventory \/ WriteSizes \/ AlterRetention
         \/ WriteCheck \/ ReclaimGate \/ ResumeConsumer
  PROVE  TypeOK'
<1>. USE PruneGateAssumption
<1>1. CASE WritePrediction
  <2>. DEFINE deleted == build_prediction(job.clock)
              whole == \E p \in Partition : kept_segments(baseline[p], deleted[p]) = {}
              same == job.phase = "50" => \A e \in prediction["gate"] : e.deleted = deleted
              passed == /\ job.ok
                        /\ ambiguous(job.clock) = {}
                        /\ seed_end_ts > job.clock - Retention + Margin
                        /\ ~whole
                        /\ same
              new == [now |-> job.clock, deleted |-> deleted, passed |-> passed]
  <2>1. /\ job.pc = "predict"
        /\ \/ End("FAIL") /\ UNCHANGED prediction
           \/ /\ prediction' = [prediction EXCEPT ![Label[job.phase]] = {new}]
              /\ Gate(passed, "groups")
        /\ UNCHANGED <<topicVars, fixedVars, check, sizes_before, applied>>
    BY <1>1, Zenon DEF WritePrediction
  <2>2. passed \in BOOLEAN /\ deleted \in [Partition -> SUBSET Nat] /\ job.clock \in Nat
    BY PredictionIsTyped DEF TypeOK, Job
  <2>. HIDE DEF passed, deleted
  <2>3. {new} \in SUBSET Prediction
    BY <2>2 DEF Prediction
  <2>. HIDE DEF new
  <2>4. prediction' \in [{"gate", "apply"} -> SUBSET Prediction]
    BY <2>1, <2>3 DEF TypeOK
  <2>5. /\ job' \in Job /\ (job'.phase = "none" <=> job'.pc = "idle")
        /\ timings' \in [Phase -> {"NONE", "PASS", "FAIL"}]
    <3>1. "groups" \in Step \ {"idle"} /\ job.pc # "idle" /\ "FAIL" \in {"PASS", "FAIL"}
      BY <2>1 DEF Step
    <3>. QED
      BY <2>1, <2>2, <3>1, EndType, GateType, Zenon
  <2>6. TopicTypeOK' /\ EvidenceTypeOK'
    BY <2>1, FilesType
  <2>. QED
    BY <2>1, <2>4, <2>5, <2>6 DEF TypeOK
<1>2. CASE ConsumerInventory \/ ReclaimGate
  <2>1. PICK passed \in BOOLEAN, pc \in {"sizes", "alter", "resume"} : Gate(passed, pc)
    BY <1>2 DEF ConsumerInventory, ReclaimGate
  <2>2. /\ job' \in Job /\ (job'.phase = "none" <=> job'.pc = "idle")
        /\ timings' \in [Phase -> {"NONE", "PASS", "FAIL"}]
    <3>1. job.pc # "idle" /\ pc \in Step \ {"idle"}
      BY <1>2 DEF ConsumerInventory, ReclaimGate, Step
    <3>. QED
      BY <2>1, <3>1, GateType, Zenon
  <2>3. UNCHANGED <<topicVars, fixedVars, prediction, check, sizes_before, applied>>
    BY <1>2 DEF ConsumerInventory, ReclaimGate
  <2>. QED
    BY <2>2, <2>3, FilesType DEF TypeOK
<1>3. CASE WriteSizes \/ ResumeConsumer
  <2>1. PICK v \in {"PASS", "FAIL"} : End(v)
    BY <1>3 DEF WriteSizes, ResumeConsumer
  <2>2. job.pc # "idle"
    BY <1>3 DEF WriteSizes, ResumeConsumer
  <2>3. /\ job' \in Job /\ (job'.phase = "none" <=> job'.pc = "idle")
        /\ timings' \in [Phase -> {"NONE", "PASS", "FAIL"}]
    BY <2>1, <2>2, EndType, Zenon
  <2>4. UNCHANGED <<topicVars, fixedVars, prediction, check, applied>>
    BY <1>3 DEF WriteSizes, ResumeConsumer
  <2>. QED
    BY <2>3, <2>4, FilesType DEF TypeOK
<1>4. CASE AlterRetention
  <2>1. job' \in Job /\ (job'.phase = "none" <=> job'.pc = "idle")
    BY <1>4 DEF AlterRetention, TypeOK, Job, Step
  <2>2. TopicTypeOK' /\ EvidenceTypeOK'
    BY <1>4 DEF AlterRetention, TypeOK, TopicTypeOK, PartitionTypeOK, EvidenceTypeOK, fixedVars
  <2>. QED
    BY <1>4, <2>1, <2>2 DEF AlterRetention, TypeOK
<1>5. CASE WriteCheck
  <2>1. job.pc = "observe" /\ UNCHANGED <<topicVars, fixedVars, prediction, sizes_before, applied>>
    BY <1>5 DEF WriteCheck
  <2>2. \/ End("FAIL") /\ UNCHANGED check
        \/ \E passed \in BOOLEAN :
             /\ check' = {[low |-> [p \in Partition |-> job.marks[p].low], passed |-> passed]}
             /\ Gate(passed, "reclaim")
    BY <1>5 DEF WriteCheck
  <2>3. [p \in Partition |-> job.marks[p].low] \in [Partition -> Nat]
    BY DEF TypeOK, Job, Marks
  <2>4. check' \subseteq Check
    BY <2>2, <2>3 DEF Check, TypeOK
  <2>5. /\ job' \in Job /\ (job'.phase = "none" <=> job'.pc = "idle")
        /\ timings' \in [Phase -> {"NONE", "PASS", "FAIL"}]
    <3>1. "reclaim" \in Step \ {"idle"} /\ job.pc # "idle" /\ "FAIL" \in {"PASS", "FAIL"}
      BY <2>1 DEF Step
    <3>. QED
      BY <2>2, <3>1, EndType, GateType, Zenon
  <2>. QED
    BY <2>1, <2>4, <2>5, FilesType DEF TypeOK
<1>. QED
  BY <1>1, <1>2, <1>3, <1>4, <1>5

LEMMA StepTypeOK == TypeOK /\ [Next]_vars => TypeOK'
<1>. SUFFICES ASSUME TypeOK, [Next]_vars
              PROVE  TypeOK'
  OBVIOUS
<1>1. CASE Tick
  BY <1>1 DEF Tick, TypeOK, TopicTypeOK, PartitionTypeOK, EvidenceTypeOK, fixedVars, fileVars
<1>2. CASE Environment
  BY <1>2, TopicStepType DEF Environment, TypeOK, EvidenceTypeOK, fixedVars, fileVars
<1>3. CASE UNCHANGED vars
  BY <1>3 DEF vars, topicVars, TypeOK, TopicTypeOK, PartitionTypeOK, EvidenceTypeOK, fixedVars, fileVars
<1>4. CASE Crash \/ \E ph \in Phase : StartPhase(ph)
  BY <1>4, QuietStepType DEF Phase
<1>5. CASE PhaseStep
  BY <1>5, QuietStepType, FileStepType DEF PhaseStep, Phase
<1>. QED
  BY <1>1, <1>2, <1>3, <1>4, <1>5 DEF Next

\* Type correctness of the topic, the evidence files and the script.
THEOREM TypeCorrect == Spec => []TypeOK
<1>1. Init => TypeOK
  BY InitTypeOK
<1>2. TypeOK /\ [Next]_vars => TypeOK'
  BY StepTypeOK
<1>. QED
  BY <1>1, <1>2, PTL DEF Spec


-----------------------------------------------------------------------------
(* The log. *)

\* Facts about one partition of the baseline, used everywhere below.
LEMMA BaselineFacts ==
  ASSUME TypeOK, NEW p \in Partition
  PROVE  /\ SeededPartition(baseline[p])
         /\ DOMAIN baseline[p].segments \subseteq Nat
         /\ baseline[p].high_watermark \in Nat /\ baseline[p].log_start \in Nat
         /\ \A b \in DOMAIN baseline[p].segments :
              /\ b < baseline[p].high_watermark /\ baseline[p].log_start <= b
              /\ baseline[p].segments[b].count \in Nat \ {0}
              /\ baseline[p].segments[b].max_ts \in Int
<1>1. SeededPartition(baseline[p])
  BY DEF TypeOK, EvidenceTypeOK
<1>. QED
  BY <1>1 DEF SeededPartition, IsLog, Segment

LEMMA TopicFacts ==
  ASSUME TypeOK, NEW p \in Partition
  PROVE  /\ DOMAIN segs[p] \subseteq Nat /\ low[p] \in DOMAIN segs[p]
         /\ high[p] \in Nat /\ now \in Nat /\ low[p] \in Nat
         /\ \A b \in DOMAIN segs[p] : /\ low[p] <= b /\ b <= high[p]
                                     /\ segs[p][b].count \in Nat /\ segs[p][b].max_ts \in Int
BY DEF TypeOK, TopicTypeOK, PartitionTypeOK, IsLog, Segment

LEMMA InitLogInv == Init => LogInv
<1>. SUFFICES ASSUME Init, NEW p \in Partition
              PROVE  ExtendsBaseline(p) /\ LostHadAgedOut(p)
  BY DEF Init, InitTopic, LogInv
<1>1. baseline[p].segments = segs[p] /\ baseline[p].high_watermark = high[p]
  BY DEF Init
<1>2. TypeOK
  BY InitTypeOK
<1>3. Lost(p) = {}
  BY <1>1 DEF Lost
<1>4. LostHadAgedOut(p)
  BY <1>3 DEF LostHadAgedOut
<1>5. ExtendsBaseline(p)
  <2>1. ASSUME NEW b \in DOMAIN segs[p]
        PROVE  segs[p][b].count > 0 /\ segs[p][b].max_ts \in Int
    BY <1>1, <1>2, <2>1, BaselineFacts
  <2>2. high[p] \in Nat
    BY <1>2, TopicFacts
  <2>. QED
    BY <1>1, <2>1, <2>2 DEF ExtendsBaseline
<1>. QED
  BY <1>4, <1>5

LEMMA ProduceLogInv ==
  ASSUME TypeOK, LogInv, NEW p \in Partition, Produce(p), UNCHANGED baseline
  PROVE  ExtendsBaseline(p)' /\ LostHadAgedOut(p)'
<1>. USE SourceTopicAssumption
<1>. DEFINE B == DOMAIN baseline[p].segments
            S == DOMAIN segs[p]
<1>1. PICK lag \in Late, a \in S : Produce(p)!2!(lag, a)
  BY Zenon DEF Produce
<1>. DEFINE ts == now - lag
            seg == segs[p][a]
            last == IF seg.count > 0 /\ seg.max_ts > ts THEN seg.max_ts ELSE ts
            grown == [count |-> seg.count + 1, max_ts |-> last]
<1>2. ts \in Int /\ seg.count \in Nat /\ seg.max_ts \in Int
  BY <1>1, TopicFacts
<1>3. high'[p] = high[p] + 1 /\ now' = now /\ DOMAIN segs = Partition
  BY DEF Produce, TypeOK, TopicTypeOK
<1>4. ExtendsBaseline(p) /\ LostHadAgedOut(p)
  BY DEF LogInv
<1>5. high[p] \notin B /\ baseline[p].high_watermark <= high[p]
  BY <1>4, BaselineFacts, TopicFacts DEF ExtendsBaseline
\* Nothing of the baseline behind the active segment is lost.
<1>6. a \in B => IsLast(p, a)
  <2>1. ASSUME a \in B, NEW c \in B, ~(c <= a)
        PROVE  FALSE
    <3>1. c \in Lost(p)
      BY <1>1, <2>1 DEF Lost, IsActive
    <3>2. a <= c
      BY <2>1, BaselineFacts
    <3>. QED
      BY <1>4, <2>1, <3>1, <3>2 DEF LostHadAgedOut, Lost
  <2>. QED
    BY <2>1 DEF IsLast
<1>7. CASE segs' = [segs EXCEPT ![p][a] = grown]
  <2>. HIDE DEF grown
  <2>1. segs'[p] = [segs[p] EXCEPT ![a] = grown]
    BY <1>3, <1>7
  <2>2. DOMAIN segs'[p] = S /\ segs'[p][a] = grown /\ \A b \in S \ {a} : segs'[p][b] = segs[p][b]
    BY <2>1
  <2>3. grown.count > 0 /\ (seg.count > 0 => grown.max_ts >= seg.max_ts)
    BY <1>2 DEF grown
  <2>4. Lost(p)' = Lost(p)
    BY <2>2 DEF Lost
  <2>5. LostHadAgedOut(p)'
    BY <2>4, <1>3, <1>4 DEF LostHadAgedOut
  <2>6. ASSUME NEW b \in S \cap B
        PROVE  /\ segs'[p][b].count > 0
               /\ segs'[p][b].max_ts >= baseline[p].segments[b].max_ts
               /\ IsLast(p, b) \/ segs'[p][b] = baseline[p].segments[b]
    <3>1. /\ segs[p][b].count > 0
          /\ segs[p][b].max_ts >= baseline[p].segments[b].max_ts
          /\ IsLast(p, b) \/ segs[p][b] = baseline[p].segments[b]
      BY <1>4, <2>6 DEF ExtendsBaseline
    <3>2. CASE b # a
      BY <2>2, <2>6, <3>1, <3>2
    <3>3. CASE b = a
      <4>1. grown.max_ts \in Int
        BY <1>2 DEF grown
      <4>. QED
        BY <1>2, <1>6, <2>2, <2>3, <2>6, <3>1, <3>3, <4>1, BaselineFacts
    <3>. QED
      BY <3>2, <3>3
  <2>7. ExtendsBaseline(p)'
    <3>1. baseline[p].high_watermark <= high'[p]
      BY <1>3, <1>5, BaselineFacts, TopicFacts
    <3>2. \A b \in S \ B : baseline[p].high_watermark <= b
      BY <1>4 DEF ExtendsBaseline
    <3>. QED
      BY <2>2, <2>6, <3>1, <3>2 DEF ExtendsBaseline, IsLast
  <2>. QED
    BY <2>5, <2>7
<1>8. CASE segs' = [segs EXCEPT ![p] = [b \in S \cup {high[p]} |->
                      IF b = high[p] THEN [count |-> 1, max_ts |-> ts] ELSE segs[p][b]]]
  <2>1. segs'[p] = [b \in S \cup {high[p]} |->
                      IF b = high[p] THEN [count |-> 1, max_ts |-> ts] ELSE segs[p][b]]
    BY <1>3, <1>8
  <2>2. DOMAIN segs'[p] = S \cup {high[p]} /\ \A b \in S \cap B : segs'[p][b] = segs[p][b]
    BY <1>5, <2>1
  <2>3. Lost(p)' = Lost(p)
    BY <1>5, <2>2 DEF Lost
  <2>4. LostHadAgedOut(p)'
    BY <2>3, <1>3, <1>4 DEF LostHadAgedOut
  <2>5. ExtendsBaseline(p)'
    <3>1. baseline[p].high_watermark <= high'[p]
      BY <1>3, <1>5, BaselineFacts, TopicFacts
    <3>2. (S \cup {high[p]}) \cap B = S \cap B
      BY <1>5
    <3>. QED
      BY <1>4, <1>5, <2>2, <3>1, <3>2 DEF ExtendsBaseline, IsLast
  <2>. QED
    BY <2>4, <2>5
<1>. QED
  BY <1>1, <1>7, <1>8

\* What the broker deletes from a log that extends the baseline is old: each
\* segment of the baseline at or below a deleted one is deleted too, and aged.
LEMMA DeletedHadAgedOut ==
  ASSUME TypeOK, LogInv, NEW p \in Partition, NEW b \in DOMAIN segs[p],
         b \in DeletableSegments(segs[p], high[p], high[p], now, retention_ms),
         retention_ms # Infinite, NEW c \in DOMAIN baseline[p].segments, c <= b, c \in DOMAIN segs[p]
  PROVE  /\ c \in DeletableSegments(segs[p], high[p], high[p], now, retention_ms)
         /\ now - baseline[p].segments[c].max_ts > Retention
<1>1. ExtendsBaseline(p) /\ retention_ms = Retention
  BY DEF LogInv
<1>2. Breached(segs[p][c], now, retention_ms)
  BY DEF DeletableSegments, Deletable
<1>3. segs[p][c].max_ts >= baseline[p].segments[c].max_ts
  BY <1>1 DEF ExtendsBaseline
<1>4. now - baseline[p].segments[c].max_ts > Retention
  BY <1>1, <1>2, <1>3, BaselineFacts, TopicFacts, PruneGateAssumption DEF Breached
<1>5. ASSUME NEW d \in DOMAIN segs[p], d <= c
      PROVE  Deletable(segs[p], d, high[p], high[p], now, retention_ms)
  <2>1. d <= b
    BY <1>5, TopicFacts
  <2>. QED
    BY <2>1 DEF DeletableSegments
<1>. QED
  BY <1>4, <1>5 DEF DeletableSegments

LEMMA RetentionCheckLogInv ==
  ASSUME TypeOK, LogInv, NEW p \in Partition, RetentionCheck(p), UNCHANGED baseline
  PROVE  ExtendsBaseline(p)' /\ LostHadAgedOut(p)'
<1>. DEFINE B == DOMAIN baseline[p].segments
            S == DOMAIN segs[p]
            D == DeletableSegments(segs[p], high[p], high[p], now, retention_ms)
<1>1. retention_ms # Infinite /\ now' = now /\ high' = high /\ D \subseteq S
  BY DEF RetentionCheck, DeletableSegments
<1>2. ExtendsBaseline(p) /\ LostHadAgedOut(p) /\ p \in DOMAIN segs
  BY DEF LogInv, TypeOK, TopicTypeOK
\* In either case the baseline's segments that are left are those kept.
<1>3. /\ DOMAIN segs'[p] \cap B = (S \ D) \cap B
      /\ \A b \in (S \ D) \cap B : segs'[p][b] = segs[p][b]
      /\ \A b \in DOMAIN segs'[p] \ B : baseline[p].high_watermark <= b
  <2>1. CASE S \ D = {} /\ segs' = [segs EXCEPT ![p] = [b \in {high[p]} |-> EmptySegment]]
    <3>1. DOMAIN segs'[p] = {high[p]}
      BY <1>2, <2>1
    <3>2. high[p] \notin B /\ baseline[p].high_watermark <= high[p]
      BY <1>2, BaselineFacts, TopicFacts DEF ExtendsBaseline
    <3>. QED
      BY <2>1, <3>1, <3>2
  <2>2. CASE segs' = [segs EXCEPT ![p] = Restrict(segs[p], S \ D)]
    <3>1. segs'[p] = [b \in S \ D |-> segs[p][b]]
      BY <1>2, <2>2 DEF Restrict
    <3>2. \A b \in S \ B : baseline[p].high_watermark <= b
      BY <1>2 DEF ExtendsBaseline
    <3>. HIDE DEF D
    <3>. QED
      BY <3>1, <3>2
  <2>. QED
    BY <2>1, <2>2 DEF RetentionCheck
<1>. HIDE DEF D
<1>4. Lost(p)' = Lost(p) \cup (D \cap B)
  BY <1>1, <1>3 DEF Lost
<1>5. ExtendsBaseline(p)'
  BY <1>1, <1>2, <1>3 DEF ExtendsBaseline, IsLast
<1>6. ASSUME NEW b \in Lost(p)', NEW c \in B, c <= b
      PROVE  c \in Lost(p)' /\ now - baseline[p].segments[c].max_ts > Retention
  <2>1. CASE b \in Lost(p)
    BY <1>2, <1>4, <1>6, <2>1 DEF LostHadAgedOut
  <2>2. CASE b \in D
    <3>1. CASE c \in S
      <4>1. c \in D /\ now - baseline[p].segments[c].max_ts > Retention
        BY <1>1, <1>6, <2>2, <3>1, DeletedHadAgedOut DEF D
      <4>. QED
        BY <1>4, <4>1
    <3>2. CASE c \notin S
      <4>1. c \in Lost(p)
        BY <3>2 DEF Lost
      <4>2. now - baseline[p].segments[c].max_ts > Retention
        BY <1>2, <4>1, BaselineFacts DEF LostHadAgedOut
      <4>. QED
        BY <1>4, <4>1, <4>2
    <3>. QED
      BY <3>1, <3>2
  <2>. QED
    BY <1>4, <1>6, <2>1, <2>2
<1>7. LostHadAgedOut(p)'
  BY <1>1, <1>6 DEF LostHadAgedOut
<1>. QED
  BY <1>5, <1>7

\* Steps that leave the log of a partition alone.
LEMMA QuietLogInv ==
  ASSUME TypeOK, LogInv, NEW p \in Partition, segs'[p] = segs[p], high'[p] = high[p],
         UNCHANGED baseline, now' \in {now, now + 1}
  PROVE  ExtendsBaseline(p)' /\ LostHadAgedOut(p)'
<1>1. ExtendsBaseline(p) /\ LostHadAgedOut(p)
  BY DEF LogInv
<1>2. Lost(p)' = Lost(p)
  BY DEF Lost
<1>3. ASSUME NEW b \in Lost(p), NEW c \in DOMAIN baseline[p].segments, c <= b
      PROVE  c \in Lost(p) /\ now' - baseline[p].segments[c].max_ts > Retention
  <2>1. c \in Lost(p) /\ now - baseline[p].segments[c].max_ts > Retention
    BY <1>1, <1>3 DEF LostHadAgedOut
  <2>. QED
    BY <2>1, BaselineFacts, TopicFacts, PruneGateAssumption
<1>4. LostHadAgedOut(p)'
  BY <1>2, <1>3 DEF LostHadAgedOut
<1>5. ExtendsBaseline(p)'
  BY <1>1 DEF ExtendsBaseline, IsLast
<1>. QED
  BY <1>4, <1>5

LEMMA StepLogInv == TypeOK /\ LogInv /\ [Next]_vars => LogInv'
<1>. SUFFICES ASSUME TypeOK, LogInv, [Next]_vars
              PROVE  LogInv'
  OBVIOUS
<1>1. UNCHANGED baseline
  BY DEF Next, vars, fixedVars, Tick, Environment, StartPhase, Crash, PhaseStep, ReadEvidence,
         CompareInventory, Look, WakeUp, WritePrediction, ConsumerInventory, WriteSizes,
         AlterRetention, BeginCheck, PollDone, ReadMarks, WriteCheck, ReclaimGate,
         ReadCommitted, ResumeConsumer
<1>2. CASE Environment
  <2>1. retention_ms' = retention_ms /\ now' = now
    BY <1>2 DEF Environment, TopicStep, Produce, RetentionCheck, CommitForward, ResetOffset
  <2>2. ASSUME NEW q \in Partition, NEW p \in Partition, Produce(q) \/ RetentionCheck(q)
        PROVE  ExtendsBaseline(p)' /\ LostHadAgedOut(p)'
    <3>1. CASE p = q
      BY <1>1, <2>2, <3>1, ProduceLogInv, RetentionCheckLogInv
    <3>2. CASE p # q
      <4>1. segs'[p] = segs[p] /\ high'[p] = high[p]
        BY <2>2, <3>2 DEF Produce, RetentionCheck, TypeOK, TopicTypeOK
      <4>. QED
        BY <1>1, <2>1, <4>1, QuietLogInv
    <3>. QED
      BY <3>1, <3>2
  <2>3. ASSUME NEW g \in Group, NEW q \in Partition, NEW p \in Partition,
               CommitForward(g, q) \/ ResetOffset(g, q)
        PROVE  ExtendsBaseline(p)' /\ LostHadAgedOut(p)'
    <3>1. segs' = segs /\ high' = high
      BY <2>3 DEF CommitForward, ResetOffset
    <3>. QED
      BY <1>1, <2>1, <3>1, QuietLogInv
  <2>. QED
    BY <1>2, <2>1, <2>2, <2>3 DEF Environment, TopicStep, LogInv
<1>3. CASE ~Environment
  <2>1. segs' = segs /\ high' = high /\ now' \in {now, now + 1}
        /\ retention_ms' \in {retention_ms, Retention}
    BY <1>3 DEF Next, vars, topicVars, Tick, StartPhase, Crash, PhaseStep, ReadEvidence,
         CompareInventory, Look, WakeUp, WritePrediction, ConsumerInventory, WriteSizes,
         AlterRetention, BeginCheck, PollDone, ReadMarks, WriteCheck, ReclaimGate,
         ReadCommitted, ResumeConsumer
  <2>2. ASSUME NEW p \in Partition
        PROVE  ExtendsBaseline(p)' /\ LostHadAgedOut(p)'
    BY <1>1, <2>1, QuietLogInv
  <2>. QED
    BY <2>1, <2>2 DEF LogInv
<1>. QED
  BY <1>2, <1>3

-----------------------------------------------------------------------------
(* What the gates establish. *)

LEMMA EstablishedStays ==
  ASSUME TypeOK, NEW pred, pred.now \in Nat, Established(pred), UNCHANGED <<baseline, evidence>>,
         now' \in {now, now + 1}
  PROVE  Established(pred)'
<1>1. pred.now <= now'
  BY DEF Established, TypeOK, TopicTypeOK
<1>. QED
  BY <1>1 DEF Established, build_prediction, BaselineSealed

\* A prediction that passes its gates has established what they test.
LEMMA PassedIsEstablished ==
  ASSUME TypeOK, JobKnowledge, job.pc = "predict", job.ok, ambiguous(job.clock) = {},
         NEW pred, pred.now = job.clock, pred.deleted = build_prediction(job.clock),
         \A p \in Partition : kept_segments(baseline[p], pred.deleted[p]) # {}
  PROVE  Established(pred)
<1>1. ASSUME NEW p \in Partition
      PROVE  ambiguous_segments(baseline[p], pred.now, Retention, Margin) = {}
  <2>1. ASSUME NEW b \in ambiguous_segments(baseline[p], pred.now, Retention, Margin)
        PROVE  <<p, b>> \in ambiguous(job.clock)
    BY DEF ambiguous
  <2>. QED
    BY <2>1
<1>. QED
  BY <1>1 DEF Established, JobKnowledge

LEMMA StepFileKnowledge ==
  ASSUME TypeOK, JobKnowledge, FileKnowledge, [Next]_vars
  PROVE  FileKnowledge'
<1>1. UNCHANGED <<baseline, evidence>> /\ now' \in {now, now + 1}
  BY DEF Next, vars, topicVars, fixedVars, Tick, Environment, TopicStep, Produce, RetentionCheck,
         CommitForward, ResetOffset, StartPhase, Crash, PhaseStep, ReadEvidence,
         CompareInventory, Look, WakeUp, WritePrediction, ConsumerInventory, WriteSizes,
         AlterRetention, BeginCheck, PollDone, ReadMarks, WriteCheck, ReclaimGate,
         ReadCommitted, ResumeConsumer
<1>2. /\ \A l \in {"gate", "apply"} : \A pred \in prediction[l] : pred.passed => Established(pred)'
      /\ \A pred \in applied : Established(pred)'
  <2>1. ASSUME NEW pred \in Prediction, Established(pred)
        PROVE  Established(pred)'
    BY <1>1, <2>1, EstablishedStays DEF Prediction
  <2>2. \A l \in {"gate", "apply"} : prediction[l] \subseteq Prediction
    BY DEF TypeOK
  <2>. QED
    BY <2>1, <2>2 DEF FileKnowledge, TypeOK
<1>0. \A l \in {"gate", "apply"} : \A d, e \in prediction[l] : d = e
  BY DEF FileKnowledge
<1>3. CASE WritePrediction
  <2>. DEFINE deleted == build_prediction(job.clock)
              whole == \E p \in Partition : kept_segments(baseline[p], deleted[p]) = {}
              same == job.phase = "50" => \A e \in prediction["gate"] : e.deleted = deleted
              passed == /\ job.ok
                        /\ ambiguous(job.clock) = {}
                        /\ seed_end_ts > job.clock - Retention + Margin
                        /\ ~whole
                        /\ same
              new == [now |-> job.clock, deleted |-> deleted, passed |-> passed]
  <2>1. /\ job.pc = "predict" /\ applied' = applied
        /\ \/ UNCHANGED prediction
           \/ prediction' = [prediction EXCEPT ![Label[job.phase]] = {new}]
    BY <1>3, Zenon DEF WritePrediction
  <2>2. PICK pred : pred = new
    OBVIOUS
  <2>3. ASSUME pred.passed
        PROVE  Established(pred)'
    <3>1. Established(pred)
      BY <2>1, <2>2, <2>3, PassedIsEstablished
    <3>2. pred.now \in Nat
      BY <2>2 DEF TypeOK, Job
    <3>. QED
      BY <1>1, <3>1, <3>2, EstablishedStays
  <2>4. \A l \in {"gate", "apply"} : prediction'[l] \in {prediction[l], {pred}}
    BY <2>1, <2>2 DEF TypeOK
  <2>. QED
    BY <1>0, <1>2, <2>1, <2>3, <2>4 DEF FileKnowledge
<1>4. CASE AlterRetention
  <2>1. job.pc = "alter" /\ prediction' = prediction /\ applied' = prediction["apply"]
    BY <1>4 DEF AlterRetention
  <2>2. \A pred \in prediction["apply"] : pred.passed
    BY <2>1 DEF JobKnowledge, Label, Phase
  <2>. QED
    BY <1>0, <1>2, <2>1, <2>2 DEF FileKnowledge
<1>5. CASE ~WritePrediction /\ ~AlterRetention
  <2>1. UNCHANGED <<prediction, applied>>
    BY <1>5 DEF Next, vars, fileVars, Tick, Environment, StartPhase, Crash, PhaseStep, ReadEvidence,
         CompareInventory, Look, WakeUp, ConsumerInventory, WriteSizes, BeginCheck, PollDone,
         ReadMarks, WriteCheck, ReclaimGate, ReadCommitted, ResumeConsumer
  <2>. QED
    BY <1>0, <1>2, <2>1 DEF FileKnowledge
<1>. QED
  BY <1>3, <1>4, <1>5

\* The end of the script, or a kill, leaves it knowing nothing.
LEMMA IdleKnowsNothing ==
  ASSUME job' = NoJob
  PROVE  JobKnowledge'
BY DEF JobKnowledge, NoJob

LEMMA StepJobKnowledge ==
  ASSUME TypeOK, JobKnowledge, [Next]_vars
  PROVE  JobKnowledge'
<1>1. UNCHANGED <<baseline, evidence>> /\ now' \in {now, now + 1} /\ now \in Nat
  BY DEF Next, vars, topicVars, fixedVars, Tick, Environment, TopicStep, Produce, RetentionCheck,
         CommitForward, ResetOffset, StartPhase, Crash, PhaseStep, ReadEvidence,
         CompareInventory, Look, WakeUp, WritePrediction, ConsumerInventory, WriteSizes,
         AlterRetention, BeginCheck, PollDone, ReadMarks, WriteCheck, ReclaimGate,
         ReadCommitted, ResumeConsumer, TypeOK, TopicTypeOK
<1>2. job \in Job
  BY DEF TypeOK
<1>3. CASE UNCHANGED <<job, prediction>>
  <2>1. job.pc = "predict" => job.clock <= now'
    BY <1>1, <1>2 DEF JobKnowledge, Job
  <2>. QED
    BY <1>1, <1>3, <2>1 DEF JobKnowledge, backup_covers, BaselineSealed
<1>4. CASE job' = NoJob
  BY <1>4, IdleKnowsNothing
<1>5. CASE \E ph \in Phase : StartPhase(ph)
  <2>1. job'.pc = "evidence"
    BY <1>5 DEF StartPhase, NoJob
  <2>. QED
    BY <2>1 DEF JobKnowledge
<1>6. CASE ReadEvidence
  <2>. DEFINE ok == /\ evidence.backup_verified /\ evidence.manifest_anchor_intact
                    /\ evidence.sealed_copy_verified /\ backup_covers(watermarks)
  <2>1. job' = [job EXCEPT !.pc = "inventory", !.marks = watermarks, !.ok = ok]
    BY <1>6, Zenon DEF ReadEvidence
  <2>2. job'.pc = "inventory" /\ job'.marks = watermarks /\ job'.ok = ok
    BY <1>2, <2>1 DEF Job
  <2>3. job'.ok => backup_covers(job.marks)'
    BY <1>1, <2>2 DEF backup_covers
  <2>. QED
    BY <2>2, <2>3 DEF JobKnowledge
<1>7. CASE CompareInventory
  <2>. DEFINE ok == job.ok /\ unchanged_since_baseline(job.marks)
  <2>1. job.pc = "inventory"
        /\ job' = [job EXCEPT !.pc = "look", !.ok = ok, !.deadline = now + 2 * Margin + Slack]
    BY <1>7, Zenon DEF CompareInventory
  <2>2. job'.pc = "look" /\ job'.ok = ok
    BY <1>2, <2>1 DEF Job
  <2>3. job'.ok => BaselineSealed
    <3>1. SUFFICES ASSUME job.ok, unchanged_since_baseline(job.marks), NEW p \in Partition
                   PROVE  /\ evidence.first[p] <= baseline[p].log_start
                          /\ evidence.last[p] >= baseline[p].high_watermark - 1
      BY <2>2 DEF BaselineSealed
    <3>2. backup_covers(job.marks)
      BY <2>1, <3>1 DEF JobKnowledge
    <3>3. job.marks[p] = [low |-> baseline[p].log_start, high |-> baseline[p].high_watermark]
      BY <3>1 DEF unchanged_since_baseline
    <3>. QED
      BY <3>2, <3>3 DEF backup_covers
  <2>. QED
    BY <1>1, <2>2, <2>3 DEF JobKnowledge, BaselineSealed
<1>8. CASE Look \/ WakeUp
  <2>1. job.pc \in {"look", "sleep"} /\ job'.pc \in {"look", "sleep", "predict"} /\ job'.ok = job.ok
        /\ (job'.pc = "predict" => job'.clock = now /\ now' = now)
    <3>. DEFINE woken == [job EXCEPT !.pc = "look", !.wake = 0]
                done == [job EXCEPT !.pc = "predict", !.clock = now]
    <3>1. PICK w : job' \in {woken, done, [job EXCEPT !.pc = "sleep", !.wake = w]}
      BY <1>8 DEF Look, WakeUp
    <3>2. job.pc \in {"look", "sleep"} /\ now' = now
      BY <1>8 DEF Look, WakeUp, topicVars
    <3>. QED
      BY <1>2, <3>1, <3>2 DEF Job
  <2>. QED
    BY <1>1, <2>1 DEF JobKnowledge, BaselineSealed
<1>9. CASE WritePrediction /\ job' # NoJob
  <2>. DEFINE deleted == build_prediction(job.clock)
              whole == \E p \in Partition : kept_segments(baseline[p], deleted[p]) = {}
              same == job.phase = "50" => \A e \in prediction["gate"] : e.deleted = deleted
              passed == /\ job.ok
                        /\ ambiguous(job.clock) = {}
                        /\ seed_end_ts > job.clock - Retention + Margin
                        /\ ~whole
                        /\ same
              new == [now |-> job.clock, deleted |-> deleted, passed |-> passed]
  <2>1. /\ prediction' = [prediction EXCEPT ![Label[job.phase]] = {new}]
        /\ Gate(passed, "groups") /\ job.pc = "predict"
    BY <1>9, Zenon DEF WritePrediction, End
  <2>2. passed /\ job' = [job EXCEPT !.pc = "groups"]
    BY <1>9, <2>1, Zenon DEF Gate, End
  <2>3. new.passed
    BY <2>2
  <2>. HIDE DEF new, passed
  <2>4. job'.pc = "groups" /\ job'.phase = job.phase /\ job.phase \in Phase
    BY <1>2, <2>1, <2>2 DEF Job, TypeOK
  <2>5. prediction'[Label[job.phase]] = {new}
    BY <2>1, <2>4 DEF TypeOK, Label, Phase
  <2>. QED
    BY <2>3, <2>4, <2>5 DEF JobKnowledge
<1>10. CASE ConsumerInventory /\ job' # NoJob
  <2>1. job' = [job EXCEPT !.pc = IF job.phase = "40" THEN "sizes" ELSE "alter"]
        /\ job.pc = "groups" /\ prediction' = prediction
    BY <1>10 DEF ConsumerInventory, Gate, End
  <2>2. job'.phase = job.phase /\ job.phase \in Phase
        /\ job'.pc = IF job.phase = "40" THEN "sizes" ELSE "alter"
    BY <1>2, <2>1 DEF Job, TypeOK
  <2>. QED
    BY <2>1, <2>2 DEF JobKnowledge, Phase
<1>11. CASE /\ AlterRetention \/ BeginCheck \/ PollDone \/ ReadMarks \/ WriteCheck \/ ReclaimGate \/ ReadCommitted
            /\ job' # NoJob
  <2>1. job'.phase = job.phase /\ job'.pc \in {"check", "poll", "settle", "observe", "reclaim", "resume", "consume"}
    BY <1>2, <1>11 DEF AlterRetention, BeginCheck, PollDone, ReadMarks, WriteCheck, ReclaimGate,
                       ReadCommitted, Gate, End, Job
  <2>2. job.pc \in {"alter", "check", "poll", "settle", "observe", "reclaim", "resume"}
    BY <1>11 DEF AlterRetention, BeginCheck, PollDone, ReadMarks, WriteCheck, ReclaimGate, ReadCommitted
  <2>. QED
    BY <2>1, <2>2 DEF JobKnowledge
<1>12. CASE Tick \/ Environment \/ UNCHANGED vars
  BY <1>3, <1>12 DEF Tick, Environment, vars, fileVars
<1>13. CASE Crash \/ WriteSizes \/ ResumeConsumer
  BY <1>4, <1>13 DEF Crash, WriteSizes, ResumeConsumer, End
<1>. QED
  BY <1>4, <1>5, <1>6, <1>7, <1>8, <1>9, <1>10, <1>11, <1>12, <1>13 DEF Next, PhaseStep

\* AlterRetention lowers retention.ms with the prediction at hand.
LEMMA StepAppliedInv == TypeOK /\ FileKnowledge /\ AppliedInv /\ [Next]_vars => AppliedInv'
<1>. SUFFICES ASSUME TypeOK, FileKnowledge, AppliedInv, [Next]_vars
              PROVE  AppliedInv'
  OBVIOUS
<1>1. job \in Job
  BY DEF TypeOK
<1>2. CASE AlterRetention
  BY <1>1, <1>2 DEF AlterRetention, AppliedInv, FileKnowledge, Job
<1>3. CASE ConsumerInventory
  <2>1. UNCHANGED <<prediction, applied, retention_ms>> /\ job.phase \in Phase
    BY <1>1, <1>3 DEF ConsumerInventory, topicVars, TypeOK, Job
  <2>2. ASSUME job'.pc = "alter"
        PROVE  prediction["apply"] # {}
    <3>1. PICK e \in prediction[Label[job.phase]] :
            Gate(behind(e) \subseteq Acked, IF job.phase = "40" THEN "sizes" ELSE "alter")
      BY <1>3 DEF ConsumerInventory
    <3>2. job' = [job EXCEPT !.pc = IF job.phase = "40" THEN "sizes" ELSE "alter"]
      BY <2>2, <3>1 DEF Gate, End, NoJob
    <3>3. job.phase = "50"
      BY <1>1, <2>1, <2>2, <3>2 DEF Job, Phase
    <3>. QED
      BY <3>1, <3>3 DEF Label, Phase
  <2>. QED
    BY <2>1, <2>2 DEF AppliedInv
<1>4. ASSUME ~AlterRetention
      PROVE  UNCHANGED <<applied, retention_ms>>
  BY <1>4 DEF Next, vars, topicVars, fileVars, Tick, Environment, TopicStep, Produce, RetentionCheck,
       CommitForward, ResetOffset, StartPhase, Crash, PhaseStep, ReadEvidence,
       CompareInventory, Look, WakeUp, WritePrediction, ConsumerInventory, WriteSizes, BeginCheck, PollDone,
       ReadMarks, WriteCheck, ReclaimGate, ReadCommitted, ResumeConsumer
<1>5. CASE ~AlterRetention /\ UNCHANGED <<job, prediction>>
  BY <1>4, <1>5 DEF AppliedInv
<1>6. CASE ~AlterRetention /\ ~ConsumerInventory /\ ~UNCHANGED <<job, prediction>>
  <2>1. job' = NoJob \/ \E r \in {"evidence", "inventory", "look", "sleep", "predict", "groups", "sizes",
           "check", "poll", "settle", "observe", "reclaim", "resume", "consume"} : job'.pc = r
    BY <1>1, <1>6 DEF Next, vars, fileVars, Tick, Environment, StartPhase, Crash, PhaseStep, ReadEvidence,
         CompareInventory, Look, WakeUp, WritePrediction, WriteSizes, BeginCheck, PollDone,
         ReadMarks, WriteCheck, ReclaimGate, ReadCommitted, ResumeConsumer, End, Gate, Job, NoJob
  <2>2. job'.pc # "alter"
    BY <2>1 DEF NoJob
  <2>. QED
    BY <1>4, <1>6, <2>2 DEF AppliedInv
<1>. QED
  BY <1>2, <1>3, <1>5, <1>6

-----------------------------------------------------------------------------
(* The invariant and what follows from it. *)

\* TypeOK and PruneInv hold in every reachable state.
THEOREM PruneInvariant == Spec => [](TypeOK /\ PruneInv)
<1>1. Init => TypeOK /\ PruneInv
  <2>1. Init => JobKnowledge /\ FileKnowledge
    BY DEF Init, JobKnowledge, FileKnowledge, NoJob
  <2>2. Init => AppliedInv
    BY DEF Init, InitTopic, AppliedInv, NoJob
  <2>. QED
    BY <2>1, <2>2, InitTypeOK, InitLogInv DEF PruneInv
<1>2. TypeOK /\ PruneInv /\ [Next]_vars => (TypeOK /\ PruneInv)'
  BY StepTypeOK, StepLogInv, StepFileKnowledge, StepJobKnowledge, StepAppliedInv DEF PruneInv
<1>. QED
  BY <1>1, <1>2, PTL DEF Spec

\* What is lost of a partition while an established prediction is in force is
\* predicted: it had aged out, and nothing was ambiguous.
LEMMA LostWasPredicted ==
  ASSUME TypeOK, LogInv, NEW pred \in Prediction, Established(pred), InForce(pred), NEW p \in Partition
  PROVE  Lost(p) \subseteq pred.deleted[p]
<1>. USE PruneGateAssumption
<1>1. SeededPartition(baseline[p]) /\ pred.now \in Nat /\ now \in Nat
  BY BaselineFacts, TopicFacts DEF Prediction
<1>2. ambiguous_segments(baseline[p], pred.now, Retention, Margin) = {} /\ now <= pred.now + Margin
  BY DEF Established, InForce
<1>3. pred.deleted[p] = {b \in DOMAIN baseline[p].segments : \A c \in DOMAIN baseline[p].segments :
                            c <= b => pred.now - baseline[p].segments[c].max_ts > Retention}
  BY <1>1, PredictIsBreachedPrefix DEF Established, build_prediction
<1>4. ASSUME NEW b \in Lost(p), NEW c \in DOMAIN baseline[p].segments, c <= b
      PROVE  pred.now - baseline[p].segments[c].max_ts > Retention
  <2>1. now - baseline[p].segments[c].max_ts > Retention
    BY <1>4 DEF LogInv, LostHadAgedOut
  <2>. QED
    BY <1>1, <1>2, <1>4, <2>1, UnambiguousIsStable
<1>. QED
  BY <1>3, <1>4 DEF Lost

\* A kept segment is still in the log, below the baseline's high watermark.
LEMMA SomethingIsKept ==
  ASSUME TypeOK, LogInv, NEW pred \in Prediction, Established(pred), InForce(pred), NEW p \in Partition
  PROVE  \E k \in DOMAIN baseline[p].segments : k \in DOMAIN segs[p] /\ k \notin pred.deleted[p]
<1>1. PICK k \in kept_segments(baseline[p], pred.deleted[p]) : TRUE
  BY DEF Established
<1>. QED
  BY <1>1, LostWasPredicted DEF kept_segments, Lost

\* Inside the margin the broker has deleted only what was predicted.
THEOREM OnlyPredictedIsDeleted == Spec => []OnlyPredictedDeleted
<1>1. TypeOK /\ PruneInv => OnlyPredictedDeleted
  BY LostWasPredicted DEF TypeOK, PruneInv, FileKnowledge, OnlyPredictedDeleted
<1>. QED
  BY <1>1, PruneInvariant, PTL

\* Inside the margin every partition keeps a record of the baseline readable.
THEOREM NoPartitionIsEmptied == Spec => []NoPartitionEmptied
<1>1. TypeOK /\ PruneInv => NoPartitionEmptied
  <2>1. SUFFICES ASSUME TypeOK, PruneInv, NEW pred \in applied, InForce(pred), NEW p \in Partition
                 PROVE  low[p] < baseline[p].high_watermark
    BY DEF NoPartitionEmptied
  <2>2. pred \in Prediction /\ Established(pred) /\ LogInv
    BY <2>1 DEF TypeOK, PruneInv, FileKnowledge
  <2>3. PICK k \in DOMAIN baseline[p].segments : k \in DOMAIN segs[p]
    BY <2>1, <2>2, SomethingIsKept
  <2>. QED
    BY <2>1, <2>3, BaselineFacts, TopicFacts
<1>. QED
  BY <1>1, PruneInvariant, PTL

\* Inside the margin every offset that has left the topic is in the sealed copy.
THEOREM UnsealedIsNotDeleted == Spec => []NoUnsealedRecordDeleted
<1>1. TypeOK /\ PruneInv => NoUnsealedRecordDeleted
  <2>1. SUFFICES ASSUME TypeOK, PruneInv, NEW pred \in applied, InForce(pred), NEW p \in Partition
                 PROVE  baseline[p].log_start..(low[p] - 1) \subseteq evidence.first[p]..evidence.last[p]
    BY DEF NoUnsealedRecordDeleted
  <2>2. pred \in Prediction /\ Established(pred) /\ LogInv
    BY <2>1 DEF TypeOK, PruneInv, FileKnowledge
  <2>3. PICK k \in DOMAIN baseline[p].segments : k \in DOMAIN segs[p]
    BY <2>1, <2>2, SomethingIsKept
  <2>4. low[p] < baseline[p].high_watermark
    BY <2>1, <2>3, BaselineFacts, TopicFacts
  <2>5. /\ evidence.first[p] <= baseline[p].log_start
        /\ evidence.last[p] >= baseline[p].high_watermark - 1
    BY <2>2 DEF Established, BaselineSealed
  <2>6. evidence.first[p] \in Nat /\ evidence.last[p] \in Int
    BY <2>1, PruneGateAssumption DEF TypeOK, EvidenceTypeOK
  <2>. QED
    BY <2>1, <2>4, <2>5, <2>6, BaselineFacts, TopicFacts
<1>. QED
  BY <1>1, PruneInvariant, PTL

=============================================================================
