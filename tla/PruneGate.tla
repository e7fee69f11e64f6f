----------------------------- MODULE PruneGate -----------------------------
(***************************************************************************)
(* Phases 40 (scripts/40-prune-gate.sh) and 50 (50-retention-prune.sh):    *)
(* the gate that predicts what lowering retention.ms deletes, the change   *)
(* itself and the check afterwards, running against a live topic.          *)
(*                                                                         *)
(* One phase script runs at a time.  Its program counter and locals are    *)
(* the record `job`; each step is one call the script or the verifier      *)
(* makes, so the topic may change, time may pass and the script may be     *)
(* killed between any two of them.  Evidence files outlive the script; a   *)
(* file is the set of its contents, empty while it does not exist.         *)
(***************************************************************************)
EXTENDS SourceTopic

CONSTANTS
  Retention,      \* RETENTION_AFTER_PRUNE_MS
  Margin,         \* --margin-ms
  Slack,          \* the 60 s added to the deadline of the wait
  CheckTimeout,   \* --timeout-s of prune-check
  Settle,         \* the 70 s prune-check waits after the log starts moved
  Acked,          \* ACK_CONSUMER_IMPACT, the groups a person accepted to cut
  SimGroup,       \* telemetry-analytics, the group phase 50 resumes
  SealedEvidence, \* what phases 30 to 38 may have left, see evidence
  MaxNow          \* bound: no phase starts, and no idle time passes, after it

ASSUME PruneGateAssumption ==
  /\ Retention \in Nat
  /\ Margin \in Nat /\ Slack \in Nat /\ CheckTimeout \in Nat /\ Settle \in Nat
  /\ Acked \subseteq Group /\ SimGroup \in Group
  /\ \A e \in SealedEvidence :
       /\ e.backup_verified \in BOOLEAN
       /\ e.manifest_anchor_intact \in BOOLEAN
       /\ e.sealed_copy_verified \in BOOLEAN
       /\ e.first \in [Partition -> Nat] /\ e.last \in [Partition -> Int]
  /\ MaxNow \in Nat

VARIABLES
  baseline,       \* baseline/<topic>.json
  seed_end_ts,    \* seed/<topic>.json
  evidence,       \* verify-*.json, manifest anchor, seal.json, sealed manifest
  prediction,     \* prune/prediction.json ("gate"), prediction-apply.json ("apply")
  check,          \* prune/check.json
  sizes_before,   \* prune/log-dir-sizes-before.txt
  timings,        \* the last verdict per phase in timings.tsv
  applied,        \* history: the prediction in force when retention was altered
  job

fileVars == <<prediction, check, sizes_before, timings, applied>>
fixedVars == <<baseline, seed_end_ts, evidence>>
vars == <<topicVars, fixedVars, fileVars, job>>

Phase == {"40", "50"}
Label == [ph \in Phase |-> IF ph = "40" THEN "gate" ELSE "apply"]

Marks == [low : Nat, high : Nat]
Prediction == [now : Nat, deleted : [Partition -> SUBSET Nat], passed : BOOLEAN]
Check == [low : [Partition -> Nat], passed : BOOLEAN]

\* Program counters, in the order a phase passes through them.
Step == {"idle", "evidence", "inventory", "look", "sleep", "predict", "groups",
         "sizes", "alter", "check", "poll", "settle", "observe", "reclaim",
         "resume", "consume"}

Job == [phase : Phase \cup {"none"}, pc : Step, ok : BOOLEAN,
        marks : [Partition -> Marks], resumed : [Partition -> Nat \cup {NoOffset}],
        clock : Nat, deadline : Nat, wake : Nat]

NoJob == [phase |-> "none", pc |-> "idle", ok |-> FALSE,
          marks |-> [p \in Partition |-> [low |-> 0, high |-> 0]],
          resumed |-> [p \in Partition |-> NoOffset],
          clock |-> 0, deadline |-> 0, wake |-> 0]

-----------------------------------------------------------------------------
(* What a step reads from the topic. *)

watermarks == [p \in Partition |-> [low |-> low[p], high |-> high[p]]]

\* (base_offset, log_bytes) of every segment file in a partition directory.
segment_inventory(log) == {<<b, log[b].count>> : b \in DOMAIN log}

M_backup_covers_end(marks) ==   \* mutant: only the end of the span is compared
  \A p \in Partition : evidence.last[p] >= marks[p].high - 1

M_backup_covers_start(marks) ==   \* mutant: only its start
  \A p \in Partition : evidence.first[p] <= marks[p].low

\* Every partition of the sealed manifest spans log start to high watermark.
backup_covers(marks) ==
  \A p \in Partition :
    /\ evidence.first[p] <= marks[p].low
    /\ evidence.last[p] >= marks[p].high - 1

unchanged_since_baseline(marks) ==
  \A p \in Partition :
    /\ segment_inventory(segs[p]) = segment_inventory(baseline[p].segments)
    /\ marks[p] = [low |-> baseline[p].log_start, high |-> baseline[p].high_watermark]

ambiguous(t) ==
  UNION {{<<p, b>> : b \in ambiguous_segments(baseline[p], t, Retention, Margin)} : p \in Partition}

build_prediction(t) ==
  [p \in Partition |-> predict_partition(baseline[p], t, Retention)]

cut(pred, p) == predicted_log_start(baseline[p], pred.deleted[p])

M_behind(pred) ==   \* mutant: behind only if below the cut on every partition
  {g \in Group : \A p \in Partition :
      committed[g][p] # NoOffset /\ committed[g][p] < cut(pred, p)}

behind(pred) ==
  {g \in Group : \E p \in Partition :
      committed[g][p] # NoOffset /\ committed[g][p] < cut(pred, p)}

SumOver(op(_)) == MapThenSumSet(op, Partition)
log_dir_sizes == SumOver(LAMBDA p : log_bytes(segs[p], DOMAIN segs[p]))
bytes_before  == SumOver(LAMBDA p : log_bytes(baseline[p].segments, DOMAIN baseline[p].segments))
deleted_bytes(pred) == SumOver(LAMBDA p : log_bytes(baseline[p].segments, pred.deleted[p]))

-----------------------------------------------------------------------------
Init ==
  /\ InitTopic
  /\ baseline = [p \in Partition |-> [segments |-> segs[p], log_start |-> low[p],
                                      high_watermark |-> high[p]]]
  /\ seed_end_ts = InitNow
  /\ evidence \in SealedEvidence
  /\ prediction = [l \in {"gate", "apply"} |-> {}]
  /\ check = {} /\ sizes_before = {} /\ applied = {}
  /\ timings = [ph \in Phase |-> "NONE"]
  /\ job = NoJob

M_End(verdict) ==   \* mutant: the locals of the last run are kept
  /\ job' = [job EXCEPT !.pc = "idle"]
  /\ timings' = [timings EXCEPT ![job.phase] = verdict]

\* The script ends: the EXIT trap records the verdict.
End(verdict) ==
  /\ job' = NoJob
  /\ timings' = [timings EXCEPT ![job.phase] = verdict]

\* A gate that lets the script go on to pc, or ends it.
Gate(passed, pc) ==
  \/ /\ passed
     /\ job' = [job EXCEPT !.pc = pc]
     /\ UNCHANGED timings
  \/ ~passed /\ End("FAIL")

StartPhase(ph) ==
  /\ job.pc = "idle"
  /\ now <= MaxNow
  /\ job' = [NoJob EXCEPT !.phase = ph, !.pc = "evidence", !.ok = TRUE]
  /\ UNCHANGED <<topicVars, fixedVars, fileVars>>

\* verify, anchor and seal files, the sealed manifest, then the watermarks.
ReadEvidence ==
  /\ job.pc = "evidence"
  /\ job' = [job EXCEPT !.pc = "inventory", !.marks = watermarks,
                        !.ok = /\ evidence.backup_verified
                               /\ evidence.manifest_anchor_intact
                               /\ evidence.sealed_copy_verified
                               /\ backup_covers(watermarks)]
  /\ UNCHANGED <<topicVars, fixedVars, fileVars>>

CompareInventory ==
  /\ job.pc = "inventory"
  /\ job' = [job EXCEPT !.pc = "look", !.ok = @ /\ unchanged_since_baseline(job.marks),
                        !.deadline = now + 2 * Margin + Slack]
  /\ UNCHANGED <<topicVars, fixedVars, fileVars>>

M_Look ==   \* mutant: the sleep is not cut off at the deadline
  /\ job.pc = "look"
  /\ LET clear == {clears_in(baseline[s[1]], s[2], now, Retention, Margin) : s \in ambiguous(now)}
     IN  IF ambiguous(now) = {} \/ now > job.deadline
         THEN job' = [job EXCEPT !.pc = "predict", !.clock = now]
         ELSE job' = [job EXCEPT !.pc = "sleep", !.wake = now + Max(clear) + 1]
  /\ UNCHANGED <<topicVars, fixedVars, fileVars>>

\* One turn of the wait loop: sleep until the segment that clears last has
\* cleared and one tick more, never past the deadline, at least one tick.
Look ==
  /\ job.pc = "look"
  /\ LET clear == {clears_in(baseline[s[1]], s[2], now, Retention, Margin) : s \in ambiguous(now)}
         wait  == Min({Max(clear) + 1, job.deadline - now})
     IN  IF ambiguous(now) = {} \/ now > job.deadline
         THEN job' = [job EXCEPT !.pc = "predict", !.clock = now]
         ELSE job' = [job EXCEPT !.pc = "sleep", !.wake = now + Max({wait, 1})]
  /\ UNCHANGED <<topicVars, fixedVars, fileVars>>

WakeUp ==
  /\ job.pc = "sleep"
  /\ now >= job.wake
  /\ job' = [job EXCEPT !.pc = "look", !.wake = 0]
  /\ UNCHANGED <<topicVars, fixedVars, fileVars>>

M_WritePrediction ==   \* mutant: no_partition_emptied is dropped
  LET deleted == build_prediction(job.clock)
      passed  == /\ job.ok
                 /\ ambiguous(job.clock) = {}
                 /\ seed_end_ts > job.clock - Retention + Margin
                 /\ job.phase = "50" => \A e \in prediction["gate"] : e.deleted = deleted
  IN  /\ job.pc = "predict"
      /\ job.phase = "50" => prediction["gate"] # {}
      /\ prediction' = [prediction EXCEPT ![Label[job.phase]] =
                          {[now |-> job.clock, deleted |-> deleted, passed |-> passed]}]
      /\ Gate(passed, "groups")
      /\ UNCHANGED <<topicVars, fixedVars, check, sizes_before, applied>>

\* The remaining gates use the clock reading that ended the loop.  Phase 50
\* raises before it writes anything when prediction.json is missing.
WritePrediction ==
  LET deleted == build_prediction(job.clock)
      whole   == \E p \in Partition : kept_segments(baseline[p], deleted[p]) = {}
      same    == job.phase = "50" => \A e \in prediction["gate"] : e.deleted = deleted
      passed  == /\ job.ok
                 /\ ambiguous(job.clock) = {}
                 /\ seed_end_ts > job.clock - Retention + Margin
                 /\ ~whole
                 /\ same
  IN  /\ job.pc = "predict"
      /\ \/ /\ job.phase = "50" /\ prediction["gate"] = {}
            /\ End("FAIL")
            /\ UNCHANGED prediction
         \/ /\ job.phase = "50" => prediction["gate"] # {}
            /\ prediction' = [prediction EXCEPT ![Label[job.phase]] =
                                {[now |-> job.clock, deleted |-> deleted, passed |-> passed]}]
            /\ Gate(passed, "groups")
      /\ UNCHANGED <<topicVars, fixedVars, check, sizes_before, applied>>

ConsumerInventory ==
  /\ job.pc = "groups"
  /\ \E pred \in prediction[Label[job.phase]] :
       Gate(behind(pred) \subseteq Acked, IF job.phase = "40" THEN "sizes" ELSE "alter")
  /\ UNCHANGED <<topicVars, fixedVars, prediction, check, sizes_before, applied>>

\* The last line of phase 40.
WriteSizes ==
  /\ job.pc = "sizes"
  /\ sizes_before' = {log_dir_sizes}
  /\ End("PASS")
  /\ UNCHANGED <<topicVars, fixedVars, prediction, check, applied>>

-----------------------------------------------------------------------------
(* Phase 50 goes on: the change and the check. *)

M_AlterRetention ==   \* mutant: the change does not reach the topic
  /\ job.pc = "alter"
  /\ applied' = prediction["apply"]
  /\ job' = [job EXCEPT !.pc = "check"]
  /\ UNCHANGED <<topicVars, fixedVars, prediction, check, sizes_before, timings>>

AlterRetention ==
  /\ job.pc = "alter"
  /\ retention_ms' = Retention
  /\ applied' = prediction["apply"]
  /\ job' = [job EXCEPT !.pc = "check"]
  /\ UNCHANGED <<now, segs, low, high, committed, fixedVars, prediction, check,
                 sizes_before, timings>>

BeginCheck ==
  /\ job.pc = "check"
  /\ job' = [job EXCEPT !.pc = "poll", !.deadline = now + CheckTimeout]
  /\ UNCHANGED <<topicVars, fixedVars, fileVars>>

M_PollDone ==   \* mutant: no deadline
  /\ job.pc = "poll"
  /\ \E pred \in prediction["apply"] : \A p \in Partition : low[p] >= cut(pred, p)
  /\ job' = [job EXCEPT !.pc = "settle", !.wake = now + Settle]
  /\ UNCHANGED <<topicVars, fixedVars, fileVars>>

\* The poll that ends the loop; the polls before it change nothing.
PollDone ==
  /\ job.pc = "poll"
  /\ \E pred \in prediction["apply"] :
       (\A p \in Partition : low[p] >= cut(pred, p)) \/ now > job.deadline
  /\ job' = [job EXCEPT !.pc = "settle", !.wake = now + Settle]
  /\ UNCHANGED <<topicVars, fixedVars, fileVars>>

ReadMarks ==
  /\ job.pc = "settle"
  /\ now >= job.wake
  /\ job' = [job EXCEPT !.pc = "observe", !.marks = watermarks, !.clock = now]
  /\ UNCHANGED <<topicVars, fixedVars, fileVars>>

\* Every deleted segment is older than the retention when observed.
only_old_data_deleted(pred, observed) ==
  \A p \in Partition : \A b \in pred.deleted[p] :
    baseline[p].segments[b].max_ts < observed - Retention

deletes_something(pred) == \E p \in Partition : pred.deleted[p] # {}

M_WriteCheck ==   \* mutant: the age gate passes a prediction without deletions
  /\ job.pc = "observe"
  /\ \E pred \in prediction["apply"] :
       LET passed ==
             /\ \A p \in Partition : /\ job.marks[p].low = cut(pred, p)
                                     /\ DOMAIN segs[p] = kept_segments(baseline[p], pred.deleted[p])
                                     /\ evidence.first[p] <= baseline[p].log_start
                                     /\ evidence.last[p] >= cut(pred, p) - 1
             /\ bytes_before - log_dir_sizes = deleted_bytes(pred)
             /\ only_old_data_deleted(pred, job.clock)
       IN  /\ check' = {[low |-> [p \in Partition |-> job.marks[p].low], passed |-> passed]}
           /\ Gate(passed, "reclaim")
  /\ UNCHANGED <<topicVars, fixedVars, prediction, sizes_before, applied>>

\* With nothing predicted as deleted there is no newest deleted record: the text
\* of the age gate raises before the gate prints its line and before anything is
\* written, so an earlier check.json stays (prune.py:178-181).
WriteCheck ==
  /\ job.pc = "observe"
  /\ \E pred \in prediction["apply"] :
       LET passed ==
             /\ \A p \in Partition :
                  /\ job.marks[p].low = cut(pred, p)
                  /\ DOMAIN segs[p] = kept_segments(baseline[p], pred.deleted[p])
                  /\ evidence.first[p] <= baseline[p].log_start
                  /\ evidence.last[p] >= cut(pred, p) - 1
             /\ bytes_before - log_dir_sizes = deleted_bytes(pred)
             /\ only_old_data_deleted(pred, job.clock)
       IN  \/ ~deletes_something(pred) /\ End("FAIL") /\ UNCHANGED check
           \/ /\ deletes_something(pred)
              /\ check' = {[low |-> [p \in Partition |-> job.marks[p].low], passed |-> passed]}
              /\ Gate(passed, "reclaim")
  /\ UNCHANGED <<topicVars, fixedVars, prediction, sizes_before, applied>>

ReclaimGate ==
  /\ job.pc = "reclaim"
  /\ \E pred \in prediction["apply"] :
       Gate(\E before \in sizes_before : before - log_dir_sizes = deleted_bytes(pred), "resume")
  /\ UNCHANGED <<topicVars, fixedVars, prediction, check, sizes_before, applied>>

\* consumer-sim: committed offsets and watermarks first, then the fetches.
ReadCommitted ==
  /\ job.pc = "resume"
  /\ job' = [job EXCEPT !.pc = "consume", !.resumed = committed[SimGroup], !.marks = watermarks]
  /\ UNCHANGED <<topicVars, fixedVars, fileVars>>

ResumeConsumer ==
  LET below  == {p \in Partition : job.resumed[p] < job.marks[p].low}
      events == {p \in Partition : job.resumed[p] < low[p]}
  IN  /\ job.pc = "consume"
      /\ End(IF below # {} /\ events = below THEN "PASS" ELSE "FAIL")
      /\ UNCHANGED <<topicVars, fixedVars, prediction, check, sizes_before, applied>>

-----------------------------------------------------------------------------
\* SIGKILL or a host crash: no EXIT trap, so no verdict is recorded.
Crash ==
  /\ job.pc # "idle"
  /\ job' = NoJob
  /\ UNCHANGED <<topicVars, fixedVars, fileVars>>

\* Time stops at MaxNow except for a timer that is still pending.
TimerPending ==
  \/ job.pc \in {"sleep", "settle"} /\ now < job.wake
  \/ job.pc = "poll" /\ now <= job.deadline

Tick ==
  /\ now < MaxNow \/ TimerPending
  /\ now' = now + 1
  /\ UNCHANGED <<segs, low, high, retention_ms, committed, fixedVars, fileVars, job>>

PhaseStep ==
  \/ ReadEvidence \/ CompareInventory \/ Look \/ WakeUp \/ WritePrediction
  \/ ConsumerInventory \/ WriteSizes
  \/ AlterRetention \/ BeginCheck \/ PollDone \/ ReadMarks \/ WriteCheck
  \/ ReclaimGate \/ ReadCommitted \/ ResumeConsumer

Environment == TopicStep /\ UNCHANGED <<fixedVars, fileVars, job>>

Next ==
  \/ Tick
  \/ Environment
  \/ \E ph \in Phase : StartPhase(ph)
  \/ PhaseStep
  \/ Crash

Spec == Init /\ [][Next]_vars

\* The script runs on (it is one process, and a timer fires), the clock moves.
\* Nothing is assumed of the broker, the producers or the consumers.
ScriptFairness == WF_vars(PhaseStep) /\ WF_vars(Tick)
FairSpec == Spec /\ ScriptFairness

\* The broker keeps running its retention check on every partition
\* (KAFKA_LOG_RETENTION_CHECK_INTERVAL_MS in docker-compose.yml).  Only the
\* property that is about the broker's deletions assumes it.
BrokerFairness ==
  \A p \in Partition : WF_vars(RetentionCheck(p) /\ UNCHANGED <<fixedVars, fileVars, job>>)

-----------------------------------------------------------------------------
(* Properties. *)

\* Types of the topic, the evidence files and the running script (the one
\* sum, sizes_before, is left out).
EvidenceTypeOK ==
  /\ DOMAIN baseline = Partition
  /\ \A p \in Partition : SeededPartition(baseline[p])
  /\ evidence \in SealedEvidence

TypeOK ==
  /\ TopicTypeOK
  /\ EvidenceTypeOK
  /\ prediction \in [{"gate", "apply"} -> SUBSET Prediction]
  /\ applied \subseteq Prediction
  /\ check \subseteq Check
  /\ timings \in [Phase -> {"NONE", "PASS", "FAIL"}]
  /\ job \in Job
  /\ job.phase = "none" <=> job.pc = "idle"

\* Segments the baseline recorded and the broker has deleted since.
Lost(p) == DOMAIN baseline[p].segments \ DOMAIN segs[p]

\* The promise of a prediction holds for Margin after its clock reading.
InForce(pred) == now <= pred.now + Margin

\* Exact prediction, no over-deletion: while the margin lasts, whatever the
\* broker has deleted, however often it checked, whoever produced meanwhile,
\* and whether or not the script crashed, is in the prediction that phase 50
\* had in its hands when it altered the topic (prune.py:1-12, 124-137).
OnlyPredictedDeleted ==
  \A pred \in applied : InForce(pred) => \A p \in Partition : Lost(p) \subseteq pred.deleted[p]

\* Exact prediction, no under-deletion: a retention check inside the margin
\* that deletes anything of a partition leaves exactly the predicted segments
\* deleted; a partition is never left halfway.
CheckDeletesPrediction ==
  [][\A pred \in applied : InForce(pred)' =>
       \A p \in Partition : Lost(p)' # Lost(p) => Lost(p)' = pred.deleted[p]]_vars

\* What the whole demonstration is for: inside the margin, no offset that the
\* sealed manifest does not span has left the topic, records produced after
\* the backup included (prune.py:106-114, 183-189).
NoUnsealedRecordDeleted ==
  \A pred \in applied : InForce(pred) =>
    \A p \in Partition :
      baseline[p].log_start..(low[p] - 1) \subseteq evidence.first[p]..evidence.last[p]

\* The gates that keep the change from emptying the topic work per partition:
\* the newest record of the baseline stays readable (prune.py:139-144).
NoPartitionEmptied ==
  \A pred \in applied : InForce(pred) =>
    \A p \in Partition : low[p] < baseline[p].high_watermark

\* README.md:49, "No consumer is silently cut off": a group whose impact nobody
\* acknowledged never finds its committed offset below the log start
\* (consumer_sim.py:39-52).
UnackedGroupNotCut ==
  \A pred \in applied : InForce(pred) =>
    \A g \in Group \ Acked, p \in Partition :
      committed[g][p] # NoOffset => committed[g][p] >= low[p]

\* The wait for a clean prediction never sleeps beyond 2 x margin + 60 s and
\* one second more (prune.py:124-133).
WaitWithinBudget ==
  job.pc = "sleep" => job.wake <= job.deadline + 1

\* A PASS of phase 50 in timings.tsv stays backed by check.json however often
\* either phase is re-run or killed later: the check passed, what it saw
\* deleted is deleted and sealed, and something was reclaimed.
PassedPruneStands ==
  timings["50"] = "PASS" =>
    /\ check # {}
    /\ \A c \in check :
         /\ c.passed
         /\ \E p \in Partition : c.low[p] > baseline[p].log_start
         /\ \A p \in Partition :
              /\ c.low[p] <= low[p]
              /\ baseline[p].log_start..(c.low[p] - 1) \subseteq evidence.first[p]..evidence.last[p]

\* Every phase ends, with a verdict or killed, even if the broker never deletes
\* anything: the wait loop and the poll both have a deadline.
PhaseEnds == job.pc # "idle" ~> job.pc = "idle"

\* With a broker that keeps checking, everything predicted is deleted in the
\* end, whatever producers append after the change.
PredictionTakesEffect ==
  BrokerFairness => \A p \in Partition :
    applied # {} ~> (\A pred \in applied : pred.deleted[p] \cap DOMAIN segs[p] = {})

\* The boundaries of the prediction in force, and what the archive spans.
boundaries == {[p \in Partition |-> cut(pred, p)] : pred \in {a \in applied : InForce(a)}}
spans == [p \in Partition |-> evidence.first[p]..evidence.last[p]]

O == INSTANCE Offload WITH
       archived <- spans, start <- [p \in Partition |-> baseline[p].log_start],
       altered <- applied # {}, promise <- boundaries

\* Gates, clock, segments, re-runs and crashes together keep the promise of
\* Offload: inside the margin a log start moves to the predicted boundary in
\* one step or not at all, that boundary leaves records to read and none
\* unsealed behind, and nothing is deleted before phase 50 has altered the
\* topic (40-prune-gate.sh, 50-retention-prune.sh, prune.py).
ImplementsOffload == O!Spec
-----------------------------------------------------------------------------
(* What makes the properties above inductive. *)

IsLast(p, b) == \A c \in DOMAIN baseline[p].segments : c <= b

\* The live log extends the baseline: what is left of it is unchanged, except
\* that its last segment may have grown, and every new segment starts at or
\* after the baseline's high watermark.
ExtendsBaseline(p) ==
  /\ baseline[p].high_watermark <= high[p]
  /\ \A b \in DOMAIN segs[p] \ DOMAIN baseline[p].segments : baseline[p].high_watermark <= b
  /\ \A b \in DOMAIN segs[p] \cap DOMAIN baseline[p].segments :
       /\ segs[p][b].count > 0
       /\ segs[p][b].max_ts >= baseline[p].segments[b].max_ts
       /\ IsLast(p, b) \/ segs[p][b] = baseline[p].segments[b]

\* What is lost is a prefix of the baseline, and all of it had aged out.
LostHadAgedOut(p) ==
  \A b \in Lost(p), c \in DOMAIN baseline[p].segments :
    c <= b => c \in Lost(p) /\ now - baseline[p].segments[c].max_ts > Retention

LogInv ==
  /\ retention_ms \in {Infinite, Retention}
  /\ \A p \in Partition : ExtendsBaseline(p) /\ LostHadAgedOut(p)

BaselineSealed ==
  \A p \in Partition :
    /\ evidence.first[p] <= baseline[p].log_start
    /\ evidence.last[p] >= baseline[p].high_watermark - 1

\* What the gates have established about a prediction that passed them.
Established(pred) ==
  /\ pred.now <= now
  /\ pred.deleted = build_prediction(pred.now)
  /\ \A p \in Partition : ambiguous_segments(baseline[p], pred.now, Retention, Margin) = {}
  /\ \A p \in Partition : kept_segments(baseline[p], pred.deleted[p]) # {}
  /\ BaselineSealed

\* What the running script knows at each point.
JobKnowledge ==
  /\ job.pc = "inventory" /\ job.ok => backup_covers(job.marks)
  /\ job.pc \in {"look", "sleep", "predict"} /\ job.ok => BaselineSealed
  /\ job.pc = "predict" => job.clock <= now
  /\ job.pc \in {"groups", "alter"} => \A pred \in prediction[Label[job.phase]] : pred.passed
  /\ job.pc \in {"alter", "check", "poll", "settle", "observe", "reclaim", "resume", "consume"} =>
       job.phase = "50"

FileKnowledge ==
  /\ \A l \in {"gate", "apply"} : \A d, e \in prediction[l] : d = e
  /\ \A l \in {"gate", "apply"} : \A pred \in prediction[l] : pred.passed => Established(pred)
  /\ \A pred \in applied : Established(pred)

\* retention.ms is lowered under one prediction, and only then.
AppliedInv ==
  /\ \A d, e \in applied : d = e
  /\ retention_ms # Infinite => applied # {}
  /\ job.pc = "alter" => prediction["apply"] # {}

PruneInv ==
  /\ LogInv
  /\ JobKnowledge
  /\ FileKnowledge
  /\ AppliedInv

\* A check that passed saw a deletion of sealed records that stays.
CheckHolds(c) ==
  /\ \E p \in Partition : c.low[p] > baseline[p].log_start
  /\ \A p \in Partition :
       /\ c.low[p] <= low[p]
       /\ baseline[p].log_start..(c.low[p] - 1) \subseteq evidence.first[p]..evidence.last[p]

CheckPassed == check # {} /\ \A c \in check : c.passed

OutcomeInv ==
  /\ \A c \in check : c.passed => CheckHolds(c)
  /\ timings["50"] = "PASS" => CheckPassed
  /\ job.pc \in {"reclaim", "resume", "consume"} => CheckPassed
  /\ job.pc \in {"check", "poll", "settle", "observe"} => \A pred \in prediction["apply"] : pred.passed
  /\ job.pc = "observe" => \A p \in Partition : job.marks[p].low <= low[p]
  /\ job.pc = "sizes" => job.phase = "40"

\* Groups nobody acknowledged are at or above the cut of a prediction whose
\* consumer inventory passed.
GroupsAboveCut(pred) ==
  \A g \in Group \ Acked, p \in Partition :
    committed[g][p] # NoOffset => committed[g][p] >= cut(pred, p)

GroupsInv ==
  /\ job.pc = "alter" => \A pred \in prediction["apply"] : GroupsAboveCut(pred)
  /\ \A pred \in applied : GroupsAboveCut(pred)
=============================================================================
