# Models and proofs of the topic offload

The repository demonstrates how old history of a Kafka topic is moved to object storage: it seeds a
topic, reads a baseline, backs the topic up, verifies and seals the backup, predicts exactly which log
segments a lower `retention.ms` deletes, lowers it, compares, and restores. This directory holds TLA+
models of the parts where order, time and failure matter, TLC runs that check them on small instances,
and TLAPS proofs that hold for every instance. `PROJECT.json` maps every definition to the lines it models.

## The system

Everything is driven by numbered phase scripts (`scripts/NN-*.sh`), one at a time and by hand or from the
`Makefile`. A phase calls `verifier` commands (Python, one process per command), `kafka-backup` (an
external program) and `mc`. The phases communicate through JSON files in the evidence directory and
through the state of the outside world: the source cluster, the target cluster, two schema registries, an
ordinary bucket and an object lock bucket. A phase that is killed leaves whatever it had written.

| Component | State it keeps | Operations | What is hard | What makes it correct |
|---|---|---|---|---|
| Seed (phase 10, `seed.py`) | the source topic, `seed/<topic>.json` | produce each partition: records on time, late, or moved to a midnight | moved and late records meet | nothing is later than `LATE_MAX_HOURS`; everything lies in the span |
| Source topic (Kafka, external) | segments, log start, watermark, `retention.ms`, committed offsets | produce, roll, retention check, commit, reset | runs on its own, at any time | – (environment) |
| Baseline (phase 20, `baseline.py`) | `baseline/<topic>.json` | read watermarks, segment files, records and watermarks again; late-cohort gates | four readings at four moments; the file is written whatever its gates say | only a baseline that describes the topic is accepted later; every seeded topic is accepted |
| Schemas (25, 45, 60, 65, 70) | export file, restore registry and its mode | export, import by ID, check, naive register | requests fail, a refused GET looks like a missing ID, replies get lost, re-runs | an import that gets to its gate is right, no wrong registry passes, IMPORT mode is left |
| Backup, verify, seal (30, 35, 38) | two buckets, summary, `verify.json`, anchor, `seal.json` | back up, validate, anchor, hash and decode, copy, lock, check, seal | re-runs in any order, kills between two steps, lost and damaged objects | what the evidence vouches for is held in locked versions |
| Archive options (45) | as-at archive and topic | archive since an instant, restore a range | day arithmetic on late records | gates neither miss nor invent a loss |
| Prune gate (40), prune (50) | predictions, `check.json`, sizes, `timings.tsv` | evidence gates, wait for a clean cut, predict, inventory groups, alter, poll, check, resume a consumer | the broker, producers and consumers go on meanwhile; deadlines; kills; re-runs | exactly the predicted, sealed segments go, and no group is cut off unasked |
| Audit and full restore (60, 65, 70), `verify_restore.py` | target topic, window files, verify files, group offset | restore, reset group, compare with the baseline | segments are selected by first and last record; the restore may go wrong or be killed | complete in the window, no missed loss, no false alarm |
| Negative tests (95) | – | unpadded day, naive registry, … | they must fail for the right reason | the loss is caught and predicted |
| Harness (`Makefile`, `lib.sh`), report (80) | logs, `timings.tsv`, `report.md`, `SHA256SUMS` | `make all`, EXIT trap, collect gates, hash | failed, killed and repeated phases; what a killed phase leaves running | the verdict and the digests stand for the run |
| Segment reader (75), Azurite (90), preflight (00), cost model | – | – | – | not modelled |

## The modules

| Module | Models | Extends |
|---|---|---|
| `Retention` | the broker's retention walk and the arithmetic of the prediction (`prune.py:18-77`) | |
| `Offload` | the abstract promise: nothing goes that is not archived, and what goes is what was promised | |
| `SourceTopic` | the live topic: one action per thing a broker, producer or consumer does | `Retention` |
| `PruneGate` | phases 40 and 50, step by step, against the live topic | `SourceTopic` |
| `BaselineScan` | phase 20 against producers and deletions, and the comparison in phases 40 and 50 | `Retention` |
| `SealedArchive` | phases 30, 35, 38 and the evidence part of phase 40 | |
| `SeedPartition` | the producer loop of `seed.py` and the late-cohort gates of the baseline | |
| `RestoreWindow` | phases 45 A/B, 60, 65, 70, 95 scenario 5, and `verify_restore.py`, on a seeded partition | `SeedPartition` |
| `SchemaImport` | the commands of `schemas.py` against two registries | |
| `RunEvidence` | `make all`, `lib.sh`, `report.py` and phase 80 on the evidence directory | |
| `MCPruneGate`, `MCSealedArchive`, `MCRunEvidence` | small topics, groups, evidence, segments and phases for TLC | |
| `PruneSafetyProofs` ← `PruneOutcomeProofs` | proofs about `PruneGate`; the second ends with the refinement of `Offload` | |
| `RestoreProofs` ← `VerifyProofs` | proofs about `SeedPartition` and `RestoreWindow`; the second is about `verify-restore` | |
| `BaselineProofs`, `SealedArchiveProofs`, `SchemaProofs`, `RunEvidenceProofs` | proofs about the modules of those names | |

### PruneGate over SourceTopic

A phase script is the record `job`: its program counter (`evidence`, `inventory`, `look`, `sleep`, …) and
its locals. Each action is one call of the script or the verifier, so anything may happen between two of
them: `Produce`, `RetentionCheck`, `CommitForward`, `ResetOffset`, a clock `Tick`, or `Crash`, which stands
for SIGKILL or a host that goes down, where the EXIT trap of `lib.sh` does not run. Evidence files are
sets, empty while the file does not exist; they survive the script. `applied` is a history variable: the
prediction phase 50 had in its hands when it altered the topic. Either phase may be started again at any
time. One record stands for one byte, one tick for one second.

A prediction is a promise with an end: its margin (15 minutes in the code). Properties about what the
broker deletes are stated for as long as the margin lasts (`InForce`). The evidence of the sealed backup
is a constant here; `SealedArchive` models where it comes from. The baseline equals the topic when the
behaviour starts; `BaselineScan` is about why no other gets past the comparison. A crash takes the
verifier's container down with the script; `RunEvidence` has the container that is left behind.

`ImplementsOffload` is the refinement: `Offload` sees the offsets the sealed archive holds, the log start
at the beginning, start and end of the log, whether `retention.ms` was lowered, and the boundaries
promised. They map to `sealed`, the baseline, the live log, `retention` and, for each prediction still in
force of those in hand when the topic was altered, its new log starts. Phases, files, polls, crashes and the clock are
stuttering steps, except the tick that ends a margin (`GiveUp`) and the step that alters (`Give`).

### BaselineScan

One action per reading of one partition: low and high watermark, segment files with their time index, a
batch of records, the watermarks again; `log-dirs` sizes at last. Between any two a producer may append
and, once `retention.ms` was lowered, the broker delete. A position below the log start moves to the end,
which is the client's default. Records are read by several workers in any order, the rest in turn.

### RunEvidence

A phase is a sequence of verifier commands, each with its set of gates. It may pass a command, fail a
gate, break off without a gate line (`fail`, `set -e`, a traceback) or be killed. A kill runs no EXIT trap
and leaves behind the sampler and the verifier's container, which write later. Files are names; `sums` are
those whose digest in `SHA256SUMS` is right.

### SealedArchive

Segments are told apart by their content (`good`, `wrong`, `damaged`); the manifest records the hash of
each, which stands for the content that was hashed. The object lock bucket keeps per object the current
version, whether that is locked, and the set of versions held for good. A fault loses or damages a stored
object of the ordinary bucket, manifest included. Verdicts in `timings.tsv`, the offsets database and the
group snapshot (which no manifest lists) are left out.

### SeedPartition and RestoreWindow

`SeedPartition` is the loop of `_produce_partition` by its timestamps: the first record of a new day goes
one millisecond before midnight, the next at midnight, others at their natural time, and once the late
window has passed a record may be late by any lag up to `LATE_MAX_HOURS`. The random draw is a choice; so
is the lag. `RestoreWindow` seeds a partition this way, cuts it into segments anywhere (`kafka-backup`
is external), chooses a restore, and runs it record by record. The restore may skip a record, write one
twice, let one overtake another, misplace the group, or be killed. `verify-restore` is one action: its
topics are quiet while it reads. The digest of a day runs over its records in order; a bucket is therefore
the set of the day's records, each with its place among them. Partitions do not interact in any gate, so one is modelled. Windows are
the code's arithmetic on milliseconds with a shorter `DAY`; a bound that is not given is the empty set.

### SchemaImport

A registry is a set of entries (subject, version, ID, schema) with a mode. Every HTTP request that
changes the registry is an action; it may be refused or its reply be lost after it was carried out, which
looks the same to the client. A refused GET does not raise: `import_ids` takes the ID for missing and leaves
its entries to their POST, and `check_ids` finds it not identical. One without an answer raises, which is
`Kill`. The target starts empty or with one foreign schema.

## What is checked

Every passing run explores its whole state space. `CHECK_DEADLOCK FALSE` stands in the configurations
because the models really stop: phases, faults, producers and the clock are bounded.

| Run | Question | States |
|---|---|---|
| `prune_topic` | Phases 40 and 50, re-run and killed at will, against producers (on time or 9 s late) and a broker that checks whenever it likes: `OnlyPredictedDeleted`, `CheckDeletesPrediction`, `NoUnsealedRecordDeleted`, `NoPartitionEmptied`, `WaitWithinBudget`, `PassedPruneStands`, the invariant `PruneInv` of the proof, and the refinement `ImplementsOffload` | 0.63 million |
| `prune_live` | the same with committed offsets that move forward, in fair behaviours: `UnackedGroupNotCut`, `GroupsInv`, `PhaseEnds`, `PredictionTakesEffect` | 0.16 million |
| `prune_rewind` | finding: groups that may join or be reset | |
| `sealed` | phases 30–40 in any order with faults: `SealSurvives`, `ApprovedIsRestorable`, and `ArchiveInv` of the proof | 0.76 million |
| `sealed_stale` | finding about a re-run of phase 38 | |
| `restore` | the seeder and every partition it can leave, every cut, audit, as-at, unpadded and full restores with the consumer group: `LatenessBounded`, `InSpan`, `BaselineAcceptsSeed`, `PaddedWindowComplete`, `HonestRestorePasses`, `PassedAuditIsExact`, `SinceGatePasses`, `GroupResumesWhereItStopped`, `UnpaddedLossIsCaught` | 1.2 million |
| `restore_asat` | finding about the exact days of phase 45 | |
| `schemas` | import, check and naive registration: `PassedCheckHolds`, `ImportModeIsLeft`, `ImportEndsIdentical`, `NaiveRegistryIsCaught` | 0.44 million |
| `schema_subjects` | finding about an interrupted import | |
| `baseline_scan` | phase 20, re-run, overtaken by producers and deletions, then compared: `AcceptedIsExact`, `PassedIsExact` | 1.8 million |
| `evidence` | `make all` and single phases, failed, broken off, killed, re-run: `MakeAllIsComplete`, `FailedGateShows`, `SumsHold` | 2.0 million |
| `evidence_verdict` | finding about a phase that fails without a gate line | |

### Bounds, and why they are enough

- **prune.** Two partitions (a gate that confuses "some" with "all" needs two), two groups (one
  acknowledged), up to four one-record segments: `Retention` 6 and a start at 10 put timestamps up to 2
  past the cut, 3 to 5 in the band of `Margin` 1, later ones beyond it. The six topics are a clean cut, a
  late record that pins an old segment, segments in the band on either side, one that enters the band
  while the script waits for another to leave it, a partition that is old as a whole, and a topic of which
  nothing is old. The evidence spans the longer topics, only the shorter ones, or only the first record of a
  partition (the others came after the backup), with the first record or without it; or one of its three
  verdicts is missing. `MaxNow` (no
  phase starts later, timers still fire) lets the margin run out; `MaxOffset` leaves room to append
  records on time and late ones. The run that asks about groups takes two of the topics
  and the evidence that covers them.
- **sealed.** Two segments and the manifest, interchangeable segments (symmetry; no liveness is checked).
  Six starts allow 30-35-38-40 and two re-runs; two faults. Also held with seven starts and four faults.
- **restore.** `LateMax` (4) is longer than `DAY` (3), as 72 hours are in the code, so a late record can
  skip a whole day; `HOUR` is the shortest lag. `restore` has five days, an audit day in the
  middle, an as-at range of one day and two segments with every possible boundary; `restore_asat` needs three. A record's fate
  depends only on the bounds of its own segment. Two starts show a re-run after a kill; one fault is the
  smallest lie to detect.
- **schemas.** IDs 2 and 3, so that ID 1 is free and a fresh registry numbers differently; a foreign schema may sit on any ID; two
  subjects, so that an ID has several entries; three commands, two faults.
- **baseline.** Two partitions, so that readings of one are old when the other is read; two timestamps, so
  that a maximum can differ; two seeded records each, in one segment or two, and one more appended
  anywhere; a second start is the re-run, or the comparison. Two deletions are already possible.
- **evidence.** Three phases of `make all` stand for the thirteen: preflight, which makes a new directory;
  one with a sampler, a command with two gates and a second command, so that a phase can stop inside and
  between commands; the report. One phase is outside the verdict. Five starts allow a whole `make all`, a
  re-run and another report.

### Fairness

`FairSpec` assumes weak fairness of `PhaseStep` (the script is one process that runs on) and of `Tick` (a
clock). It assumes nothing of broker, producers, consumers or operators, nor that a phase is ever started.
`PredictionTakesEffect` alone has weak fairness of the retention check per partition as a premise; the
compose file makes the broker check every 30 s (`compose/docker-compose.yml:47`).

## What the runs found

1. `prune_rewind` – `README.md:49` promises that no consumer is silently cut off. The inventory is read
   once, before `retention.ms` is altered; a group created at, or reset to, an offset below the cut in
   between loses records unacknowledged. With offsets that only move forward the promise is proved.
2. `sealed_stale` – `seal.json` outlives a re-run of phase 38 that copied a damaged object and then failed;
   phase 40 still passes although the *current* sealed version does not match the manifest. The earlier
   locked version exists: `ApprovedIsRestorable` is proved.
3. `restore_asat` – `exact_from` of phase 45 is the day in which the padded start falls, not the first
   whole day after it, so a predicted loss at the edge can fail a restore that went well.
4. `schema_subjects` – after an import that stopped between two subjects of one ID, the re-run skips the
   ID and passes; the other subjects are never imported.
5. `evidence_verdict` – `docs/how-it-works.md:9` says that every phase prints GATE lines and exits non-zero
   on the first failure, and that the report is built from those lines. A phase that ends by `fail`, `set -e`
   or a traceback prints none for what went wrong, so the report says PASS over a phase that failed.
   `make all` never gets there (`MakeAllIsComplete`); a report made by hand does.

Met while modelling and not kept as a run: `38-seal.sh:18` says that a re-run never copies into a locked
bucket twice; it does when the two buckets hold different numbers of objects. The script lists the buckets three
times (`38-seal.sh:15,16,21`) where the model lists them once.

When nothing is predicted as deleted, `prune-check` has no newest deleted record and the text of its age gate
raises (`prune.py:181`): phase 50 has altered `retention.ms`, every gate line says PASS, `check.json` is not
written and the phase ends FAIL, a case of finding 5. `PassedPruneStands` holds all the same: without a deletion
phase 50 never passes.

`import_ids` takes any status but 200 for an ID that is not there (`schemas.py:83-90`). A conflict that a refused
GET hides ends the import only at its own POST, after other entries were posted; nothing is overwritten, and
the import does not get to its gate (`ImportEndsIdentical`).

## What is proved

All theorems hold for every value of the constants that the named `ASSUME`s allow. No run replaces a
definition the proofs use.

- **PruneGate.** `TypeCorrect`; `PruneInvariant`, the inductive invariant `TypeOK /\ PruneInv`. The
  properties are not inductive: that only predicted segments go depends on what the log may have become
  since the baseline and on what each gate established before. `LogInv` says the live log extends the
  baseline (only its last segment may have grown, no timestamp maximum went down) and what is lost is a
  prefix that had aged out. `JobKnowledge` and `FileKnowledge` say what a script at each program counter,
  and each file that passed, stand for: computed at its clock reading, unambiguous, not emptying a
  partition, sealed. From these: `OnlyPredictedIsDeleted`, `NoPartitionIsEmptied`, `UnsealedIsNotDeleted`,
  `CheckDeletesExactly` (an action property), `WaitIsWithinBudget`. `GroupsStayAboveCut` and
  `UnackedGroupIsNotCut` assume `~Rewinds`, which is exactly what finding 1 needs. `PassedPruneIsBacked`
  needs `OutcomeInv`: what the verdict of phase 50, `check.json` and the running script say of a check that
  passed is one and the same check, and its deletion is still in the log.
- **Offload.** `PruneImplementsOffload`: the initial states map to `O!Init`, every step to a step of `O!Next`
  or a stutter. Each prediction in force keeps the log start of a partition at what it was when it was made or at
  the predicted start (`AppliedInv`), so a deletion inside the margin can only move to the boundary
  (`CheckMovesToCut`), and outside it goes no further than the end; that the boundaries are covered by
  the archive and empty nothing (`CutIsHonest`) is what the gates of phase 40 established, `PruneInv`.
- **SealedArchive.** `ArchiveTypeCorrect`, `ArchiveInvariant`, `SealHoldsForGood`,
  `ApprovedCanBeRestored`. `LockedIsHeld` says a locked current version is held and was locked before it
  was checked; `Lineage` says all manifests anybody has (in either bucket, the anchor, a script's memory)
  agree wherever both have a hash, because `kafka-backup` writes one only into an empty prefix. Without
  it, evidence of different runs could be about different archives.
- **SeedPartition.** `SeedTypeCorrect`, `LatenessIsBounded`, `RecordsAreInSpan`. The clock is at least the
  start and never ahead of the natural timestamp of the last record, so only a late record can be behind
  it; a record pinned to a midnight follows one a millisecond before. The lemmas on `\div` (that dividing
  is monotone, that the midnight of a later day separates the two timestamps) are proved for all values.
  `CohortInv` adds that the clock is a timestamp of the log and that as many records are behind an earlier
  one as were produced late, so the gates of phase 20 accept every seeded topic (`SeedIsAccepted`).
- **RestoreWindow.** `AuditRestoreIsComplete`: for every span, late window, audit month and cut of the log,
  a restore without a fault brings back every record of the month. The argument joins two invariants:
  lateness is bounded (`SeedInv`), so the pads keep every segment that holds a record of the month
  (`PaddedWindowSelects`); and every selected record is restored or still to do (`AuditInv`).
  `SeedHoldsBeforeRestore` carries the seeder's properties over to this module's specification,
  `RestoreTypeCorrect` says that whatever kafka-backup does the target holds records of the source, and
  `SinceGateIsSound` that the gate of phase 45 A allows for exactly the lateness there can be.
- **verify-restore.** `PassedAudits` (no missed loss), `HonestRestoresPass` (no false alarm), `GroupResumes`
  and the action property `UnpaddedCaught`. A verdict compares three things, the log, the manifest's bounds and
  what arrived, so the invariant `VerifyInv` says how they are related when it is given: the window is the one of
  the restore's kind; without a fault exactly the selected records have arrived, in order, each once
  (`HonestInv`); the group is where the mapping of its offset says, unless the fault moved it (`GroupInv`). A
  target that has, in the log's order, exactly the selected records has in every day the bucket of the baseline
  minus the records the bounds exclude (`WholeDay`, `HonestIsExplained`); conversely equal buckets of the audit
  days give back the records of the month in their order, and the gate on original offsets makes every place in a
  passed full restore the place in the log (`OrderIsPosition`, `WholeTopic`). `HonestRestoresPass` has one
  hypothesis, that an audit month holds a record at all (`AuditMonthHasRecords`): a restore of an empty month
  may bring back nothing, and the bucket gate fails on an empty topic (`restored > 0`, `verify_restore.py:199`). In
  the run every audit month has records. The other three have no hypothesis.
- **BaselineScan.** `BaselineTypes`, `AcceptedExact`, `PassedExact`, from `BaselineInvariant`. Nothing is read at
  one moment, so `BaselineInv` speaks of what was read in the past tense: low marks are not above, and high marks not
  beyond, those of the log now; the segment files read since begin above the first low mark, end at or beyond the
  high mark, and are the log's while nothing was deleted (`ReadInv`); the records read are those between the
  low mark and the reader's position as long as the log still starts at that mark (`ScanInv`). The comparison of
  phase 40 sees equal marks and equal boundaries, and start and end that only move up must then have stood still
  in between. `PassedExact` also needs that two sums of non-negative sizes, one termwise at most the other, are
  equal only if the terms are (`SumsEqual`).
- **RunEvidence.** `RunTypes`, `MakeAllComplete`, `FailedShows`, `SealHolds`, from `RunInvariant`. `AllInv` says that
  while `make all` goes on no log holds a FAIL line and every phase before the present one has printed all its
  gates and its PASS; `FailedGateShows` is inductive together with it; `SealInv` says that nothing runs, and
  nothing was written, since the digests. The phases and the commands of each are constants, any sequences.
- **SchemaImport.** `SchemaTypeCorrect`, `ModeIsReset`, `CheckedSchemasStay`, `ImportIsIdentical`,
  `NaiveRegistryFails`: all five properties of the run `schemas`. `ImportInv` says that what an import has
  looked up is the target's under its own ID or still to be posted, whatever the answer was, so that nothing
  is left open at the gate, and that only a kill or a failed reset leaves IMPORT mode. An ID that means something
  never changes its meaning (`StepTargetOK`). `NaiveInv` says why ordinary registration never passes: the k-th unrelated schema takes an ID
  of k or more, as many as the largest ID of the data are registered first, and so every schema of the data
  gets an ID above all of them.

Sums over a partition's segments are recursive in the library, and the place of a record is a count. Nothing is
proved by induction over them: the lemmas take a smallest set, or a smallest number, for which the claim fails
(`SumsEqual`, `OrderIsPosition`), or a bijection and the library's facts about `Cardinality` (`SameNumber`).

Only model-checked: liveness (`PhaseEnds`, `PredictionTakesEffect`), which is beyond the proof system. Every
invariant and every action property that a passing run checks is also the subject of a theorem.

## What is not modelled

- The tables of `report.md` and `summary.json`: layout. The sampler's rows and the helpers of `lib.sh` that run
  one command each are part of the command of a phase.
- A sampler that outlives its phase keeps appending to a file `SHA256SUMS` lists; `SumsHold` therefore ends with
  the first write of something a kill left behind. A container left behind may also write an evidence file that
  `PruneGate` or `SealedArchive` reads later; there, a killed command writes nothing.
- Payloads, keys, Avro encoding, the murmur2 partitioner, message sizes: data without order or failure.
- `segments.py` (phase 75) is a pure decoder; `cost_model.py` is arithmetic; phases 00 and 90 and the
  image builds are I/O. The `C` part of phase 45 is the pruning of the archive by `kafka-backup` itself.
- Phase 50 may go on polling for exactly as long as the margin; what the broker deletes after the margin
  is outside the prediction on purpose, and `prune-check` reports it.
- Several brokers, leader changes and transactions: the demonstration runs one broker.

## Plan

Done, most important first: the prune against a live topic; the sealed archive; seeding and the restores;
the schema registry; the baseline; the run's evidence and verdict; the abstract offload, implemented by the
prune and proved so; the proofs of every safety property. What would come next:

1. The composition of `PruneGate` with `SealedArchive`, with the evidence constant replaced by the archive's
   state; today `SealedEvidence` ranges over what `ApprovedIsRestorable` and the manifest allow.
2. The part of phase 38 that kills leave stuck (counts equal, nothing locked) as a liveness question.
