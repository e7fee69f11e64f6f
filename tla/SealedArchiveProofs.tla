------------------------ MODULE SealedArchiveProofs ------------------------
(***************************************************************************)
(* The safety of the sealed archive for any number of segments, re-runs,   *)
(* crashes and faults.  ArchiveInv has two parts: what is locked is held   *)
(* for ever and was locked before it was checked (LockedIsHeld), and every *)
(* manifest that anybody has descends from the one that phase 30 wrote     *)
(* (Lineage).                                                              *)
(***************************************************************************)
EXTENDS SealedArchive, TLAPS

-----------------------------------------------------------------------------
(* Types. *)

LEMMA ObjectFacts ==
  /\ Segment \subseteq Object /\ "manifest" \in Object
  /\ ValueOf("manifest") = Manifest
  /\ \A s \in Segment : ValueOf(s) = Content /\ s # "manifest"
BY SealedArchiveAssumption DEF Object, ValueOf

\* The part of TypeOK that is about the two buckets.
StoresOK ==
  /\ DOMAIN mutable = Object /\ DOMAIN sealed = Object
  /\ \A k \in Object :
       /\ mutable[k] \subseteq ValueOf(k)
       /\ sealed[k] \in [cur : SUBSET ValueOf(k), locked : BOOLEAN, held : SUBSET ValueOf(k)]

\* The part that is about the running script.
JobOK ==
  /\ job \in [pc : Step, manifest : SUBSET Manifest, todo : SUBSET Object]
  /\ job.pc = "backup" => job.todo \subseteq Segment

LEMMA NoJobOK == ASSUME job' = NoJob PROVE JobOK'
BY DEF JobOK, NoJob, Step

LEMMA InitTypeOK == Init => TypeOK
<1>. SUFFICES ASSUME Init PROVE TypeOK
  OBVIOUS
<1>1. JobOK
  BY DEF Init, JobOK, NoJob, Step
<1>2. StoresOK
  <2>1. ASSUME NEW k \in Object
        PROVE  /\ mutable[k] = {}
               /\ sealed[k] = [cur |-> {}, locked |-> FALSE, held |-> {}]
    BY DEF Init
  <2>2. DOMAIN mutable = Object /\ DOMAIN sealed = Object
    BY DEF Init
  <2>3. ASSUME NEW k \in Object
        PROVE  /\ mutable[k] \subseteq ValueOf(k)
               /\ sealed[k] \in [cur : SUBSET ValueOf(k), locked : BOOLEAN, held : SUBSET ValueOf(k)]
    <3>. DEFINE V == ValueOf(k)
    <3>. HIDE DEF V
    <3>1. {} \in SUBSET V /\ FALSE \in BOOLEAN
      OBVIOUS
    <3>2. [cur |-> {}, locked |-> FALSE, held |-> {}] \in [cur : SUBSET V, locked : BOOLEAN, held : SUBSET V]
      BY <3>1
    <3>3. mutable[k] \subseteq V
      BY <2>1
    <3>. QED
      BY <2>1, <3>2, <3>3 DEF V
  <2>. QED
    BY <2>1, <2>2, <2>3 DEF StoresOK
<1>3. summary \in BOOLEAN /\ seal \in BOOLEAN
  BY Zenon DEF Init
<1>4. verify \subseteq [passed : BOOLEAN] /\ anchor \subseteq Manifest
  BY Zenon DEF Init
<1>5. starts \in 0..MaxStarts /\ faults \in 0..MaxFaults
  BY SealedArchiveAssumption DEF Init
<1>. QED
  BY <1>1, <1>2, <1>3, <1>4, <1>5 DEF TypeOK, JobOK, StoresOK

\* A step of the script that goes on at another program counter, or ends.
LEMMA PcType ==
  ASSUME JobOK, NEW pc \in Step \ {"backup"}, job' = NoJob \/ job' = [job EXCEPT !.pc = pc]
  PROVE  JobOK'
BY NoJobOK DEF JobOK

LEMMA StepJobOK == TypeOK /\ [Next]_vars => JobOK'
<1>. SUFFICES ASSUME TypeOK, [Next]_vars
              PROVE  JobOK'
  OBVIOUS
<1>1. JobOK /\ mutable["manifest"] \subseteq Manifest
  BY ObjectFacts DEF TypeOK, JobOK
<1>2. Stored(mutable) \subseteq Object /\ Stored(current) \subseteq Object
  BY DEF Stored
<1>3. CASE UNCHANGED vars \/ Fault
  BY <1>1, <1>3 DEF vars, Fault, JobOK
<1>4. CASE \E ph \in Phase : StartPhase(ph)
  <2>1. PICK ph \in Phase : StartPhase(ph)
    BY <1>4
  <2>2. FirstStep[ph] \in Step \ {"backup"}
    BY DEF FirstStep, Phase, Step
  <2>. QED
    BY <2>1, <2>2 DEF StartPhase, NoJob, JobOK
<1>5. CASE PrefixIsEmpty
  BY <1>1, <1>5, ObjectFacts, NoJobOK DEF PrefixIsEmpty, End, JobOK, Step
<1>6. CASE \E k \in job.todo : job' = [job EXCEPT !.todo = job.todo \ {k}]
  BY <1>1, <1>6 DEF JobOK
<1>7. CASE job' = NoJob
  BY <1>7, NoJobOK
<1>8. CASE \E pc \in Step \ {"backup"} : job' = [job EXCEPT !.pc = pc]
  BY <1>1, <1>8, PcType
<1>9. CASE /\ WriteAnchor
           /\ job' = [job EXCEPT !.pc = "content", !.manifest = mutable["manifest"]]
  BY <1>1, <1>9 DEF JobOK, Step
<1>10. CASE \/ job' = [job EXCEPT !.pc = "copy", !.todo = Stored(mutable)]
            \/ job' = [job EXCEPT !.pc = "lock", !.todo = Stored(current)]
  BY <1>1, <1>2, <1>10 DEF JobOK, Step
<1>11. CASE PhaseStep \/ Crash
  <2>1. CASE WriteSegment \/ CopyObject \/ LockObject
    BY <2>1, <1>6, <1>7 DEF WriteSegment, CopyObject, LockObject, End
  <2>2. CASE WriteManifest \/ Validate \/ LockDone \/ RetentionGate \/ CheckSealed \/ ReadEvidence
    BY <2>2, <1>7, <1>8 DEF WriteManifest, Validate, LockDone, RetentionGate, CheckSealed,
                           ReadEvidence, Gate, End, Step
  <2>3. CASE WriteSummary \/ VerifyContent \/ WriteSeal \/ LeaveGate \/ Crash
    BY <2>3, <1>7 DEF WriteSummary, VerifyContent, WriteSeal, LeaveGate, Crash, End
  <2>4. CASE WriteAnchor
    BY <2>4, <1>7, <1>9 DEF WriteAnchor, End
  <2>5. CASE CountObjects \/ CopyDone
    BY <2>5, <1>7, <1>8, <1>10 DEF CountObjects, CopyDone, End, Step
  <2>. QED
    BY <1>5, <1>11, <2>1, <2>2, <2>3, <2>4, <2>5 DEF PhaseStep
<1>. QED
  BY <1>3, <1>4, <1>11 DEF Next

LEMMA StepStoresOK == TypeOK /\ [Next]_vars => StoresOK'
<1>. SUFFICES ASSUME TypeOK, [Next]_vars
              PROVE  StoresOK'
  OBVIOUS
<1>1. StoresOK
  BY DEF TypeOK, StoresOK
<1>2. CASE UNCHANGED <<mutable, sealed>>
  BY <1>1, <1>2 DEF StoresOK
<1>3. ASSUME NEW k \in Object, NEW v \in SUBSET ValueOf(k), mutable' = [mutable EXCEPT ![k] = v],
             UNCHANGED sealed
      PROVE  StoresOK'
  BY <1>1, <1>3 DEF StoresOK
<1>4. CASE WriteSegment
  <2>1. PICK s \in Segment, c \in {"good", "wrong"} : mutable' = [mutable EXCEPT ![s] = {c}]
    BY <1>4 DEF WriteSegment, TypeOK
  <2>2. s \in Object /\ {c} \in SUBSET ValueOf(s)
    BY ObjectFacts DEF Content
  <2>3. UNCHANGED sealed
    BY <1>4 DEF WriteSegment
  <2>. QED
    BY <1>3, <2>1, <2>2, <2>3
<1>5. CASE WriteManifest
  <2>1. PICK m \in Manifest : mutable' = [mutable EXCEPT !["manifest"] = {m}]
    <3>. DEFINE sums == [s \in Segment |-> CASE mutable[s] = {"good"}  -> "good"
                                            [] mutable[s] = {"wrong"} -> "wrong"
                                            [] OTHER                  -> "none"]
    <3>1. PICK complete \in BOOLEAN :
            mutable' = [mutable EXCEPT !["manifest"] = {[sums |-> sums, complete |-> complete]}]
      BY <1>5, Zenon DEF WriteManifest
    <3>2. sums \in [Segment -> {"good", "wrong", "none"}]
      OBVIOUS
    <3>. HIDE DEF sums
    <3>3. [sums |-> sums, complete |-> complete] \in Manifest
      BY <3>2 DEF Manifest
    <3>. QED
      BY <3>1, <3>3
  <2>2. "manifest" \in Object /\ {m} \in SUBSET ValueOf("manifest")
    BY ObjectFacts
  <2>3. UNCHANGED sealed
    BY <1>5 DEF WriteManifest
  <2>. QED
    BY <1>3, <2>1, <2>2, <2>3
<1>6. CASE CopyObject
  <2>1. PICK k \in job.todo :
          \/ sealed' = [sealed EXCEPT ![k] = [sealed[k] EXCEPT !.cur = mutable[k], !.locked = FALSE]]
          \/ UNCHANGED sealed
    BY <1>6 DEF CopyObject
  <2>2. k \in Object /\ mutable[k] \subseteq ValueOf(k) /\ mutable' = mutable
    BY <1>6 DEF CopyObject, TypeOK
  <2>. QED
    BY <1>1, <2>1, <2>2 DEF StoresOK
<1>7. CASE LockObject
  <2>1. PICK k \in job.todo :
          sealed' = [sealed EXCEPT ![k] =
            [sealed[k] EXCEPT !.locked = TRUE, !.held = sealed[k].held \cup sealed[k].cur]]
    BY <1>7 DEF LockObject
  <2>2. k \in Object /\ mutable' = mutable
    BY <1>7 DEF LockObject, TypeOK
  <2>. QED
    BY <1>1, <2>1, <2>2 DEF StoresOK
<1>8. CASE Fault
  <2>1. PICK k \in Object : \E v \in SUBSET ValueOf(k) : mutable' = [mutable EXCEPT ![k] = v]
    <3>1. ASSUME NEW m \in mutable["manifest"], NEW s \in Segment
          PROVE  {[m EXCEPT !.sums[s] = "none"]} \subseteq ValueOf("manifest")
      <4>1. m \in Manifest
        BY ObjectFacts DEF TypeOK
      <4>. QED
        BY <4>1, ObjectFacts DEF Manifest
    <3>. QED
      BY <1>8, <3>1, ObjectFacts DEF Fault, Content, Stored
  <2>. QED
    BY <1>3, <1>8, <2>1 DEF Fault
<1>. QED
  BY <1>2, <1>4, <1>5, <1>6, <1>7, <1>8
     DEF Next, PhaseStep, vars, StartPhase, Crash, PrefixIsEmpty, WriteSummary, Validate, WriteAnchor,
         VerifyContent, CountObjects, CopyDone, LockDone, RetentionGate, CheckSealed, WriteSeal,
         ReadEvidence, LeaveGate

\* The remaining variables.
LEMMA StepFilesOK ==
  ASSUME TypeOK, [Next]_vars
  PROVE  /\ summary' \in BOOLEAN /\ seal' \in BOOLEAN
         /\ verify' \subseteq [passed : BOOLEAN] /\ anchor' \subseteq Manifest
         /\ starts' \in 0..MaxStarts /\ faults' \in 0..MaxFaults
<1>. USE SealedArchiveAssumption DEF TypeOK, fileVars
<1>1. CASE UNCHANGED <<fileVars, starts, faults>>
  BY <1>1
<1>2. CASE \E ph \in Phase : StartPhase(ph)
  BY <1>2 DEF StartPhase
<1>3. CASE Fault
  BY <1>3 DEF Fault
<1>4. CASE WriteSummary \/ WriteSeal
  BY <1>4 DEF WriteSummary, WriteSeal
<1>5. CASE WriteAnchor
  <2>1. mutable["manifest"] \subseteq Manifest
    BY ObjectFacts
  <2>. QED
    BY <1>5, <2>1 DEF WriteAnchor
<1>6. CASE VerifyContent
  <2>1. PICK b \in BOOLEAN : verify' \in {verify, {[passed |-> b]}}
    BY <1>6 DEF VerifyContent
  <2>. QED
    BY <1>6, <2>1 DEF VerifyContent
<1>. QED
  BY <1>1, <1>2, <1>3, <1>4, <1>5, <1>6
     DEF Next, PhaseStep, vars, Crash, PrefixIsEmpty, WriteSegment, WriteManifest, Validate,
         CountObjects, CopyObject, CopyDone, LockObject, LockDone, RetentionGate, CheckSealed,
         ReadEvidence, LeaveGate

LEMMA StepTypeOK == TypeOK /\ [Next]_vars => TypeOK'
BY StepJobOK, StepStoresOK, StepFilesOK DEF TypeOK, JobOK, StoresOK

\* Type correctness of the buckets, the evidence files and the script.
THEOREM ArchiveTypeCorrect == Spec => []TypeOK
<1>. QED
  BY InitTypeOK, StepTypeOK, PTL DEF Spec

-----------------------------------------------------------------------------
(* Where the script comes from, by what it is about to do. *)

LEMMA StepPc ==
  ASSUME TypeOK, [Next]_vars
  PROVE  /\ job'.pc = "check" => UNCHANGED sealed /\ (job.pc = "check" \/ RetentionGate)
         /\ job'.pc = "write_seal" => job.pc = "write_seal" \/ CheckSealed
         /\ job'.pc = "content" => job' = job \/ WriteAnchor
         /\ job'.pc = "approved" => UNCHANGED fileVars /\ (job.pc = "approved" \/ ReadEvidence)
         /\ job'.pc = "backup" => job.pc = "backup" \/ PrefixIsEmpty
<1>. DEFINE Goal ==
       /\ job'.pc = "check" => UNCHANGED sealed /\ (job.pc = "check" \/ RetentionGate)
       /\ job'.pc = "write_seal" => job.pc = "write_seal" \/ CheckSealed
       /\ job'.pc = "content" => job' = job \/ WriteAnchor
       /\ job'.pc = "approved" => UNCHANGED fileVars /\ (job.pc = "approved" \/ ReadEvidence)
       /\ job'.pc = "backup" => job.pc = "backup" \/ PrefixIsEmpty
<1>1. job = [job EXCEPT !.pc = job.pc] /\ \A pc : [job EXCEPT !.pc = pc].pc = pc
  BY DEF TypeOK
<1>2. NoJob.pc = "idle"
  BY DEF NoJob
<1>3. CASE UNCHANGED vars \/ Fault
  BY <1>3 DEF vars, Fault
<1>4. CASE \E ph \in Phase : StartPhase(ph)
  <2>1. PICK ph \in Phase : job' = [NoJob EXCEPT !.pc = FirstStep[ph]]
    BY <1>4 DEF StartPhase
  <2>2. job'.pc = FirstStep[ph]
    BY <2>1 DEF NoJob
  <2>3. FirstStep[ph] \notin {"check", "write_seal", "content", "approved", "backup"}
    BY DEF FirstStep, Phase
  <2>. QED
    BY <2>2, <2>3
<1>5. CASE job' = NoJob
  BY <1>2, <1>5
<1>6. CASE \E pc \in Step \ {"check", "write_seal", "content", "approved", "backup"} :
             job'.pc = pc
  BY <1>6
<1>7. CASE job' = job /\ UNCHANGED <<sealed, fileVars>>
  BY <1>7
<1>8. CASE job'.pc = job.pc /\ job.pc \in {"backup", "copy", "lock"}
  BY <1>8
<1>9. CASE PrefixIsEmpty \/ WriteAnchor
  BY <1>1, <1>2, <1>9 DEF PrefixIsEmpty, WriteAnchor, End, TypeOK
<1>10. CASE RetentionGate \/ CheckSealed \/ ReadEvidence
  BY <1>1, <1>2, <1>10 DEF RetentionGate, CheckSealed, ReadEvidence, Gate, End, fileVars
<1>11. CASE WriteSegment \/ CopyObject \/ LockObject
  BY <1>5, <1>8, <1>11 DEF WriteSegment, CopyObject, LockObject, End, TypeOK
<1>12. CASE WriteManifest \/ Validate \/ LockDone \/ CountObjects \/ CopyDone
  BY <1>5, <1>6, <1>12
     DEF WriteManifest, Validate, LockDone, CountObjects, CopyDone, End, Step, TypeOK
<1>13. CASE WriteSummary \/ VerifyContent \/ WriteSeal \/ LeaveGate \/ Crash
  BY <1>5, <1>13 DEF WriteSummary, VerifyContent, WriteSeal, LeaveGate, Crash, End
<1>. QED
  BY <1>3, <1>4, <1>9, <1>10, <1>11, <1>12, <1>13 DEF Next, PhaseStep

-----------------------------------------------------------------------------
(* What is locked is held. *)

ArchiveHeld == \E m \in sealed["manifest"].held : LockedArchive(m)

\* A step changes the object lock bucket by one mc cp or one mc retention set.
LEMMA SealedStep ==
  ASSUME TypeOK, [Next]_vars
  PROVE  \/ UNCHANGED sealed
         \/ /\ job.pc = "copy"
            /\ \E k \in Object : sealed' = [sealed EXCEPT ![k] =
                 [sealed[k] EXCEPT !.cur = mutable[k], !.locked = FALSE]]
         \/ /\ job.pc = "lock"
            /\ \E k \in Object : sealed' = [sealed EXCEPT ![k] =
                 [sealed[k] EXCEPT !.locked = TRUE, !.held = sealed[k].held \cup sealed[k].cur]]
<1>1. job.todo \subseteq Object
  BY DEF TypeOK
<1>2. CASE CopyObject
  BY <1>1, <1>2 DEF CopyObject
<1>3. CASE LockObject
  BY <1>1, <1>3 DEF LockObject
<1>. QED
  BY <1>2, <1>3
     DEF Next, PhaseStep, vars, StartPhase, Crash, Fault, PrefixIsEmpty, WriteSegment, WriteManifest,
         WriteSummary, Validate, WriteAnchor, VerifyContent, CountObjects, CopyDone, LockDone,
         RetentionGate, CheckSealed, WriteSeal, ReadEvidence, LeaveGate

\* Held versions are never lost, and what is locked afterwards is held.
LEMMA HeldGrows ==
  ASSUME TypeOK, [Next]_vars,
         \A k \in Object : sealed[k].locked => sealed[k].cur \subseteq sealed[k].held
  PROVE  \A k \in Object :
           /\ sealed[k].held \subseteq sealed'[k].held
           /\ sealed'[k].locked => sealed'[k].cur \subseteq sealed'[k].held
<1>1. CASE UNCHANGED sealed
  BY <1>1
<1>2. CASE \E k \in Object : sealed' = [sealed EXCEPT ![k] =
             [sealed[k] EXCEPT !.cur = mutable[k], !.locked = FALSE]]
  BY <1>2 DEF TypeOK
<1>3. CASE \E k \in Object : sealed' = [sealed EXCEPT ![k] =
             [sealed[k] EXCEPT !.locked = TRUE, !.held = sealed[k].held \cup sealed[k].cur]]
  BY <1>3 DEF TypeOK
<1>. QED
  BY <1>1, <1>2, <1>3, SealedStep

LEMMA ArchiveStaysHeld ==
  ASSUME \A k \in Object : sealed[k].held \subseteq sealed'[k].held, ArchiveHeld
  PROVE  ArchiveHeld'
<1>1. PICK m \in sealed["manifest"].held : LockedArchive(m)
  BY DEF ArchiveHeld
<1>2. m \in sealed'["manifest"].held
  BY <1>1, ObjectFacts
<1>3. \A s \in Segment : m.sums[s] \in sealed'[s].held
  BY <1>1, ObjectFacts DEF LockedArchive
<1>4. m.complete
  BY <1>1 DEF LockedArchive
<1>. QED
  BY <1>2, <1>3, <1>4 DEF ArchiveHeld, LockedArchive

LEMMA InitLockedIsHeld == Init => LockedIsHeld
<1>. SUFFICES ASSUME Init PROVE LockedIsHeld
  OBVIOUS
<1>1. \A k \in Object : ~sealed[k].locked
  BY DEF Init
<1>2. job.pc = "idle" /\ ~seal
  BY DEF Init, NoJob
<1>. QED
  BY <1>1, <1>2 DEF LockedIsHeld

LEMMA StepLockedIsHeld == TypeOK /\ LockedIsHeld /\ [Next]_vars => LockedIsHeld'
<1>. SUFFICES ASSUME TypeOK, LockedIsHeld, [Next]_vars
              PROVE  LockedIsHeld'
  OBVIOUS
<1>1. \A k \in Object : /\ sealed[k].held \subseteq sealed'[k].held
                        /\ sealed'[k].locked => sealed'[k].cur \subseteq sealed'[k].held
  BY HeldGrows DEF LockedIsHeld
<1>2. job'.pc = "check" => \A k \in Stored(current)' : sealed'[k].locked
  <2>. SUFFICES ASSUME job'.pc = "check"
                PROVE  \A k \in Stored(current)' : sealed'[k].locked
    OBVIOUS
  <2>1. sealed' = sealed /\ Stored(current)' = Stored(current)
    BY StepPc DEF Stored, current
  <2>2. CASE job.pc = "check"
    BY <2>1, <2>2 DEF LockedIsHeld
  <2>3. CASE RetentionGate
    <3>1. NoJob.pc # "check"
      BY DEF NoJob
    <3>. QED
      BY <2>1, <2>3, <3>1 DEF RetentionGate, Gate, End
  <2>. QED
    BY <2>2, <2>3, StepPc
<1>3. seal' \/ job'.pc = "write_seal" => ArchiveHeld'
  <2>. SUFFICES ASSUME seal' \/ job'.pc = "write_seal"
                PROVE  ArchiveHeld'
    OBVIOUS
  <2>1. CASE seal \/ job.pc = "write_seal"
    <3>1. ArchiveHeld
      BY <2>1 DEF LockedIsHeld, ArchiveHeld
    <3>. QED
      BY <1>1, <3>1, ArchiveStaysHeld
  <2>2. CASE CheckSealed /\ job'.pc = "write_seal"
    <3>1. NoJob.pc # "write_seal"
      BY DEF NoJob
    <3>2. PICK m \in current["manifest"] : ObjectsMatch(current, m)
      BY <2>2, <3>1 DEF CheckSealed, Gate, End
    <3>3. \A k \in Object : sealed[k].cur # {} => sealed[k].cur \subseteq sealed[k].held
      BY <2>2 DEF CheckSealed, LockedIsHeld, Stored, current
    <3>4. m \in sealed["manifest"].held
      BY <3>2, <3>3, ObjectFacts DEF current
    <3>5. ASSUME NEW s \in Segment PROVE m.sums[s] \in sealed[s].held
      <4>1. sealed[s].cur = {m.sums[s]} /\ s \in Object
        BY <3>2, <3>5, ObjectFacts DEF ObjectsMatch, current
      <4>. QED
        BY <4>1, <3>3
    <3>6. ArchiveHeld
      BY <3>2, <3>4, <3>5 DEF ArchiveHeld, LockedArchive, ObjectsMatch
    <3>. QED
      BY <1>1, <3>6, ArchiveStaysHeld
  <2>3. seal' => seal \/ job.pc = "write_seal"
    BY DEF Next, PhaseStep, vars, fileVars, StartPhase, Crash, Fault, PrefixIsEmpty, WriteSegment,
           WriteManifest, WriteSummary, Validate, WriteAnchor, VerifyContent, CountObjects,
           CopyObject, CopyDone, LockObject, LockDone, RetentionGate, CheckSealed, WriteSeal,
           ReadEvidence, LeaveGate
  <2>. QED
    BY <2>1, <2>2, <2>3, StepPc
<1>. QED
  BY <1>1, <1>2, <1>3 DEF LockedIsHeld, ArchiveHeld

\* Once phase 38 has written seal.json the object lock bucket holds a whole
\* archive that nobody can delete, whatever happens next (38-seal.sh:14-48).
THEOREM SealHoldsForGood == Spec => []SealSurvives
<1>1. LockedIsHeld => SealSurvives
  BY DEF LockedIsHeld, SealSurvives
<1>. QED
  BY <1>1, InitTypeOK, StepTypeOK, InitLockedIsHeld, StepLockedIsHeld, PTL DEF Spec

-----------------------------------------------------------------------------
(* Every manifest descends from the one that phase 30 wrote. *)

LEMMA ManifestFacts ==
  ASSUME TypeOK
  PROVE  /\ "manifest" \in Object /\ Known \subseteq Manifest
         /\ DOMAIN mutable = Object /\ DOMAIN sealed = Object
         /\ mutable["manifest"] \subseteq Known /\ sealed["manifest"].cur \subseteq Known
         /\ sealed["manifest"].held \subseteq Known /\ anchor \subseteq Known
         /\ job.manifest \subseteq Known
  BY ObjectFacts DEF TypeOK, Known

\* Whatever is copied, locked, read or anchored was known before.
LEMMA CopiesKnown ==
  ASSUME TypeOK, [Next]_vars
  PROVE  Known' \subseteq Known \cup mutable'["manifest"]
<1>1. sealed'["manifest"].cur \cup sealed'["manifest"].held \subseteq Known
  <2>1. CASE \E k \in Object : sealed' = [sealed EXCEPT ![k] =
               [sealed[k] EXCEPT !.cur = mutable[k], !.locked = FALSE]]
    BY <2>1, ManifestFacts DEF TypeOK
  <2>2. CASE \E k \in Object : sealed' = [sealed EXCEPT ![k] =
               [sealed[k] EXCEPT !.locked = TRUE, !.held = sealed[k].held \cup sealed[k].cur]]
    BY <2>2, ManifestFacts DEF TypeOK
  <2>3. CASE UNCHANGED sealed
    BY <2>3, ManifestFacts
  <2>. QED
    BY <2>1, <2>2, <2>3, SealedStep
<1>2. anchor' \subseteq Known
  <2>1. anchor' \in {anchor, mutable["manifest"]}
    BY DEF Next, PhaseStep, vars, fileVars, StartPhase, Crash, Fault, PrefixIsEmpty, WriteSegment,
           WriteManifest, WriteSummary, Validate, WriteAnchor, VerifyContent, CountObjects,
           CopyObject, CopyDone, LockObject, LockDone, RetentionGate, CheckSealed, WriteSeal,
           ReadEvidence, LeaveGate
  <2>. QED
    BY <2>1, ManifestFacts
<1>3. job'.manifest \subseteq Known
  <2>1. NoJob.manifest = {} /\ \A ph \in Phase : [NoJob EXCEPT !.pc = FirstStep[ph]].manifest = {}
    BY DEF NoJob
  <2>2. job'.manifest \in {{}, job.manifest, mutable["manifest"]}
    <3>1. CASE UNCHANGED vars \/ Fault
      BY <3>1 DEF vars, Fault
    <3>6. CASE Crash \/ WriteSummary \/ VerifyContent \/ WriteSeal \/ LeaveGate
      <4>1. job' = NoJob
        BY <3>6, Zenon DEF Crash, WriteSummary, VerifyContent, WriteSeal, LeaveGate, End
      <4>. QED
        BY <4>1, <2>1
    <3>5. ASSUME NEW ph \in Phase, StartPhase(ph) PROVE job'.manifest = {}
      BY <2>1, <3>5, Zenon DEF StartPhase
    <3>2. CASE PrefixIsEmpty
      BY <2>1, <3>2 DEF PrefixIsEmpty, End, TypeOK
    <3>3. CASE WriteAnchor
      BY <2>1, <3>3 DEF WriteAnchor, End, TypeOK
    <3>4. CASE CountObjects
      BY <2>1, <3>4 DEF CountObjects, End, TypeOK
    <3>7. CASE CopyDone
      BY <2>1, <3>7 DEF CopyDone, End, TypeOK
    <3>8. CASE WriteSegment
      BY <2>1, <3>8 DEF WriteSegment, End, TypeOK
    <3>9. CASE CopyObject
      BY <2>1, <3>9 DEF CopyObject, End, TypeOK
    <3>10. CASE LockObject
      BY <2>1, <3>10 DEF LockObject, End, TypeOK
    <3>11. CASE WriteManifest
      BY <2>1, <3>11 DEF WriteManifest, End, TypeOK
    <3>12. CASE Validate
      BY <2>1, <3>12 DEF Validate, End, TypeOK
    <3>13. CASE LockDone
      BY <2>1, <3>13 DEF LockDone, End, TypeOK
    <3>14. CASE CheckSealed
      BY <2>1, <3>14 DEF CheckSealed, Gate, End, TypeOK
    <3>15. CASE RetentionGate
      BY <2>1, <3>15 DEF RetentionGate, Gate, End, TypeOK
    <3>16. CASE ReadEvidence
      BY <2>1, <3>16 DEF ReadEvidence, Gate, End, TypeOK
    <3>. QED
      BY <3>1, <3>2, <3>3, <3>4, <3>5, <3>6, <3>7, <3>8, <3>9, <3>10, <3>11, <3>12, <3>13,
         <3>14, <3>15, <3>16 DEF Next, PhaseStep
  <2>. QED
    BY <2>2, ManifestFacts
<1>. QED
  BY <1>1, <1>2, <1>3 DEF Known

\* The manifest in the ordinary bucket is removed, written by phase 30, or
\* damaged in one hash; no step empties the bucket.
LEMMA MutableStep ==
  ASSUME TypeOK, [Next]_vars
  PROVE  /\ Stored(mutable)' = {} => Stored(mutable) = {}
         /\ \/ mutable'["manifest"] \subseteq mutable["manifest"]
            \/ job.pc = "backup" /\ job'.pc # "backup" /\ \E m : mutable'["manifest"] = {m}
            \/ /\ UNCHANGED job
               /\ \E m \in mutable["manifest"], s \in Segment :
                    mutable'["manifest"] = {[m EXCEPT !.sums[s] = "none"]}
<1>. USE ManifestFacts, ObjectFacts
<1>1. CASE UNCHANGED mutable
  BY <1>1 DEF Stored
<1>2. CASE WriteSegment
  <2>1. PICK s \in Segment : \E v : mutable' = [mutable EXCEPT ![s] = {v}]
    BY <1>2 DEF WriteSegment, TypeOK
  <2>2. mutable'["manifest"] = mutable["manifest"] /\ s \in Stored(mutable)'
    BY <2>1 DEF Stored
  <2>. QED
    BY <2>2
<1>3. CASE WriteManifest
  <2>1. PICK m : mutable' = [mutable EXCEPT !["manifest"] = {m}]
    BY <1>3, Zenon DEF WriteManifest
  <2>2. mutable'["manifest"] = {m} /\ "manifest" \in Stored(mutable)'
    BY <2>1 DEF Stored
  <2>3. job.pc = "backup" /\ job'.pc # "backup"
    BY <1>3 DEF WriteManifest, TypeOK
  <2>. QED
    BY <2>2, <2>3
<1>4. CASE Fault
  <2>1. ASSUME NEW k \in Stored(mutable), Stored(mutable) # {k}, mutable' = [mutable EXCEPT ![k] = {}]
        PROVE  Stored(mutable)' # {} /\ mutable'["manifest"] \subseteq mutable["manifest"]
    BY <2>1 DEF Stored
  <2>2. ASSUME NEW s \in Segment, mutable' = [mutable EXCEPT ![s] = {"damaged"}]
        PROVE  Stored(mutable)' # {} /\ mutable'["manifest"] = mutable["manifest"]
    BY <2>2 DEF Stored
  <2>3. ASSUME NEW n, mutable' = [mutable EXCEPT !["manifest"] = {n}]
        PROVE  Stored(mutable)' # {} /\ mutable'["manifest"] = {n}
    BY <2>3 DEF Stored
  <2>. QED
    BY <1>4, <2>1, <2>2, <2>3 DEF Fault
<1>. QED
  BY <1>1, <1>2, <1>3, <1>4
     DEF Next, PhaseStep, vars, StartPhase, Crash, PrefixIsEmpty, WriteSummary, Validate, WriteAnchor,
         VerifyContent, CountObjects, CopyObject, CopyDone, LockObject, LockDone, RetentionGate,
         CheckSealed, WriteSeal, ReadEvidence, LeaveGate

LEMMA InitLineage == Init => Lineage
<1>. SUFFICES ASSUME Init PROVE Lineage
  OBVIOUS
<1>1. job.pc = "idle" /\ job.manifest = {} /\ ~Passed
  BY DEF Init, NoJob, Passed
<1>2. mutable["manifest"] = {} /\ sealed["manifest"].cur = {} /\ sealed["manifest"].held = {}
  BY ObjectFacts DEF Init
<1>3. Known = {}
  BY <1>1, <1>2 DEF Init, Known
<1>. QED
  BY <1>1, <1>3 DEF Lineage

\* What a step may add to the known manifests.
LEMMA KnownStep ==
  ASSUME TypeOK, Lineage, [Next]_vars
  PROVE  \/ Known' \subseteq Known
         \/ /\ Known = {} /\ ~Passed /\ job.pc = "backup" /\ job'.pc # "backup"
            /\ \E m : Known' \subseteq {m}
         \/ /\ UNCHANGED job
            /\ \E m \in Known, s \in Segment : Known' \subseteq Known \cup {[m EXCEPT !.sums[s] = "none"]}
<1>1. CASE mutable'["manifest"] \subseteq mutable["manifest"]
  BY <1>1, CopiesKnown, ManifestFacts
<1>2. CASE job.pc = "backup" /\ job'.pc # "backup" /\ \E m : mutable'["manifest"] = {m}
  BY <1>2, CopiesKnown DEF Lineage
<1>3. CASE /\ UNCHANGED job
           /\ \E m \in mutable["manifest"], s \in Segment :
                mutable'["manifest"] = {[m EXCEPT !.sums[s] = "none"]}
  BY <1>3, CopiesKnown, ManifestFacts
<1>. QED
  BY <1>1, <1>2, <1>3, MutableStep

\* verify.json says passed only if it did or if phase 35 has just read a
\* manifest whose every hash is that of a good object.
LEMMA PassedStep ==
  ASSUME TypeOK, Lineage, [Next]_vars, Passed'
  PROVE  \/ Passed
         \/ /\ UNCHANGED <<mutable, sealed>> /\ job.pc = "content" /\ job'.pc # "backup"
            /\ \E m \in Known : \A s \in Segment : m.sums[s] = "good"
<1>1. CASE verify' = verify
  BY <1>1 DEF Passed
<1>2. CASE VerifyContent /\ verify' # verify
  <2>1. /\ \A m \in job.manifest : ObjectsMatch(mutable, m)
        /\ \A s \in Segment : mutable[s] = {"good"}
    <3>. DEFINE p == /\ \A m \in job.manifest : ObjectsMatch(mutable, m)
                     /\ \A s \in Segment : mutable[s] = {"good"}
    <3>1. verify' = {[passed |-> p]}
      BY <1>2, Zenon DEF VerifyContent
    <3>2. PICK v \in verify' : v.passed
      BY DEF Passed
    <3>. HIDE DEF p
    <3>3. p
      BY <3>1, <3>2
    <3>. QED
      BY <3>3 DEF p
  <2>2. PICK m \in job.manifest : TRUE
    BY <1>2 DEF VerifyContent, Lineage
  <2>3. \A s \in Segment : m.sums[s] = "good"
    BY <2>1, <2>2 DEF ObjectsMatch
  <2>4. NoJob.pc # "backup"
    BY DEF NoJob
  <2>. QED
    BY <1>2, <2>2, <2>3, <2>4, ManifestFacts DEF VerifyContent, End
<1>. QED
  BY <1>1, <1>2
     DEF Next, PhaseStep, vars, fileVars, StartPhase, Crash, Fault, PrefixIsEmpty, WriteSegment,
         WriteManifest, WriteSummary, Validate, WriteAnchor, CountObjects, CopyObject, CopyDone,
         LockObject, LockDone, RetentionGate, CheckSealed, WriteSeal, ReadEvidence, LeaveGate

\* A hash set to "none" agrees with whatever the others did.
LEMMA AgreeStep ==
  ASSUME TypeOK, Lineage, [Next]_vars
  PROVE  \A m, n \in Known' : Agree(m, n)
<1>1. CASE Known' \subseteq Known
  BY <1>1 DEF Lineage
<1>2. CASE \E m : Known' \subseteq {m}
  BY <1>2 DEF Agree
<1>3. ASSUME NEW m \in Known, NEW s \in Segment,
             Known' \subseteq Known \cup {[m EXCEPT !.sums[s] = "none"]}
      PROVE  \A l, n \in Known' : Agree(l, n)
  <2>. DEFINE d == [m EXCEPT !.sums[s] = "none"]
  <2>1. m \in Manifest
    BY ManifestFacts
  <2>2. \A t \in Segment : d.sums[t] = m.sums[t] \/ d.sums[t] = "none"
    BY <2>1 DEF Manifest
  <2>. HIDE DEF d
  <2>3. \A l, n \in Known : Agree(l, n)
    BY DEF Lineage
  <2>4. \A n \in Known : Agree(d, n) /\ Agree(n, d)
    BY <2>2, <2>3 DEF Agree
  <2>5. Agree(d, d)
    BY DEF Agree
  <2>6. Known' \subseteq Known \cup {d}
    BY <1>3 DEF d
  <2>. QED
    BY <2>3, <2>4, <2>5, <2>6
<1>. QED
  BY <1>1, <1>2, <1>3, KnownStep

\* With a passing verify.json every hash anybody has is good, or of nothing.
LEMMA GoodStep ==
  ASSUME TypeOK, Lineage, [Next]_vars, Passed'
  PROVE  \A m \in Known', s \in Segment : m.sums[s] \in {"good", "none"}
<1>1. \A m \in Known, s \in Segment : m.sums[s] \in {"good", "none"}
  <2>1. CASE Passed
    BY <2>1 DEF Lineage
  <2>2. CASE \E m \in Known : \A s \in Segment : m.sums[s] = "good"
    BY <2>2 DEF Lineage, Agree
  <2>. QED
    BY <2>1, <2>2, PassedStep
<1>2. CASE Known' \subseteq Known
  BY <1>1, <1>2
<1>3. ASSUME NEW m \in Known, NEW s \in Segment,
             Known' \subseteq Known \cup {[m EXCEPT !.sums[s] = "none"]}
      PROVE  \A n \in Known', t \in Segment : n.sums[t] \in {"good", "none"}
  <2>. DEFINE d == [m EXCEPT !.sums[s] = "none"]
  <2>1. m \in Manifest
    BY ManifestFacts
  <2>2. \A t \in Segment : d.sums[t] \in {m.sums[t], "none"}
    BY <2>1 DEF Manifest
  <2>3. \A t \in Segment : d.sums[t] \in {"good", "none"}
    BY <1>1, <2>2
  <2>. HIDE DEF d
  <2>4. Known' \subseteq Known \cup {d}
    BY <1>3 DEF d
  <2>. QED
    BY <1>1, <2>3, <2>4
<1>4. Passed \/ job.pc = "content"
  BY PassedStep
<1>. QED
  BY <1>2, <1>3, <1>4, KnownStep

\* While the bucket has never been written nothing is known and nothing passed.
LEMMA EmptyStep ==
  ASSUME TypeOK, Lineage, [Next]_vars,
         Stored(mutable)' = {} \/ job'.pc = "backup"
  PROVE  Known' = {} /\ ~Passed'
<1>1. Stored(mutable) = {} \/ job.pc = "backup"
  <2>1. CASE Stored(mutable)' = {}
    BY <2>1, MutableStep
  <2>2. CASE job'.pc = "backup" /\ PrefixIsEmpty
    <3>1. NoJob.pc # "backup"
      BY DEF NoJob
    <3>. QED
      BY <2>2, <3>1 DEF PrefixIsEmpty, End
  <2>. QED
    BY <2>1, <2>2, StepPc
<1>2. Known = {} /\ ~Passed
  BY <1>1 DEF Lineage
<1>3. ~Passed'
  BY <1>2, PassedStep
<1>4. Known' = {}
  <2>1. CASE job'.pc = "backup"
    BY <1>2, <2>1, KnownStep
  <2>2. CASE Stored(mutable)' = {}
    <3>1. mutable'["manifest"] = {}
      BY <2>2, ManifestFacts, StepTypeOK DEF Stored, TypeOK
    <3>. QED
      BY <1>2, <3>1, CopiesKnown
  <2>. QED
    BY <2>1, <2>2
<1>. QED
  BY <1>3, <1>4

LEMMA StepLineage == TypeOK /\ Lineage /\ [Next]_vars => Lineage'
<1>. SUFFICES ASSUME TypeOK, Lineage, [Next]_vars
              PROVE  Lineage'
  OBVIOUS
<1>1. job'.pc = "content" => job'.manifest # {}
  <2>. SUFFICES ASSUME job'.pc = "content" PROVE job'.manifest # {}
    OBVIOUS
  <2>1. CASE job' = job
    BY <2>1 DEF Lineage
  <2>2. CASE WriteAnchor
    <3>1. NoJob.pc # "content"
      BY DEF NoJob
    <3>. QED
      BY <2>2, <3>1 DEF WriteAnchor, End, TypeOK
  <2>. QED
    BY <2>1, <2>2, StepPc
<1>2. job'.pc = "approved" => seal' /\ Passed'
  <2>. SUFFICES ASSUME job'.pc = "approved" PROVE seal' /\ Passed'
    OBVIOUS
  <2>1. seal' = seal /\ Passed' = Passed
    BY StepPc DEF fileVars, Passed
  <2>2. CASE job.pc = "approved"
    BY <2>1, <2>2 DEF Lineage
  <2>3. CASE ReadEvidence
    <3>1. NoJob.pc # "approved"
      BY DEF NoJob
    <3>. QED
      BY <2>1, <2>3, <3>1 DEF ReadEvidence, Gate, End, Passed
  <2>. QED
    BY <2>2, <2>3, StepPc
<1>. QED
  BY <1>1, <1>2, AgreeStep, GoodStep, EmptyStep DEF Lineage

-----------------------------------------------------------------------------
\* The invariant of the archive: what is locked was checked and is held, and
\* all manifests descend from the one of phase 30.
THEOREM ArchiveInvariant == Spec => []ArchiveInv
<1>1. Init => TypeOK /\ ArchiveInv
  BY InitTypeOK, InitLockedIsHeld, InitLineage DEF ArchiveInv
<1>2. TypeOK /\ ArchiveInv /\ [Next]_vars => (TypeOK /\ ArchiveInv)'
  BY StepTypeOK, StepLockedIsHeld, StepLineage DEF ArchiveInv
<1>. QED
  BY <1>1, <1>2, PTL DEF Spec

\* When the evidence gates of phase 40 pass, what is locked holds every record
\* of the baseline, whichever runs the files come from (prune.py:93-104).
THEOREM ApprovedCanBeRestored == Spec => []ApprovedIsRestorable
<1>1. TypeOK /\ ArchiveInv => ApprovedIsRestorable
  <2>. SUFFICES ASSUME TypeOK, ArchiveInv, job.pc = "approved"
                PROVE  \E m \in sealed["manifest"].held :
                         LockedArchive(m) /\ \A s \in Segment : m.sums[s] = "good"
    BY DEF ApprovedIsRestorable
  <2>1. seal /\ Passed
    BY DEF ArchiveInv, Lineage
  <2>2. PICK m \in sealed["manifest"].held : LockedArchive(m)
    BY <2>1 DEF ArchiveInv, LockedIsHeld
  <2>3. \A s \in Segment : m.sums[s] \in {"good", "none"}
    BY <2>1, <2>2, ManifestFacts DEF ArchiveInv, Lineage
  <2>4. ASSUME NEW s \in Segment PROVE m.sums[s] # "none"
    <3>1. m.sums[s] \in sealed[s].held
      BY <2>2 DEF LockedArchive
    <3>2. sealed[s].held \subseteq Content
      BY ObjectFacts DEF TypeOK
    <3>. QED
      BY <3>1, <3>2 DEF Content
  <2>. QED
    BY <2>2, <2>3, <2>4
<1>. QED
  BY <1>1, ArchiveTypeCorrect, ArchiveInvariant, PTL
=============================================================================
