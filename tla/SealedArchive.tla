--------------------------- MODULE SealedArchive ---------------------------
(***************************************************************************)
(* Phases 30 (backup), 35 (verify-backup) and 38 (seal), and the part of   *)
(* phase 40 that reads what they left: two buckets, the evidence files and *)
(* one phase script at a time.  An operator may run any phase at any time  *)
(* and in any order, a script may be killed between two steps, and objects *)
(* of the ordinary bucket may be lost or damaged between two steps.        *)
(*                                                                         *)
(* A segment object is told apart by its content: "good" equals the source *)
(* baseline, "wrong" decodes but does not, "damaged" does not decode.  The *)
(* manifest records the hash of each segment, which stands for the content *)
(* that was hashed, and whether it is complete (contiguous from log start  *)
(* to high watermark, no gaps, topic config captured).  The offsets        *)
(* database and the group snapshot, which the manifest does not list, are  *)
(* left out; so are the verdicts in timings.tsv.                           *)
(***************************************************************************)
EXTENDS Naturals, FiniteSets

CONSTANTS
  Segment,        \* the segment objects of the backup
  MaxStarts,      \* bound: phases started
  MaxFaults       \* bound: objects lost or damaged

ASSUME SealedArchiveAssumption ==
  /\ Segment # {}
  /\ "manifest" \notin Segment
  /\ MaxStarts \in Nat /\ MaxFaults \in Nat

Content == {"good", "wrong", "damaged"}

\* "none" is a hash that no stored object has.
Manifest == [sums : [Segment -> {"good", "wrong", "none"}], complete : BOOLEAN]

Object == Segment \cup {"manifest"}
ValueOf(k) == IF k = "manifest" THEN Manifest ELSE Content

VARIABLES
  mutable,    \* the ordinary bucket: object -> the set of its content, {} if none
  sealed,     \* the object lock bucket: current version and locked versions
  summary,    \* backup/summary-<topic>.json exists
  verify,     \* backup/verify-<topic>.json
  anchor,     \* backup/manifest-anchor-<topic>.json
  seal,       \* seal/seal.json exists; it always says passed
  job,        \* the running script
  starts, faults

fileVars == <<summary, verify, anchor, seal>>
vars == <<mutable, sealed, fileVars, job, starts, faults>>

Phase == {"30", "35", "38", "40"}
Step == {"idle", "prefix", "backup", "summary", "validate", "anchor", "content", "count",
         "copy", "lock", "retention", "check", "write_seal", "evidence", "approved"}

\* job.manifest is the manifest as the running step read it, todo the objects
\* that mc still has to copy or to put under retention.
NoJob == [pc |-> "idle", manifest |-> {}, todo |-> {}]

Stored(bucket) == {k \in Object : bucket[k] # {}}
current == [k \in Object |-> sealed[k].cur]

Init ==
  /\ mutable = [k \in Object |-> {}]
  /\ sealed = [k \in Object |-> [cur |-> {}, locked |-> FALSE, held |-> {}]]
  /\ summary = FALSE /\ verify = {} /\ anchor = {} /\ seal = FALSE
  /\ job = NoJob /\ starts = 0 /\ faults = 0

End == job' = NoJob

\* Go on at pc if the gate passed, else the script ends.
Gate(passed, pc) ==
  \/ passed /\ job' = [job EXCEPT !.pc = pc]
  \/ ~passed /\ End

FirstStep == [ph \in Phase |-> CASE ph = "30" -> "prefix" [] ph = "35" -> "validate"
                                 [] ph = "38" -> "count"  [] ph = "40" -> "evidence"]

StartPhase(ph) ==
  /\ job.pc = "idle"
  /\ starts < MaxStarts
  /\ starts' = starts + 1
  /\ job' = [NoJob EXCEPT !.pc = FirstStep[ph]]
  /\ UNCHANGED <<mutable, sealed, fileVars, faults>>

-----------------------------------------------------------------------------
(* Phase 30.  kafka-backup writes the objects; nothing is trusted of it.    *)

M_PrefixIsEmpty ==   \* mutant: the manifest is written like a segment
  /\ job.pc = "prefix"
  /\ IF Stored(mutable) = {}
     THEN job' = [job EXCEPT !.pc = "backup", !.todo = Object]
     ELSE End
  /\ UNCHANGED <<mutable, sealed, fileVars, starts, faults>>

PrefixIsEmpty ==
  /\ job.pc = "prefix"
  /\ IF Stored(mutable) = {}
     THEN job' = [job EXCEPT !.pc = "backup", !.todo = Segment]
     ELSE End
  /\ UNCHANGED <<mutable, sealed, fileVars, starts, faults>>

WriteSegment ==
  /\ job.pc = "backup"
  /\ \E s \in job.todo, c \in {"good", "wrong"} :
       /\ mutable' = [mutable EXCEPT ![s] = {c}]
       /\ job' = [job EXCEPT !.todo = @ \ {s}]
  /\ UNCHANGED <<sealed, fileVars, starts, faults>>

\* The manifest of an unfinished run lists too little: as good as none.
WriteManifest ==
  /\ job.pc = "backup" /\ job.todo = {}
  /\ \E complete \in BOOLEAN :
       mutable' = [mutable EXCEPT !["manifest"] =
         {[sums |-> [s \in Segment |-> CASE mutable[s] = {"good"}  -> "good"
                                        [] mutable[s] = {"wrong"} -> "wrong"
                                        [] OTHER                  -> "none"],
           complete |-> complete]}]
  /\ job' = [job EXCEPT !.pc = "summary"]
  /\ UNCHANGED <<sealed, fileVars, starts, faults>>

\* manifest-summary reads the manifest back and fails if it is gone.
WriteSummary ==
  /\ job.pc = "summary"
  /\ summary' = (summary \/ mutable["manifest"] # {})
  /\ End
  /\ UNCHANGED <<mutable, sealed, verify, anchor, seal, starts, faults>>

-----------------------------------------------------------------------------
(* Phase 35. *)

\* kafka-backup validate --deep: necessary, not sufficient.  It may or may not
\* notice a damaged object.
Validate ==
  /\ job.pc = "validate"
  /\ LET whole == Stored(mutable) = Object /\ \A m \in mutable["manifest"] : m.complete
     IN  \/ whole /\ job' = [job EXCEPT !.pc = "anchor"]
         \/ (~whole \/ \E s \in Segment : mutable[s] = {"damaged"}) /\ End
  /\ UNCHANGED <<mutable, sealed, fileVars, starts, faults>>

\* The anchor is written as soon as the manifest is read, before any gate.
WriteAnchor ==
  /\ job.pc = "anchor"
  /\ \/ /\ summary /\ mutable["manifest"] # {}
        /\ anchor' = mutable["manifest"]
        /\ job' = [job EXCEPT !.pc = "content", !.manifest = mutable["manifest"]]
     \/ (~summary \/ mutable["manifest"] = {}) /\ End /\ UNCHANGED anchor
  /\ UNCHANGED <<mutable, sealed, summary, verify, seal, starts, faults>>

\* Coverage, no gaps, hash of every object in the bucket against manifest m.
ObjectsMatch(bucket, m) ==
  /\ m.complete
  /\ \A s \in Segment : bucket[s] = {m.sums[s]}

M_VerifyContent ==   \* mutant: phase 35 runs with --sha-only
  /\ job.pc = "content"
  /\ verify' = IF Segment \subseteq Stored(mutable)
               THEN {[passed |-> \A m \in job.manifest : ObjectsMatch(mutable, m)]}
               ELSE verify
  /\ End
  /\ UNCHANGED <<mutable, sealed, summary, anchor, seal, starts, faults>>

\* Every object read once: hashed, decoded, compared with the baseline.  A
\* missing object raises and leaves the earlier verify.json in place.
VerifyContent ==
  /\ job.pc = "content"
  /\ verify' = IF Segment \subseteq Stored(mutable)
               THEN {[passed |-> /\ \A m \in job.manifest : ObjectsMatch(mutable, m)
                                 /\ \A s \in Segment : mutable[s] = {"good"}]}
               ELSE verify
  /\ End
  /\ UNCHANGED <<mutable, sealed, summary, anchor, seal, starts, faults>>

-----------------------------------------------------------------------------
(* Phase 38. *)

\* Copy unless the object lock bucket already holds as many objects.
CountObjects ==
  /\ job.pc = "count"
  /\ LET src == Stored(mutable)
         dst == Stored(current)
     IN  \/ /\ dst # {} /\ Cardinality(dst) = Cardinality(src)
            /\ job' = [job EXCEPT !.pc = "retention"]
         \/ /\ ~(dst # {} /\ Cardinality(dst) = Cardinality(src))
            /\ IF src = {} THEN End ELSE job' = [job EXCEPT !.pc = "copy", !.todo = src]
  /\ UNCHANGED <<mutable, sealed, fileVars, starts, faults>>

\* mc cp: a new, unlocked version of one object; a source that has gone fails.
CopyObject ==
  /\ job.pc = "copy"
  /\ \E k \in job.todo :
       \/ /\ mutable[k] # {}
          /\ sealed' = [sealed EXCEPT ![k] = [sealed[k] EXCEPT !.cur = mutable[k], !.locked = FALSE]]
          /\ job' = [job EXCEPT !.todo = @ \ {k}]
       \/ mutable[k] = {} /\ End /\ UNCHANGED sealed
  /\ UNCHANGED <<mutable, fileVars, starts, faults>>

CopyDone ==
  /\ job.pc = "copy" /\ job.todo = {}
  /\ job' = [job EXCEPT !.pc = "lock", !.todo = Stored(current)]
  /\ UNCHANGED <<mutable, sealed, fileVars, starts, faults>>

\* mc retention set: the current version of one object; a locked version stays
\* for ever (within the retention period, and without governance bypass).
LockObject ==
  /\ job.pc = "lock"
  /\ \E k \in job.todo :
       /\ sealed' = [sealed EXCEPT ![k] =
            [sealed[k] EXCEPT !.locked = TRUE, !.held = sealed[k].held \cup sealed[k].cur]]
       /\ job' = [job EXCEPT !.todo = @ \ {k}]
  /\ UNCHANGED <<mutable, fileVars, starts, faults>>

LockDone ==
  /\ job.pc = "lock" /\ job.todo = {}
  /\ job' = [job EXCEPT !.pc = "retention"]
  /\ UNCHANGED <<mutable, sealed, fileVars, starts, faults>>

M_RetentionGate ==   \* mutant: seal.every_object_under_retention is dropped
  /\ job.pc = "retention"
  /\ Gate(\E s \in Segment : sealed[s].cur # {}, "check")
  /\ UNCHANGED <<mutable, sealed, fileVars, starts, faults>>

\* Every object under retention; a segment to try the delete on, which a
\* locked version refuses.
RetentionGate ==
  /\ job.pc = "retention"
  /\ Gate(/\ \A k \in Stored(current) : sealed[k].locked
          /\ \E s \in Segment : sealed[s].cur # {}, "check")
  /\ UNCHANGED <<mutable, sealed, fileVars, starts, faults>>

\* verify-backup --bucket sealed --anchor check --sha-only.
CheckSealed ==
  /\ job.pc = "check"
  /\ Gate(\E m \in current["manifest"] : m \in anchor /\ ObjectsMatch(current, m), "write_seal")
  /\ UNCHANGED <<mutable, sealed, fileVars, starts, faults>>

WriteSeal ==
  /\ job.pc = "write_seal"
  /\ seal' = TRUE
  /\ End
  /\ UNCHANGED <<mutable, sealed, summary, verify, anchor, starts, faults>>

-----------------------------------------------------------------------------
(* Phase 40, prune.py:93-104. *)

ReadEvidence ==
  /\ job.pc = "evidence"
  /\ Gate(/\ \E v \in verify : v.passed
          /\ \E m \in anchor : mutable["manifest"] = {m} /\ current["manifest"] = {m}
          /\ seal, "approved")
  /\ UNCHANGED <<mutable, sealed, fileVars, starts, faults>>

\* From here on PruneGate tells what phase 40 does.
LeaveGate ==
  /\ job.pc = "approved"
  /\ End
  /\ UNCHANGED <<mutable, sealed, fileVars, starts, faults>>

-----------------------------------------------------------------------------
Crash ==
  /\ job.pc # "idle"
  /\ End
  /\ UNCHANGED <<mutable, sealed, fileVars, starts, faults>>

\* A stored object of the ordinary bucket is lost or damaged.  The bucket is
\* not wiped: that is `make clean`, which ends the run with all its evidence.
Fault ==
  /\ faults < MaxFaults
  /\ faults' = faults + 1
  /\ \/ \E k \in Stored(mutable) :
          Stored(mutable) # {k} /\ mutable' = [mutable EXCEPT ![k] = {}]
     \/ \E s \in Segment \cap Stored(mutable) :
          mutable[s] # {"damaged"} /\ mutable' = [mutable EXCEPT ![s] = {"damaged"}]
     \/ \E m \in mutable["manifest"], s \in Segment :
          /\ m.sums[s] # "none"
          /\ mutable' = [mutable EXCEPT !["manifest"] = {[m EXCEPT !.sums[s] = "none"]}]
  /\ UNCHANGED <<sealed, fileVars, job, starts>>

PhaseStep ==
  \/ PrefixIsEmpty \/ WriteSegment \/ WriteManifest \/ WriteSummary
  \/ Validate \/ WriteAnchor \/ VerifyContent
  \/ CountObjects \/ CopyObject \/ CopyDone \/ LockObject \/ LockDone
  \/ RetentionGate \/ CheckSealed \/ WriteSeal
  \/ ReadEvidence \/ LeaveGate

Next ==
  \/ \E ph \in Phase : StartPhase(ph)
  \/ PhaseStep
  \/ Crash
  \/ Fault

Spec == Init /\ [][Next]_vars

-----------------------------------------------------------------------------
(* Properties. *)

TypeOK ==
  /\ DOMAIN mutable = Object /\ DOMAIN sealed = Object
  /\ \A k \in Object :
       /\ mutable[k] \subseteq ValueOf(k)
       /\ sealed[k] \in [cur : SUBSET ValueOf(k), locked : BOOLEAN, held : SUBSET ValueOf(k)]
  /\ summary \in BOOLEAN /\ seal \in BOOLEAN
  /\ verify \subseteq [passed : BOOLEAN] /\ anchor \subseteq Manifest
  /\ job \in [pc : Step, manifest : SUBSET Manifest, todo : SUBSET Object]
  /\ job.pc = "backup" => job.todo \subseteq Segment
  /\ starts \in 0..MaxStarts /\ faults \in 0..MaxFaults

\* Locked versions that make up a whole archive under manifest m.
LockedArchive(m) ==
  /\ m \in sealed["manifest"].held
  /\ m.complete
  /\ \A s \in Segment : m.sums[s] \in sealed[s].held

\* Once phase 38 has written seal.json the object lock bucket holds, locked, a
\* complete archive, whatever is re-run, killed, lost or damaged afterwards
\* (38-seal.sh:14-48).
SealSurvives == seal => \E m \in sealed["manifest"].held : LockedArchive(m)

\* When the evidence gates of phase 40 pass, locked versions in the object lock
\* bucket hold every record of the baseline, although seal.json, verify.json
\* and the anchor may be from different runs (prune.py:93-104).
ApprovedIsRestorable ==
  job.pc = "approved" =>
    \E m \in sealed["manifest"].held :
      LockedArchive(m) /\ \A s \in Segment : m.sums[s] = "good"

\* README.md:139, "Backup and seal intact": what phases 60 and 70 would read
\* from the object lock bucket matches its manifest when phase 40 approves.
ApprovedSealIsIntact ==
  job.pc = "approved" => \A m \in current["manifest"] : ObjectsMatch(current, m)
-----------------------------------------------------------------------------
(* What makes the first two inductive. *)

LockedIsHeld ==
  /\ \A k \in Object : sealed[k].locked => sealed[k].cur \subseteq sealed[k].held
  /\ job.pc = "check" => \A k \in Stored(current) : sealed[k].locked
  /\ seal \/ job.pc = "write_seal" => \E m \in sealed["manifest"].held : LockedArchive(m)

\* Every manifest anybody has: all descend from the one that phase 30 wrote.
Known == mutable["manifest"] \cup sealed["manifest"].cur \cup sealed["manifest"].held
           \cup anchor \cup job.manifest

Agree(m, n) == \A s \in Segment : m.sums[s] = n.sums[s] \/ "none" \in {m.sums[s], n.sums[s]}

Passed == \E v \in verify : v.passed

Lineage ==
  /\ Stored(mutable) = {} \/ job.pc = "backup" => Known = {} /\ ~Passed
  /\ \A m, n \in Known : Agree(m, n)
  /\ job.pc = "content" => job.manifest # {}
  /\ Passed => \A m \in Known, s \in Segment : m.sums[s] \in {"good", "none"}
  /\ job.pc = "approved" => seal /\ Passed

ArchiveInv == LockedIsHeld /\ Lineage
=============================================================================
