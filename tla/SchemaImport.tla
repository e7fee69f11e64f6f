---------------------------- MODULE SchemaImport ----------------------------
(***************************************************************************)
(* Schema Registry export and import by ID: verifier schema-export,        *)
(* schema-import, schema-check and schema-naive-register (schemas.py),     *)
(* which phases 25, 45, 60, 65, 70 and 95 run.                             *)
(*                                                                         *)
(* A registry is a set of entries: a subject's version, the ID it carries  *)
(* and the schema behind that ID.  On the source the schema of ID i is     *)
(* written i; unrelated schemas and their subjects are negative numbers.   *)
(* The registries are external; a request to one may be refused, and its   *)
(* reply may be lost after it was carried out.  A refused GET does not     *)
(* raise (schemas.py:22-24): its caller takes any status but 200 for an ID *)
(* that is not there.  One that gets no answer raises, which is Kill here. *)
(***************************************************************************)
EXTENDS Integers, FiniteSets, FiniteSetsExt

CONSTANTS
  Ids,            \* the schema IDs the baseline found in the data
  Subjects,       \* subjects of the source registry
  MaxStarts,      \* bound: commands started
  MaxFaults       \* bound: refused requests, lost replies and kills

ASSUME SchemaAssumption ==
  /\ Ids \subseteq Nat \ {0} /\ IsFiniteSet(Ids) /\ Ids # {}
  /\ Subjects \subseteq Nat /\ IsFiniteSet(Subjects)
  /\ MaxStarts \in Nat /\ MaxFaults \in Nat

VARIABLES
  source, target, \* the two registries
  mode,           \* the mode of the target registry
  export,         \* schemas-export.json: a set of entries, {} before phase 25
  unseen,         \* exported IDs not looked up yet, or the requests left
  todo,           \* entries to import
  imported_by_id, \* the last result of that gate, {} before it was printed
  checked,        \* schema-check: IDs and result, {} before it was run
  used,           \* commands that were started against the target registry
  interrupted,    \* a kill or a failed change of mode has left it in IMPORT
  pc, starts, faults

registries == <<source, target, mode>>
evidence   == <<export, imported_by_id, checked>>
bounds     == <<used, interrupted, starts, faults>>
vars == <<registries, evidence, bounds, unseen, todo, pc>>

Entry(s, v, i, c) == [subject |-> s, version |-> v, id |-> i, schema |-> c]

\* A request that is refused, a reply that is lost, a kill.
Fault == faults < MaxFaults /\ faults' = faults + 1

\* GET /schemas/ids/i: the schemas behind an ID, none (404) or one.
schemas_ids(registry, i) == {e.schema : e \in {f \in registry : f.id = i}}

versions_of(registry, s) == {e.version : e \in {f \in registry : f.subject = s}}
NextVersion(registry, s) == IF versions_of(registry, s) = {} THEN 1 ELSE Max(versions_of(registry, s)) + 1
NextId(registry) == IF registry = {} THEN 1 ELSE Max({e.id : e \in registry}) + 1

\* POST /subjects/s/versions in READWRITE mode: a schema keeps the ID it has.
Registered(registry, s, c) ==
  IF \E e \in registry : e.subject = s /\ e.schema = c THEN registry
  ELSE LET known == {e.id : e \in {f \in registry : f.schema = c}}
           id    == IF known = {} THEN NextId(registry) ELSE Max(known)
       IN  registry \cup {Entry(s, NextVersion(registry, s), id, c)}

\* The source has every ID under at least one subject; the target is new, or a
\* scratch registry that some other schema is left in.
Init ==
  /\ \E home \in [Ids -> Subjects] :
       source = {Entry(home[i], Cardinality({j \in Ids : j <= i /\ home[j] = home[i]}), i, i) : i \in Ids}
  /\ \E i \in 0..Max(Ids) : target = IF i = 0 THEN {} ELSE {Entry(-Max(Ids) - 1, 1, i, -Max(Ids) - 1)}
  /\ mode = "READWRITE"
  /\ export = {} /\ unseen = {} /\ todo = {}
  /\ imported_by_id = {} /\ checked = {}
  /\ used = {} /\ interrupted = FALSE
  /\ pc = "idle" /\ starts = 0 /\ faults = 0

-----------------------------------------------------------------------------
\* A producer registers a schema the data uses under another subject.
RegisterAtSource ==
  /\ \E s \in Subjects, i \in Ids : source' = Registered(source, s, i) /\ source' # source
  /\ UNCHANGED <<target, mode, evidence, bounds, unseen, todo, pc>>

M_Export ==   \* mutant: the versions are not exported
  /\ pc = "idle" /\ export = {}
  /\ export' = {[e EXCEPT !.version = 1] : e \in {f \in source : f.id \in Ids}}
  /\ UNCHANGED <<registries, imported_by_id, checked, bounds, unseen, todo, pc>>

\* schema-export.
Export ==
  /\ pc = "idle" /\ export = {}
  /\ export' = {e \in source : e.id \in Ids}
  /\ UNCHANGED <<registries, imported_by_id, checked, bounds, unseen, todo, pc>>

Start(cmd, next) ==
  /\ pc = "idle" /\ starts < MaxStarts /\ export # {}
  /\ starts' = starts + 1 /\ used' = used \cup {cmd}
  /\ pc' = next

-----------------------------------------------------------------------------
(* schema-import. *)

StartImport ==
  /\ Start("import", "look")
  /\ unseen' = {e.id : e \in export} /\ todo' = {}
  /\ UNCHANGED <<registries, evidence, interrupted, faults>>

M_LookUp ==   \* mutant: an ID that exists is skipped whatever it means
  /\ pc = "look"
  /\ \E i \in unseen :
       /\ unseen' = unseen \ {i}
       /\ \/ schemas_ids(target, i) = {} /\ todo' = todo \cup {e \in export : e.id = i} /\ UNCHANGED faults
          \/ schemas_ids(target, i) # {} /\ UNCHANGED <<todo, faults>>
          \/ Fault /\ todo' = todo \cup {e \in export : e.id = i}
  /\ UNCHANGED <<registries, evidence, used, interrupted, starts, pc>>

\* IDs that exist are skipped with all their subjects; one that means something
\* else ends the import.  After a refused GET the ID counts as missing, whatever
\* it means: its entries are left to the registry's answer to their POST.
LookUp ==
  /\ pc = "look"
  /\ \E i \in unseen :
       /\ unseen' = unseen \ {i}
       /\ \/ schemas_ids(target, i) = {} /\ todo' = todo \cup {e \in export : e.id = i} /\ UNCHANGED <<pc, faults>>
          \/ schemas_ids(target, i) = {i} /\ UNCHANGED <<todo, pc, faults>>
          \/ schemas_ids(target, i) \notin {{}, {i}} /\ pc' = "idle" /\ UNCHANGED <<todo, faults>>
          \/ Fault /\ todo' = todo \cup {e \in export : e.id = i} /\ UNCHANGED pc
  /\ UNCHANGED <<registries, evidence, used, interrupted, starts>>

LookedUp ==
  /\ pc = "look" /\ unseen = {}
  /\ pc' = IF todo = {} THEN "gate" ELSE "put"
  /\ UNCHANGED <<registries, evidence, bounds, unseen, todo>>

\* PUT /mode, before the try block: if it raises, nothing resets the mode.
PutImport ==
  /\ pc = "put"
  /\ \/ mode' = "IMPORT" /\ pc' = "post" /\ UNCHANGED <<interrupted, faults>>
     \/ Fault /\ mode' = mode /\ pc' = "idle" /\ UNCHANGED interrupted
     \/ Fault /\ mode' = "IMPORT" /\ pc' = "idle" /\ interrupted' = TRUE
  /\ UNCHANGED <<source, target, evidence, used, starts, unseen, todo>>

\* POST in IMPORT mode puts the entry as it is, or is refused because the
\* subject's version or the ID already has another schema.
Puts(e) == \A f \in target :
             /\ f.subject = e.subject /\ f.version = e.version => f = e
             /\ f.id = e.id => f.schema = e.schema

Before(e, f) == e.subject < f.subject \/ (e.subject = f.subject /\ e.version < f.version)

M_Post ==   \* mutant: the mode is reset only after a complete import
  /\ pc = "post"
  /\ \E e \in todo :
       /\ \A f \in todo \ {e} : Before(e, f)
       /\ todo' = todo \ {e}
       /\ \/ Puts(e) /\ target' = target \cup {e} /\ pc' = (IF todo' = {} THEN "reset" ELSE "post") /\ UNCHANGED faults
          \/ ~Puts(e) /\ pc' = "idle" /\ UNCHANGED <<target, faults>>
          \/ Fault /\ Puts(e) /\ target' \in {target, target \cup {e}} /\ pc' = "idle"
  /\ UNCHANGED <<source, mode, evidence, used, interrupted, starts, unseen>>

\* In order of subject and version.  A refused request and a lost reply both
\* raise, and the finally block resets the mode either way.
Post ==
  /\ pc = "post"
  /\ \E e \in todo :
       /\ \A f \in todo \ {e} : Before(e, f)
       /\ todo' = todo \ {e}
       /\ \/ Puts(e) /\ target' = target \cup {e} /\ pc' = (IF todo' = {} THEN "reset" ELSE "post") /\ UNCHANGED faults
          \/ ~Puts(e) /\ pc' = "reset-failed" /\ UNCHANGED <<target, faults>>
          \/ Fault /\ Puts(e) /\ target' \in {target, target \cup {e}} /\ pc' = "reset-failed"
  /\ UNCHANGED <<source, mode, evidence, used, interrupted, starts, unseen>>

\* PUT /mode in the finally block.
PutReadWrite ==
  /\ pc \in {"reset", "reset-failed"}
  /\ \/ mode' = "READWRITE" /\ pc' = (IF pc = "reset" THEN "gate" ELSE "idle") /\ UNCHANGED <<interrupted, faults>>
     \/ Fault /\ mode' = "READWRITE" /\ pc' = "idle" /\ UNCHANGED interrupted
     \/ Fault /\ mode' = mode /\ pc' = "idle" /\ interrupted' = TRUE
  /\ UNCHANGED <<source, target, evidence, used, starts, unseen, todo>>

M_check_ids(ids) ==   \* mutant: both registries know the ID
  \A i \in ids : schemas_ids(source, i) # {} /\ schemas_ids(target, i) # {}

\* Both registries know the ID and mean the same schema.  If one of the GETs is
\* refused, the ID is not identical and the gate over it fails.
check_ids(ids) == \A i \in ids : schemas_ids(source, i) # {} /\ schemas_ids(source, i) = schemas_ids(target, i)

ImportGate ==
  /\ pc = "gate"
  /\ \/ imported_by_id' = {check_ids(Ids)} /\ UNCHANGED faults
     \/ Fault /\ imported_by_id' = {FALSE}
  /\ pc' = "idle"
  /\ UNCHANGED <<registries, export, checked, used, interrupted, starts, unseen, todo>>

-----------------------------------------------------------------------------
(* schema-check, on the IDs found in the restored data, and                 *)
(* schema-naive-register.                                                   *)

SchemaCheck ==
  /\ Start("check", "idle")
  /\ \E ids \in (SUBSET Ids) \ {{}} :
       \/ checked' = {[ids |-> ids, ok |-> check_ids(ids)]} /\ UNCHANGED faults
       \/ Fault /\ checked' = {[ids |-> ids, ok |-> FALSE]}
  /\ UNCHANGED <<registries, export, imported_by_id, interrupted, unseen, todo>>

M_unrelated == 1..(Min(Ids) - 1)   \* mutant: only the IDs below those of the data

\* As many unrelated schemas as the largest ID, so that every ID is taken.
unrelated == 1..Max(Ids)

StartNaive ==
  /\ Start("naive", "unrelated")
  /\ unseen' = unrelated /\ todo' = export
  /\ UNCHANGED <<registries, evidence, interrupted, faults>>

\* In IMPORT mode the registry refuses a schema without an ID.
RegisterUnrelated ==
  /\ pc = "unrelated"
  /\ \E k \in unseen :
       /\ \A l \in unseen : k <= l
       /\ \/ /\ mode = "READWRITE"
             /\ target' = Registered(target, -k, -k)
             /\ unseen' = unseen \ {k} /\ UNCHANGED pc
          \/ mode = "IMPORT" /\ pc' = "idle" /\ UNCHANGED <<target, unseen>>
  /\ UNCHANGED <<source, mode, evidence, bounds, todo>>

RegisterNaively ==
  /\ pc = "unrelated" /\ unseen = {}
  /\ \E e \in todo :
       /\ \A f \in todo \ {e} : e.id < f.id \/ (e.id = f.id /\ Before(e, f))
       /\ target' = Registered(target, e.subject, e.schema)
       /\ todo' = todo \ {e}
       /\ pc' = IF todo' = {} THEN "idle" ELSE pc
  /\ used' = IF todo' = {} THEN used \cup {"registered naively"} ELSE used
  /\ UNCHANGED <<source, mode, evidence, interrupted, starts, faults, unseen>>

-----------------------------------------------------------------------------
Kill ==
  /\ pc # "idle" /\ Fault
  /\ pc' = "idle" /\ interrupted' = (interrupted \/ mode = "IMPORT")
  /\ UNCHANGED <<registries, evidence, used, starts, unseen, todo>>

Next ==
  \/ RegisterAtSource \/ Export
  \/ StartImport \/ LookUp \/ LookedUp \/ PutImport \/ Post \/ PutReadWrite \/ ImportGate
  \/ SchemaCheck \/ StartNaive \/ RegisterUnrelated \/ RegisterNaively
  \/ Kill

Spec == Init /\ [][Next]_vars

-----------------------------------------------------------------------------
(* Properties. *)

\* Types; in a registry a subject's version has one ID and an ID one schema.
TypeOK ==
  /\ \A registry \in {source, target} :
       /\ registry \subseteq [subject : Int, version : Nat, id : Nat, schema : Int]
       /\ \A e, f \in registry :
            /\ e.subject = f.subject /\ e.version = f.version => e = f
            /\ e.id = f.id => e.schema = f.schema
  /\ mode \in {"READWRITE", "IMPORT"}
  /\ export \subseteq source /\ todo \subseteq export
  /\ unseen \subseteq Nat
  /\ imported_by_id \subseteq BOOLEAN
  /\ checked \subseteq [ids : SUBSET Ids, ok : BOOLEAN]
  /\ interrupted \in BOOLEAN

\* schemas.py:80, "a different schema on an ID fails": an import that gets to its
\* gate has left every ID of the data with its own schema on the target, whatever
\* was there before, was imported by an earlier run that broke off, or was taken
\* for missing because its GET was refused.
ImportEndsIdentical == pc = "gate" => \A i \in Ids : schemas_ids(target, i) = {i}

\* A registry that assigned its own IDs is always told apart: once
\* schema-naive-register has run on a new registry no set of IDs passes
\* schema-check (docs/how-it-works.md:184, 95-negative-tests.sh:82-83).
NaiveRegistryIsCaught ==
  [][checked' # checked /\ "registered naively" \in used /\ "import" \notin used =>
       \A c \in checked' : ~c.ok]_vars

\* What schema-check passed means the same on both registries for good, whatever
\* command is run or killed afterwards (65-verify-restore.sh:14-16).
PassedCheckHolds ==
  \A c \in checked : c.ok => \A i \in c.ids : schemas_ids(target, i) = {i}

\* The registry is left in IMPORT mode only by a kill or by a change of mode
\* that itself failed, never by a failed import (schemas.py:94-106).
ImportModeIsLeft == mode = "IMPORT" /\ pc = "idle" => interrupted

\* schemas.py:4-6, "Every schema ID the data uses is exported with its subjects
\* and versions, and imported into the restore registry".
ImportedWithSubjects ==
  imported_by_id = {TRUE} => export \subseteq target
-----------------------------------------------------------------------------
(* What makes the properties above inductive. *)

Importing == {"look", "put", "post", "reset", "reset-failed", "gate"}

\* On the source every ID of the data is known, as the schema it stands for.
SourceInv ==
  /\ IsFiniteSet(source)
  /\ \A e \in source : e.id = e.schema /\ e.id \in Ids /\ e.subject \in Subjects
  /\ \A i \in Ids : \E e \in source : e.id = i

\* The export has every ID of the data.
ExportInv == export # {} => \A i \in Ids : \E e \in export : e.id = i

\* What an import in progress has established: an exported ID that was looked up
\* is the target's by now, or its entry is still to be posted.
ImportInv ==
  /\ pc \in Importing \cup {"idle", "unrelated"}
  /\ pc \in Importing => "import" \in used
  /\ mode = "IMPORT" => "import" \in used /\ (interrupted \/ pc \in {"post", "reset", "reset-failed"})
  /\ pc \in Importing => export # {}
  /\ pc \in {"put", "post", "reset", "gate"} => unseen = {}
  /\ pc \in {"reset", "gate"} => todo = {}
  /\ pc \in {"look", "put", "post", "reset", "gate"} =>
       \A e \in export : e.id \in unseen \/ e \in todo \/ schemas_ids(target, e.id) = {e.id}

\* Until something is imported, the IDs of the data belong to others: the k-th
\* unrelated schema has an ID of k or more, every schema of the data a higher one.
NaiveInv ==
  "import" \notin used =>
    /\ \A e \in target : /\ e.schema \in Ids => e.id > Max(Ids)
                         /\ e.schema < 0 /\ e.schema >= -Max(Ids) => e.id >= -e.schema
    /\ pc = "unrelated" =>
         /\ unseen \subseteq unrelated
         /\ \A k \in unrelated \ unseen : /\ \E e \in target : e.schema = -k
                                          /\ \A l \in unseen : k < l

SchemaInv ==
  /\ SourceInv
  /\ IsFiniteSet(target)
  /\ ExportInv
  /\ ImportInv
  /\ NaiveInv
=============================================================================
