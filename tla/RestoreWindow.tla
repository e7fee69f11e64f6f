--------------------------- MODULE RestoreWindow ---------------------------
(***************************************************************************)
(* Restoring from the archive: the as-at range of phase 45                 *)
(* (45-archive-options.sh), the audit month of phases 60 and 65, the full  *)
(* restore of phase 70, the unpadded day of phase 95, and verify-restore   *)
(* (verify_restore.py), which compares what came back with the baseline.   *)
(*                                                                         *)
(* The topic is the one SeedPartition produces.  kafka-backup is not part  *)
(* of the repository: it cuts the log into segments anywhere, selects      *)
(* segments by the timestamps of their first and last record, and may be   *)
(* killed or go wrong while it restores.  One partition is modelled; the   *)
(* gates are conjunctions over the partitions, which do not interact.      *)
(* A record is its original offset and its timestamp.                      *)
(***************************************************************************)
EXTENDS SeedPartition, FiniteSetsExt, Functions

CONSTANTS
  Kinds,          \* the restores considered, a subset of Kind
  AuditAgo,       \* AUDIT_MONTHS_AGO in milliseconds
  AuditDays,      \* AUDIT_DAYS
  SinceAgo,       \* ARCHIVE_SINCE_DAYS in milliseconds
  RangeDays,      \* ASAT_RANGE_DAYS
  MaxSegments,    \* bound: segments of the backup
  MaxStarts,      \* bound: restores started
  MaxFaults       \* bound: records or group offsets kafka-backup gets wrong

Kind == {"audit", "asat", "full", "unpadded"}

ASSUME RestoreAssumption ==
  /\ Kinds \subseteq Kind
  /\ AuditAgo \in Nat /\ AuditDays \in Nat \ {0}
  /\ SinceAgo \in Nat /\ RangeDays \in Nat
  /\ MaxSegments \in Nat \ {0} /\ MaxStarts \in Nat /\ MaxFaults \in Nat

VARIABLES
  cuts,           \* positions at which the segments of the backup start
  since,          \* archive-options: the archive that starts at an instant, {} if none
  kind,           \* the restore this behaviour is about
  window,         \* restore/audit-window.json and its like, {} while unknown
  target,         \* the target topic, {} while it does not exist
  snapshot,       \* the committed offset in the backup's group snapshot
  committed,      \* the group's committed offset on the target, {} if none
  verdict,        \* restore/verify-<label>.json
  todo,           \* selected records kafka-backup still has to restore
  pc, starts, faults

restoreVars == <<cuts, since, kind, window, target, snapshot, committed, verdict, todo, starts, faults>>
vars == <<seedVars, restoreVars, pc>>

Init ==
  /\ SeedInit
  /\ pc = "seed" /\ starts = 0 /\ faults = 0
  /\ cuts = {} /\ since = {} /\ window = {} /\ target = {}
  /\ kind = "none" /\ snapshot = 0 /\ committed = {} /\ verdict = {} /\ todo = {}

-----------------------------------------------------------------------------
(* The backup: segments and their bounds in the manifest. *)

seg_first(o) == Max({c \in cuts : c <= o})
seg_last(o)  == LET later == {c \in cuts : c > o}
                IN  IF later = {} THEN Len(log) ELSE Min(later) - 1

\* start_timestamp and end_timestamp of o's segment: first and last record.
s_start(o) == log[seg_first(o)]
s_end(o)   == log[seg_last(o)]

M_hazards ==   \* mutant: only records before the first record's timestamp
  {o \in DOMAIN log : log[o] < s_start(o)}

\* time-window-hazards-<backup_id>.json
hazards == {o \in DOMAIN log : log[o] < s_start(o) \/ log[o] > s_end(o)}

\* A bound of a window is the set of its value, empty where there is none.
InWindow(ts, w) == (\A a \in w.ws : ts >= a) /\ (\A b \in w.we : ts <= b)
Excluded(o, w)  == (\E a \in w.ws : s_end(o) < a) \/ (\E b \in w.we : s_start(o) > b)

M_Selected(w) ==   \* mutant: offsets are taken for positions one further on
  {o + 1 : o \in {q \in DOMAIN log : ~Excluded(q, w) /\ InWindow(log[q], w)}}

Selected(w) == {o \in DOMAIN log : ~Excluded(o, w) /\ InWindow(log[o], w)}

day_of(ts) == ts \div DAY

-----------------------------------------------------------------------------
(* The windows. *)

audit_start == day_of(EndTs - AuditAgo) * DAY
audit_end_exclusive == audit_start + AuditDays * DAY

M_audit_window ==   \* mutant: only the start is padded
  [ws |-> {audit_start - LateMax}, we |-> {audit_end_exclusive - 1},
   exact_from |-> {day_of(audit_start)}, exact_to |-> {day_of(audit_end_exclusive - DAY)}]

audit_window ==
  [ws |-> {audit_start - LateMax}, we |-> {audit_end_exclusive - 1 + LateMax},
   exact_from |-> {day_of(audit_start)}, exact_to |-> {day_of(audit_end_exclusive - DAY)}]

since_ms == EndTs - SinceAgo

\* Not padded; the exact days are those of WINDOW_START plus and WINDOW_END
\* minus the pad.
asat_window ==
  LET ws == since_ms - RangeDays * DAY
      we == since_ms - 1
  IN  [ws |-> {ws}, we |-> {we},
       exact_from |-> {day_of(ws + LateMax)}, exact_to |-> {day_of(we - LateMax)}]

full_window == [ws |-> {}, we |-> {}, exact_from |-> {}, exact_to |-> {}]

M_straddlers(d) ==   \* mutant: a segment that starts later, on the same day perhaps
  {o \in hazards : day_of(log[o]) = d /\ s_start(o) > log[o]}

\* Records of day d in a segment that starts on a later day.
straddlers(d) == {o \in hazards : day_of(log[o]) = d /\ s_start(o) > (d + 1) * DAY - 1}

day_window(d) ==
  [ws |-> {d * DAY}, we |-> {(d + 1) * DAY - 1}, exact_from |-> {d}, exact_to |-> {d}]

\* A day with the most of them, if any day has one.
unpadded_windows ==
  LET days == {day_of(log[o]) : o \in hazards}
  IN  {day_window(d) : d \in {e \in days :
         /\ straddlers(e) # {}
         /\ \A f \in days : Cardinality(straddlers(f)) <= Cardinality(straddlers(e))}}

windows(k) == CASE k = "audit" -> {audit_window} [] k = "asat" -> {asat_window}
                [] k = "full"  -> {full_window}  [] k = "unpadded" -> unpadded_windows

-----------------------------------------------------------------------------
(* Phases 10 to 35, up to a verified backup. *)

Seed ==
  /\ pc = "seed" /\ Len(log) < Records
  /\ SeedStep
  /\ UNCHANGED <<restoreVars, pc>>

Baseline ==
  /\ pc = "seed" /\ Len(log) = Records
  /\ pc' = IF only_late_cohort_goes_backwards /\ nothing_after_seed_end THEN "backup" ELSE "rejected"
  /\ UNCHANGED <<seedVars, restoreVars>>

Backup ==
  /\ pc = "backup"
  /\ \E f \in [1..(MaxSegments - 1) -> DOMAIN log] : cuts' = {1} \cup Range(f)
  /\ kind' \in Kinds
  /\ pc' = IF kind' = "asat" THEN "since" ELSE "idle"
  /\ UNCHANGED <<seedVars, since, window, target, snapshot, committed, verdict, todo, starts, faults>>

M_ArchiveSince ==   \* mutant: the gate allows for no late records
  LET later == {o \in DOMAIN log : log[o] >= since_ms}
  IN  /\ pc = "since" /\ later # {}
      /\ \E c \in DOMAIN log :
           /\ Min(later) <= c
           /\ since' = {[first |-> Min(later), passed |-> Min({log[c], log[Min(later)]}) >= since_ms]}
      /\ pc' = "idle"
      /\ UNCHANGED <<seedVars, cuts, kind, window, target, snapshot, committed, verdict, todo, starts, faults>>

\* 45 A.  The broker returns the first offset at or after the instant; the
\* archive starts there and has, for one, a second segment starting at c.
ArchiveSince ==
  LET later == {o \in DOMAIN log : log[o] >= since_ms}
  IN  /\ pc = "since"
      /\ \/ later = {} /\ UNCHANGED since
         \/ \E c \in DOMAIN log :
              /\ later # {} /\ Min(later) <= c
              /\ since' = {[first |-> Min(later),
                            passed |-> Min({log[c], log[Min(later)]}) >= since_ms - LateMax]}
      /\ pc' = IF later = {} THEN "ended" ELSE "idle"
      /\ UNCHANGED <<seedVars, cuts, kind, window, target, snapshot, committed, verdict, todo, starts, faults>>

-----------------------------------------------------------------------------
(* The restore.  The audit and the full restore refuse a topic that exists;  *)
(* the as-at and the unpadded one delete it first.                           *)

StartRestore ==
  /\ pc = "idle" /\ starts < MaxStarts
  /\ kind \in {"audit", "full"} => target = {}
  /\ \E w \in windows(kind) : window' = {w} /\ todo' = Selected(w)
  /\ target' = {[records |-> << >>, complete |-> FALSE]}
  /\ pc' = "restore" /\ starts' = starts + 1
  /\ UNCHANGED <<seedVars, cuts, since, kind, snapshot, committed, verdict, faults>>

source == [o \in DOMAIN log |-> [orig |-> o, ts |-> log[o]]]

Write(o) == \E t \in target : target' = {[t EXCEPT !.records = Append(t.records, source[o])]}

RestoreRecord ==
  /\ pc = "restore"
  /\ \E o \in todo :
       /\ \A q \in todo : o <= q
       /\ Write(o)
       /\ todo' = todo \ {o}
  /\ UNCHANGED <<seedVars, cuts, since, kind, window, snapshot, committed, verdict, starts, faults, pc>>

\* The next record is skipped, written twice, or overtaken by the one after it.
RestoreWrongly ==
  /\ pc = "restore" /\ faults < MaxFaults
  /\ faults' = faults + 1
  /\ \E o \in todo :
       \/ (\A q \in todo : o <= q) /\ todo' = todo \ {o} /\ UNCHANGED target
       \/ Cardinality({q \in todo : q < o}) = 1 /\ todo' = todo \ {o} /\ Write(o)
       \/ (\A q \in todo : o <= q) /\ Write(o) /\ UNCHANGED todo
  /\ UNCHANGED <<seedVars, cuts, since, kind, window, snapshot, committed, verdict, starts, pc>>

\* Phases 45, 70 and 95 go on with verify-restore, phase 60 ends here.
RestoreDone ==
  /\ pc = "restore" /\ todo = {}
  /\ \E t \in target : target' = {[t EXCEPT !.complete = TRUE]}
  /\ pc' = CASE kind = "audit" -> "idle" [] kind = "full" -> "reset" [] OTHER -> "verify"
  /\ UNCHANGED <<seedVars, cuts, since, kind, window, snapshot, committed, verdict, todo, starts, faults>>

\* Positions of the target that carry an offset of the source.
Mapped(records, offset) ==
  IF offset = Len(log) + 1 THEN {Len(records) + 1}
                           ELSE {i \in DOMAIN records : records[i].orig = offset}

\* auto_consumer_groups: the group's offset, which the backup took anywhere in
\* the log and which matters here first, goes where the header says or, as a
\* fault, anywhere.
ResetGroup ==
  /\ pc = "reset"
  /\ snapshot' \in 1..(Len(log) + 1)
  /\ \E t \in target :
       \/ committed' = Mapped(t.records, snapshot') /\ UNCHANGED faults
       \/ /\ faults < MaxFaults /\ faults' = faults + 1
          /\ \E c \in 1..(Len(t.records) + 1) : committed' = {c}
  /\ pc' = "verify"
  /\ UNCHANGED <<seedVars, cuts, since, kind, window, target, verdict, todo, starts>>

-----------------------------------------------------------------------------
(* verify-restore. *)

of_day(records, d) == {i \in DOMAIN records : day_of(records[i].ts) = d}

\* A day's records, each with its place among them: the digest runs over them in order.
bucket(records, d) ==
  {<<Cardinality({j \in of_day(records, d) : j <= i}), records[i]>> : i \in of_day(records, d)}

predicted_missing(w, d) ==
  Cardinality({o \in hazards : day_of(log[o]) = d /\ InWindow(log[o], w) /\ Excluded(o, w)})

fully_inside(w, d) ==
  (\A a \in w.ws : d * DAY >= a) /\ (\A b \in w.we : (d + 1) * DAY - 1 <= b)

exact(w, d) == (\A a \in w.exact_from : d >= a) /\ (\A b \in w.exact_to : d <= b)

M_all_days ==   \* mutant: only days that came back are looked at
  {day_of(r.ts) : r \in UNION {Range(t.records) : t \in target}}

\* The days of the baseline, and of what came back.
all_days == {day_of(log[o]) : o \in DOMAIN log}

differs(records, d) == bucket(source, d) # bucket(records, d)

missing(records, d) == Cardinality(of_day(source, d)) - Cardinality(of_day(records, d))

\* Inside the window a difference is explained if as many records are missing
\* as the segment bounds predict, and on a partial day if none is too many.
explained(records, w, d) ==
  IF fully_inside(w, d)
  THEN differs(records, d) =>
         missing(records, d) = predicted_missing(w, d) /\ missing(records, d) # 0
  ELSE missing(records, d) >= 0

original_offsets_strictly_increasing(records) ==
  \A i \in 1..(Len(records) - 1) : records[i].orig < records[i + 1].orig

no_records_outside_window(records, w) ==
  \A i \in DOMAIN records : InWindow(records[i].ts, w)

buckets_match_baseline(records, w) ==
  /\ \A d \in all_days : fully_inside(w, d) /\ exact(w, d) => ~differs(records, d)
  /\ records # << >>

every_difference_explained(records, w) == \A d \in all_days : explained(records, w, d)

M_consumer_group_offset_mapped(records) ==   \* mutant: the end of the log is no special case
  \E c \in committed : c \in DOMAIN records /\ records[c].orig = snapshot

M_group_has_offset(records) ==   \* mutant: any committed offset will do
  committed # {} /\ Range(records) # {}

\* At the end of the source the group has to be at the end of the target, else
\* at the record that carries its offset.
consumer_group_offset_mapped(records) ==
  \E c \in committed :
    IF snapshot = Len(log) + 1 THEN c = Len(records) + 1
    ELSE c \in DOMAIN records /\ records[c].orig = snapshot

VerifyRestore ==
  /\ pc = "verify" \/ (pc = "idle" /\ kind = "audit")
  /\ \E t \in target, w \in window :
       LET buckets_match == buckets_match_baseline(t.records, w)
           all_explained == every_difference_explained(t.records, w)
       IN  verdict' = {[buckets |-> buckets_match, explained |-> all_explained,
                        passed  |-> /\ original_offsets_strictly_increasing(t.records)
                                    /\ no_records_outside_window(t.records, w)
                                    /\ buckets_match /\ all_explained
                                    /\ kind = "full" => consumer_group_offset_mapped(t.records)]}
  /\ pc' = "idle"
  /\ UNCHANGED <<seedVars, cuts, since, kind, window, target, snapshot, committed, todo, starts, faults>>

-----------------------------------------------------------------------------
Kill ==
  /\ pc \in {"restore", "reset"}
  /\ pc' = "idle" /\ todo' = {}
  /\ UNCHANGED <<seedVars, cuts, since, kind, window, target, snapshot, committed, verdict, starts, faults>>

Next ==
  \/ Seed \/ Baseline \/ Backup \/ ArchiveSince
  \/ StartRestore \/ RestoreRecord \/ RestoreWrongly \/ RestoreDone \/ ResetGroup
  \/ VerifyRestore
  \/ Kill

Spec == Init /\ [][Next]_vars

-----------------------------------------------------------------------------
(* Properties. *)

RestoreTypeOK ==
  /\ SeedTypeOK
  /\ cuts \subseteq Nat /\ todo \subseteq DOMAIN log
  /\ since \subseteq [first : Nat, passed : BOOLEAN]
  /\ kind \in Kinds \cup {"none"}
  /\ \A t \in target : t.complete \in BOOLEAN /\ Range(t.records) \subseteq Range(source)
  /\ snapshot \in Nat /\ committed \subseteq Nat
  /\ verdict \subseteq [buckets : BOOLEAN, explained : BOOLEAN, passed : BOOLEAN]

Honest == faults = 0 /\ \A t \in target : t.complete

\* Phase 20 never rejects what phase 10 produced: exactly the late records go
\* backwards although boundary records are moved by hand (baseline.py:138-143).
BaselineAcceptsSeed == pc # "rejected"

\* Padding the audit month by the maximum lateness on both sides restores every
\* record of it, wherever kafka-backup cut its segments and although it selects
\* them by their first and last record (60-audit-restore.sh:15-29).
PaddedWindowComplete ==
  kind = "audit" /\ Honest =>
    \A t \in target, o \in DOMAIN log :
      audit_start <= log[o] /\ log[o] < audit_end_exclusive =>
        \E i \in DOMAIN t.records : t.records[i].orig = o

\* No false alarm: verify-restore passes an audit or full restore that went
\* well, the days of the pad included (verify_restore.py:152-204).
HonestRestorePasses ==
  kind \in {"audit", "full"} /\ Honest => \A v \in verdict : v.passed

\* No missed loss: once verify-audit.json has passed, the audit topic holds
\* every record of every audit day exactly once and in order, and nothing
\* outside the padded window, although phase 60 may have been killed, re-run or
\* have gone wrong (verify_restore.py:162-204, 60-audit-restore.sh:36).
PassedAuditIsExact ==
  kind = "audit" => \A v \in verdict, t \in target : v.passed =>
    /\ \A d \in day_of(audit_start)..day_of(audit_end_exclusive - 1) :
         bucket(t.records, d) = bucket(source, d)
    /\ \A i \in DOMAIN t.records :
         audit_start - LateMax <= t.records[i].ts /\ t.records[i].ts < audit_end_exclusive + LateMax

\* After a passed phase 70 the group resumes on the target with exactly the
\* records it had not consumed on the source (verify_restore.py:225-243).
GroupResumesWhereItStopped ==
  kind = "full" => \A v \in verdict, t \in target, c \in committed : v.passed =>
    SubSeq(t.records, c, Len(t.records)) = SubSeq(source, snapshot, Len(log))

\* 95-negative-tests.sh:114-122: the unpadded day must fail its bucket gate,
\* and every record it lost is one that the manifest bounds predict.
UnpaddedLossIsCaught ==
  [][kind = "unpadded" /\ verdict' # verdict /\ Honest =>
       \A v \in verdict' : ~v.buckets /\ v.explained]_vars

\* An archive that starts at the first offset at or after an instant begins at
\* most the late window before it, whatever its segments (45-archive-options.sh:61-63).
SinceGatePasses == \A a \in since : a.passed

\* docs/walkthrough.md:252, "only the interior days are required to match
\* exactly, and any difference at the edges must be one the manifest's segment
\* bounds predict": an as-at restore that went well passes.
AsAtRestorePasses ==
  [][kind = "asat" /\ verdict' # verdict /\ Honest => \A v \in verdict' : v.passed]_vars

-----------------------------------------------------------------------------
(* What makes the properties of verify-restore inductive. *)

InOrder(records) == \A i, j \in DOMAIN records : i < j => records[i].orig < records[j].orig
offsets_of(records) == {records[i].orig : i \in DOMAIN records}

\* What the window is, by the restore it is for.
WindowInv ==
  /\ pc \in {"seed", "backup", "rejected"} => window = {} /\ verdict = {}
  /\ kind = "audit" => window \subseteq {audit_window}
  /\ kind = "full" => window \subseteq {full_window}
  /\ kind = "unpadded" => \A w \in window : \E d \in all_days : w = day_window(d) /\ straddlers(d) # {}
  /\ \A t, u \in target : t = u

\* Without a fault the selected records arrive in order, each once.
HonestInv ==
  faults = 0 => \A t \in target, w \in window :
    /\ InOrder(t.records)
    /\ t.complete => pc # "restore" /\ offsets_of(t.records) = Selected(w)
    /\ pc = "restore" =>
         /\ todo \subseteq Selected(w) /\ offsets_of(t.records) = Selected(w) \ todo
         /\ \A i \in DOMAIN t.records, o \in todo : t.records[i].orig < o

\* The group is where its mapping says, or was put somewhere as the fault.
GroupInv ==
  kind = "full" /\ pc = "verify" =>
    /\ snapshot \in 1..(Len(log) + 1)
    /\ \A t \in target :
         \/ committed = Mapped(t.records, snapshot)
         \/ faults # 0 /\ \E c \in 1..(Len(t.records) + 1) : committed = {c}

\* Phases 65 and 70 end with their verdict: nothing is restored after it.
VerdictInv == kind \in {"audit", "full"} /\ verdict # {} => pc = "idle" /\ target # {}

VerifyInv == WindowInv /\ HonestInv /\ GroupInv /\ VerdictInv

\* The audit month is not empty.
AuditMonthHasRecords == \E o \in DOMAIN log : audit_start <= log[o] /\ log[o] < audit_end_exclusive
=============================================================================
