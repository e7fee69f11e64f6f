---------------------------- MODULE BaselineScan ----------------------------
(***************************************************************************)
(* Phase 20 (20-baseline.sh, baseline.py) reads the topic once, and the    *)
(* gate prune_gate.topic_unchanged_since_baseline of phases 40 and 50      *)
(* compares the topic with what it read.  The watermarks, the segment      *)
(* files, the records and the watermarks again are read one partition     *)
(* after the other, or several at a time, while producers append and, on   *)
(* a re-run after the prune, the broker deletes.                           *)
(*                                                                         *)
(* PruneGate starts with a baseline that equals the topic; this module is  *)
(* about why only such a baseline gets past the comparison.  The broker,   *)
(* the producers and the consumer library are external and modelled from   *)
(* common.py and docker-compose.yml.                                       *)
(***************************************************************************)
EXTENDS Retention, Sequences, Functions

CONSTANTS
  Partitions,     \* the number of partitions, read in the order 0, 1, ...
  Stamps,         \* the timestamps producers may give a record
  Seeded,         \* records per partition when the behaviour starts
  MaxRecords,     \* bound: producers stop when the topic has had this many records
  MaxStarts       \* bound: phases started

ASSUME BaselineAssumption ==
  /\ Partitions \in Nat \ {0}
  /\ Stamps \subseteq Nat
  /\ Seeded \in Nat \ {0} /\ MaxRecords \in Nat /\ MaxStarts \in Nat

Partition == 0..(Partitions - 1)

VARIABLES
  stamp,          \* stamp[p]: the timestamps of all records ever appended
  bases,          \* bases[p]: base offsets of the segment files
  retained,       \* retention.ms is still -1, phase 50 has not lowered it
  baseline,       \* baseline/<topic>.json: the set of its contents
  timings,        \* the last verdict of phase 20
  job,            \* the running phase
  starts

topicVars == <<stamp, bases, retained>>
vars == <<topicVars, baseline, timings, job, starts>>

-----------------------------------------------------------------------------
(* The topic.  Offsets start at 0; the log start is the first base.        *)

low(p)  == Min(bases[p])
high(p) == Len(stamp[p])

\* The offsets of the segment at b, of all segment files there are.
offsets(p, b) == {o \in b..(high(p) - 1) : \A c \in bases[p] : c <= o => c <= b}

largest(p, offs) == IF offs = {} THEN 0 ELSE Max({stamp[p][o + 1] : o \in offs})
summary(p, offs) == [count |-> Cardinality(offs), max_ts |-> largest(p, offs)]

segments(p) == [b \in bases[p] |-> summary(p, offsets(p, b))]

Append1(p) ==
  /\ MapThenSumSet(high, Partition) < MaxRecords
  /\ \E ts \in Stamps : stamp' = [stamp EXCEPT ![p] = Append(@, ts)]
  /\ \/ UNCHANGED bases
     \/ /\ Max(bases[p]) < high(p)
        /\ bases' = [bases EXCEPT ![p] = @ \cup {high(p)}]
  /\ UNCHANGED retained

\* A retention check deletes the oldest segments, or all after a roll.
DeleteOldest(p) ==
  /\ ~retained /\ low(p) < high(p)
  /\ \E b \in (bases[p] \ {low(p)}) \cup {high(p)} :
       bases' = [bases EXCEPT ![p] = {c \in @ \cup {high(p)} : c >= b /\ (c \in @ \/ b = high(p))}]
  /\ UNCHANGED <<stamp, retained>>

-----------------------------------------------------------------------------
(* The phases.  turn is the partition a loop over the partitions is at.    *)

Marks == [low : Nat, high : Nat]
NoJob == [phase |-> "none", pc |-> "idle", turn |-> 0, ok |-> TRUE,
          marks |-> [p \in Partition |-> [low |-> 0, high |-> 0]],
          files |-> [p \in Partition |-> << >>],
          left |-> {}, pos |-> [p \in Partition |-> 0], seen |-> [p \in Partition |-> {}]]

Init ==
  /\ \E ts \in Stamps : stamp = [p \in Partition |-> [i \in 1..Seeded |-> ts]]
  /\ bases \in [Partition -> {{0} \cup rolled : rolled \in SUBSET (1..(Seeded - 1))}]
  /\ retained \in BOOLEAN
  /\ baseline = {} /\ timings = "NONE" /\ job = NoJob /\ starts = 0

End(verdict) ==
  /\ job' = NoJob
  /\ timings' = IF job.phase = "20" THEN verdict ELSE timings

M_After(p, pc) ==   \* mutant: the next loop does not start at the first partition
  [job EXCEPT !.turn = p + 1, !.pc = IF p + 1 = Partitions THEN pc ELSE @]

\* The loop goes on to the next partition or, after the last, to pc.
After(p, pc) == [job EXCEPT !.turn = (p + 1) % Partitions,
                            !.pc = IF p + 1 = Partitions THEN pc ELSE @]

StartPhase(ph) ==
  /\ job.pc = "idle" /\ starts < MaxStarts
  /\ ph = "40" => baseline # {}
  /\ job' = [NoJob EXCEPT !.phase = ph, !.pc = "marks"]
  /\ starts' = starts + 1
  /\ UNCHANGED <<topicVars, baseline, timings>>

mark(p) == [low |-> low(p), high |-> high(p)]

ReadMarks(p) ==
  /\ job.pc = "marks" /\ job.turn = p
  /\ job' = [After(p, IF job.phase = "20" THEN "inventory" ELSE "compare") EXCEPT !.marks[p] = mark(p)]
  /\ UNCHANGED <<topicVars, baseline, timings, starts>>

\* Base offset, size and time index of every segment file; a partition whose
\* marks span no record is not scanned.
ReadInventory(p) ==
  /\ job.pc = "inventory" /\ job.turn = p
  /\ job' = [After(p, "scan") EXCEPT !.files[p] = segments(p), !.pos[p] = job.marks[p].low,
               !.left = IF job.marks[p].low < job.marks[p].high THEN @ \cup {p} ELSE @]
  /\ UNCHANGED <<topicVars, baseline, timings, starts>>

\* One batch: the records from pos to o, of which those below the high mark
\* are counted; a record at or beyond it ends the scan.
Fetch(p) ==
  /\ job.pc = "scan" /\ p \in job.left
  /\ low(p) <= job.pos[p]
  /\ \E o \in job.pos[p]..(high(p) - 1) :
       job' = [job EXCEPT !.pos[p] = o + 1,
                 !.seen[p] = @ \cup {q \in job.pos[p]..o : q < job.marks[p].high},
                 !.left = IF o + 1 >= job.marks[p].high THEN @ \ {p} ELSE @]
  /\ UNCHANGED <<topicVars, baseline, timings, starts>>

\* auto.offset.reset is not set: a position below the log start moves to its end.
OutOfRange(p) ==
  /\ job.pc = "scan" /\ p \in job.left
  /\ job.pos[p] < low(p)
  /\ job' = [job EXCEPT !.pos[p] = high(p)]
  /\ UNCHANGED <<topicVars, baseline, timings, starts>>

\* pool.map returns when every partition has been read.
ScanDone ==
  /\ job.pc = "scan" /\ job.left = {}
  /\ job' = [job EXCEPT !.pc = "again"]
  /\ UNCHANGED <<topicVars, baseline, timings, starts>>

\* stable_watermarks, the last gate input that is read.
ReadAgain(p) ==
  /\ job.pc = "again" /\ job.turn = p
  /\ job' = [After(p, "write") EXCEPT !.ok = @ /\ mark(p) = job.marks[p]]
  /\ UNCHANGED <<topicVars, baseline, timings, starts>>

\* A record belongs to the last segment that starts at or below it, else to
\* the first.
belongs(p, b) ==
  {o \in job.seen[p] : \/ b <= o /\ \A c \in DOMAIN job.files[p] : c <= o => c <= b
                       \/ o < b /\ \A c \in DOMAIN job.files[p] : b <= c}

scanned(p) == [low |-> job.marks[p].low, high |-> job.marks[p].high,
               bytes |-> [b \in DOMAIN job.files[p] |-> job.files[p][b].count],
               segments |-> [b \in DOMAIN job.files[p] |-> summary(p, belongs(p, b))]]

count_equals_offsets(p) == Cardinality(job.seen[p]) = job.marks[p].high - job.marks[p].low

contiguous_offsets(p) == \A o \in job.seen[p] : \A q \in job.seen[p] : q < o => o - 1 \in job.seen[p]

\* Only rolled segments: the time index of the active one is not complete.
segment_max_ts_matches_timeindex(p) ==
  \A b \in DOMAIN job.files[p] :
    (\E c \in DOMAIN job.files[p] : b < c) => job.files[p][b].max_ts = scanned(p).segments[b].max_ts

segment_counts(p) ==
  SumFunction([b \in DOMAIN job.files[p] |-> scanned(p).segments[b].count]) = Cardinality(job.seen[p])

M_WriteBaseline ==   \* mutant: the second reading of the watermarks is not compared
  /\ job.pc = "write"
  /\ baseline' = {[p \in Partition |-> scanned(p)]}
  /\ IF \A p \in Partition : /\ count_equals_offsets(p) /\ contiguous_offsets(p)
                             /\ segment_max_ts_matches_timeindex(p) /\ segment_counts(p)
     THEN job' = [NoJob EXCEPT !.phase = "20", !.pc = "size"] /\ UNCHANGED timings
     ELSE End("FAIL")
  /\ UNCHANGED <<topicVars, starts>>

\* The file is written whatever the gates say afterwards.
WriteBaseline ==
  /\ job.pc = "write"
  /\ baseline' = {[p \in Partition |-> scanned(p)]}
  /\ IF job.ok /\ \A p \in Partition : /\ count_equals_offsets(p) /\ contiguous_offsets(p)
                                       /\ segment_max_ts_matches_timeindex(p) /\ segment_counts(p)
     THEN job' = [NoJob EXCEPT !.phase = "20", !.pc = "size"] /\ UNCHANGED timings
     ELSE End("FAIL")
  /\ UNCHANGED <<topicVars, starts>>

file_bytes(f) == SumFunction([p \in Partition |-> SumFunction(f[p].bytes)])
log_dir_sizes == SumFunction([p \in Partition |-> high(p) - low(p)])

BrokerSize ==
  /\ job.pc = "size"
  /\ \E f \in baseline : End(IF log_dir_sizes = file_bytes(f) THEN "PASS" ELSE "FAIL")
  /\ UNCHANGED <<topicVars, baseline, starts>>

M_same(f, p) ==   \* mutant: base offsets are compared, sizes are not
  /\ bases[p] = DOMAIN f[p].bytes
  /\ job.marks[p] = [low |-> f[p].low, high |-> f[p].high]

same(f, p) ==
  /\ [b \in bases[p] |-> segments(p)[b].count] = f[p].bytes
  /\ job.marks[p] = [low |-> f[p].low, high |-> f[p].high]

\* prune_gate.topic_unchanged_since_baseline, one partition at a time; the rest
\* of phase 40 is in PruneGate.
Compare(p) ==
  /\ job.pc = "compare" /\ job.turn = p
  /\ \E f \in baseline :
       IF same(f, p) /\ p + 1 < Partitions
       THEN job' = After(p, "idle") /\ UNCHANGED timings
       ELSE End("FAIL")
  /\ UNCHANGED <<topicVars, baseline, starts>>

\* A stalled or refused read, a segment file that vanished, or SIGKILL.
Raise == job.pc # "idle" /\ End("FAIL") /\ UNCHANGED <<topicVars, baseline, starts>>
Crash == job.pc # "idle" /\ job' = NoJob /\ UNCHANGED <<topicVars, baseline, timings, starts>>

Environment ==
  /\ \E p \in Partition : Append1(p) \/ DeleteOldest(p)
  /\ UNCHANGED <<baseline, timings, job, starts>>

Scan(p) == ReadMarks(p) \/ ReadInventory(p) \/ Fetch(p) \/ OutOfRange(p) \/ ReadAgain(p) \/ Compare(p)

Next ==
  \/ Environment
  \/ \E ph \in {"20", "40"} : StartPhase(ph)
  \/ \E p \in Partition : Scan(p)
  \/ ScanDone \/ WriteBaseline \/ BrokerSize
  \/ Raise \/ Crash

Spec == Init /\ [][Next]_vars

-----------------------------------------------------------------------------
(* Properties. *)

Exact(f, p) ==
  /\ f[p].low = low(p) /\ f[p].high = high(p)
  /\ f[p].segments = segments(p)

BaselineTypeOK ==
  /\ \A p \in Partition : stamp[p] \in Seq(Stamps) /\ bases[p] # {} /\ bases[p] \subseteq 0..high(p)
  /\ timings \in {"NONE", "PASS", "FAIL"}
  /\ job.turn \in Partition /\ job.left \subseteq Partition
  /\ \A p \in Partition : job.seen[p] \subseteq 0..(high(p) - 1)

\* Whatever its own gates said, however phase 20 was killed, re-run or
\* overtaken by producers and by deletions: a baseline that gets past the
\* comparison of phase 40 on a partition describes that partition exactly at
\* that moment, largest timestamps included (prune.py:116-122).
AcceptedIsExact ==
  \A p \in Partition : job.pc = "compare" /\ job.turn = p =>
    \A f \in baseline : same(f, p) => Exact(f, p)

\* Phase 20 passes only if every partition is still what was read when
\* kafka-log-dirs is compared, although the watermarks, the files and the
\* records were read at different times; with deletions going on the sum of
\* the sizes alone proves nothing (baseline.py:128-137, 20-baseline.sh:14-17).
PassedIsExact ==
  job.pc = "size" /\ retained =>
    \A f \in baseline : log_dir_sizes = file_bytes(f) => \A p \in Partition : Exact(f, p)

-----------------------------------------------------------------------------
(* What makes the properties above inductive.  The facts about one partition *)
(* are stated of its present segment files B and its present end n.          *)

ShapeInv ==
  /\ stamp \in [Partition -> Seq(Stamps)] /\ bases \in [Partition -> SUBSET Nat]
  /\ timings \in {"NONE", "PASS", "FAIL"}
  /\ job.turn \in Partition /\ job.ok \in BOOLEAN /\ job.left \subseteq Partition
  /\ job.marks \in [Partition -> Marks] /\ job.pos \in [Partition -> Nat]
  /\ job.files = [p \in Partition |-> job.files[p]]
  /\ job.seen \in [Partition -> SUBSET Nat]
  /\ \A p \in Partition : job.seen[p] \subseteq 0..(high(p) - 1)
  /\ job = [phase |-> job.phase, pc |-> job.pc, turn |-> job.turn, ok |-> job.ok,
            marks |-> job.marks, files |-> job.files, left |-> job.left,
            pos |-> job.pos, seen |-> job.seen]

\* Before a retention check may delete, the first file is still there.
LogInv(B, n, keep) == B # {} /\ B \subseteq 0..n /\ (keep => 0 \in B)

TopicInv == retained \in BOOLEAN /\ \A p \in Partition : LogInv(bases[p], high(p), retained)

\* The offsets of the segment at b when files start at F and the log ends at end.
placed(F, b, end) == {o \in b..(end - 1) : \A c \in F : c <= o => c <= b}

\* Where segment files end, by the size of the last one.
files_end(bytes) == Max(DOMAIN bytes) + bytes[Max(DOMAIN bytes)]

\* The marks from, to and, later, the files were read from a partition: start and
\* end only moved up since; without deletions the files are still there.
ReadInv(B, n, keep, from, to, bytes) ==
  LET F == DOMAIN bytes
      end == files_end(bytes)
  IN  /\ F # {} /\ F \subseteq 0..end /\ end \in Nat
      /\ bytes = [b \in F |-> Cardinality(placed(F, b, end))]
      /\ from <= Min(F) /\ Min(F) <= Min(B)
      /\ to <= end /\ end <= n
      /\ keep => F \subseteq B /\ \A c \in B \ F : end <= c /\ c < n

\* Records are read from the low mark on; nothing is skipped while the log still
\* starts there.
ScanInv(B, n, mk, pos, seen, done) ==
  /\ mk.low <= pos /\ pos <= n
  /\ Min(B) = mk.low => seen = {o \in mk.low..(pos - 1) : o < mk.high}
  /\ done => mk.high <= pos \/ mk.high <= mk.low

MarksInv(B, n, mk) == mk.low <= Min(B) /\ mk.high <= n

\* The partitions a loop at pc has dealt with.
Before(pc) == {p \in Partition : job.pc = pc => p < job.turn}

sizes(files) == [b \in DOMAIN files |-> files[b].count]

PhaseInv ==
  \/ job.phase = "none" /\ job.pc = "idle"
  \/ job.phase = "20" /\ job.pc \in {"marks", "inventory", "scan", "again", "write", "size"}
  \/ job.phase = "40" /\ job.pc \in {"marks", "compare"}

MarkedInv ==
  job.pc \notin {"idle", "size"} =>
    \A p \in Before("marks") :
      /\ MarksInv(bases[p], high(p), job.marks[p])
      /\ job.phase = "40" => \A f \in baseline : /\ Min(DOMAIN f[p].bytes) <= job.marks[p].low
                                                 /\ files_end(f[p].bytes) <= job.marks[p].high

ScannedInv ==
  job.pc \in {"inventory", "scan", "again", "write"} =>
    \A p \in Before("inventory") :
      /\ ReadInv(bases[p], high(p), retained, job.marks[p].low, job.marks[p].high, sizes(job.files[p]))
      /\ ScanInv(bases[p], high(p), job.marks[p], job.pos[p], job.seen[p], p \notin job.left)

UnreadInv ==
  /\ job.pc = "marks" => \A p \in Partition : job.seen[p] = {} /\ p \notin job.left
  /\ job.pc = "inventory" => \A p \in Partition \ Before("inventory") : job.seen[p] = {} /\ p \notin job.left
  /\ job.pc = "scan" => job.turn = 0
  /\ job.pc \in {"again", "write"} => job.left = {}

AgainInv ==
  job.pc \in {"again", "write"} /\ job.ok =>
    \A p \in Before("again") : files_end(sizes(job.files[p])) = job.marks[p].high

JobInv == PhaseInv /\ MarkedInv /\ ScannedInv /\ UnreadInv /\ AgainInv

\* What baseline/<topic>.json says is exact as long as the log starts where it says.
FileInv ==
  \A f \in baseline, p \in Partition :
    /\ f[p].low \in Nat /\ f[p].high \in Nat
    /\ ReadInv(bases[p], high(p), retained, f[p].low, f[p].high, f[p].bytes)
    /\ low(p) = f[p].low =>
         f[p].segments = [b \in DOMAIN f[p].bytes |-> summary(p, placed(DOMAIN f[p].bytes, b, f[p].high))]
    /\ job.pc = "size" => files_end(f[p].bytes) = f[p].high

BaselineInv == ShapeInv /\ TopicInv /\ JobInv /\ FileInv
=============================================================================
