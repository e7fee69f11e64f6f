--------------------------- MODULE SeedPartition ---------------------------
(***************************************************************************)
(* Phase 10: how the seeder stamps the records of one partition            *)
(* (_produce_partition in tools/verifier/verifier/seed.py), and what the   *)
(* baseline of phase 20 counts when it reads them back.  The restore       *)
(* windows of RestoreWindow rest on how late a record can be.              *)
(*                                                                         *)
(* A partition's log is the sequence of its record timestamps; position i  *)
(* is offset i - 1.  Keys, values and schema versions are left out.        *)
(***************************************************************************)
EXTENDS Integers, Sequences, FiniteSets

CONSTANTS
  DAY, HOUR,      \* DAY_MS and HOUR_MS
  LateMax,        \* late_max_hours, in the same unit
  StartTs, EndTs, \* the span of the seed, start_ts and seed_end_ts
  Records         \* the record count of the partition

ASSUME SeedAssumption ==
  /\ DAY \in Nat \ {0} /\ HOUR \in Nat \ {0} /\ LateMax \in Nat
  /\ StartTs \in Nat /\ EndTs \in Nat /\ StartTs <= EndTs
  /\ Records \in Nat \ {0}

None == -1        \* timestamps and days are never negative

VARIABLES
  log,            \* the timestamps produced so far
  clock,          \* the largest of them
  prev_day,       \* the UTC day of the record before
  pin_midnight,   \* the midnight the next record is pinned to
  late            \* how many late records were produced

seedVars == <<log, clock, prev_day, pin_midnight, late>>

SeedInit ==
  /\ log = << >> /\ clock = None
  /\ prev_day = None /\ pin_midnight = None
  /\ late = 0

\* start_ts + int(i * step), step = (end_ts - start_ts) / n.
natural(i) == StartTs + (i * (EndTs - StartTs)) \div Records

today == natural(Len(log)) \div DAY
NewDay == prev_day # None /\ today # prev_day

Send(ts) ==
  /\ Len(log) < Records
  /\ log' = Append(log, ts)
  /\ prev_day' = today

MovesClock(ts) == clock' = IF clock > ts THEN clock ELSE ts

M_BeforeMidnight ==   \* mutant: the record after midnight, not the one before
  /\ NewDay
  /\ Send(today * DAY + 1)
  /\ MovesClock(today * DAY + 1)
  /\ pin_midnight' = today * DAY
  /\ UNCHANGED late

\* The first record of a new day is put one millisecond before midnight ...
BeforeMidnight ==
  /\ NewDay
  /\ Send(today * DAY - 1)
  /\ MovesClock(today * DAY - 1)
  /\ pin_midnight' = today * DAY
  /\ UNCHANGED late

\* ... and the next one at midnight, unless a further day has begun.
AtMidnight ==
  /\ ~NewDay /\ pin_midnight # None
  /\ Send(pin_midnight)
  /\ MovesClock(pin_midnight)
  /\ pin_midnight' = None
  /\ UNCHANGED late

OnTime ==
  /\ ~NewDay /\ pin_midnight = None
  /\ Send(natural(Len(log)))
  /\ MovesClock(natural(Len(log)))
  /\ UNCHANGED <<pin_midnight, late>>

M_LateRecord ==   \* mutant: one millisecond later than the late window allows
  /\ ~NewDay /\ pin_midnight = None
  /\ clock # None /\ clock - StartTs > LateMax
  /\ \E lag \in HOUR..(LateMax + 1) : Send(clock - lag)
  /\ late' = late + 1
  /\ UNCHANGED <<clock, pin_midnight>>

M_LateFromTheStart ==   \* mutant: late records before the late window has passed
  /\ ~NewDay /\ pin_midnight = None
  /\ clock # None
  /\ \E lag \in HOUR..LateMax : Send(clock - lag)
  /\ late' = late + 1
  /\ UNCHANGED <<clock, pin_midnight>>

\* A late record never moves the clock.
LateRecord ==
  /\ ~NewDay /\ pin_midnight = None
  /\ clock # None /\ clock - StartTs > LateMax
  /\ \E lag \in HOUR..LateMax : Send(clock - lag)
  /\ late' = late + 1
  /\ UNCHANGED <<clock, pin_midnight>>

SeedStep == BeforeMidnight \/ AtMidnight \/ OnTime \/ LateRecord

SeedSpec == SeedInit /\ [][SeedStep]_seedVars

-----------------------------------------------------------------------------
(* Phase 20, baseline.py. *)

\* Records behind the largest timestamp before them.
backwards_steps == Cardinality({i \in DOMAIN log : \E j \in 1..(i - 1) : log[j] > log[i]})

only_late_cohort_goes_backwards == backwards_steps = late
nothing_after_seed_end == \A i \in DOMAIN log : log[i] <= EndTs

-----------------------------------------------------------------------------
\* Types, and the clock as the largest timestamp so far.
SeedTypeOK ==
  /\ log \in Seq(Nat) /\ Len(log) <= Records
  /\ clock \in Nat \cup {None} /\ prev_day \in Nat \cup {None}
  /\ pin_midnight \in Nat \cup {None} /\ late \in Nat

\* No record is more than LateMax behind any record before it
\* (seed.py:141-146); the restore windows are padded by as much.
LatenessBounded ==
  \A j \in DOMAIN log : \A i \in 1..j : log[i] - log[j] <= LateMax

\* Every record lies in the span, so nothing is before the first day or after
\* SEED_END_TS, boundary records included (seed.py:129-136, 294).
InSpan == \A i \in DOMAIN log : StartTs <= log[i] /\ log[i] <= EndTs
=============================================================================
