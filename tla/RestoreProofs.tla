--------------------------- MODULE RestoreProofs ----------------------------
(***************************************************************************)
(* For every span, late window, day length and record count: the seeder    *)
(* stays inside its span and no record is more than LateMax behind one     *)
(* before it.  The pads of the restore windows rest on this: for every     *)
(* audit month and way kafka-backup may cut the log into segments, the     *)
(* padded window selects every record of the audit month, so an audit      *)
(* restore that went well is complete.                                     *)
(***************************************************************************)
EXTENDS RestoreWindow, FiniteSetTheorems, WellFoundedInduction, SequenceTheorems, TLAPS

-----------------------------------------------------------------------------
(* Arithmetic of the natural timestamps and of days. *)

\* Integer division, by its remainder.
LEMMA DivDef ==
  ASSUME NEW a \in Nat, NEW n \in Nat \ {0}
  PROVE  a \div n \in Nat /\ n * (a \div n) <= a /\ a < n * (a \div n) + n
  BY SMT

\* Multiplication keeps the order.
LEMMA MulMono ==
  ASSUME NEW n \in Nat, NEW x \in Nat, NEW y \in Nat, x <= y
  PROVE  n * x <= n * y /\ x * n <= y * n
  BY SMT

\* Division keeps the order.
LEMMA DivMono ==
  ASSUME NEW a \in Nat, NEW b \in Nat, NEW n \in Nat \ {0}, a <= b
  PROVE  a \div n <= b \div n
<1>1. SUFFICES ASSUME b \div n < a \div n PROVE FALSE
  BY DivDef, SMT
<1>2. n * (b \div n + 1) <= n * (a \div n)
  BY <1>1, DivDef, MulMono, SMT
<1>3. n * (b \div n + 1) = n * (b \div n) + n
  BY DivDef, SMT
<1> QED BY <1>2, <1>3, DivDef, SMT

\* The natural timestamps start at StartTs and never go backwards.
LEMMA NaturalMono ==
  ASSUME NEW i \in Nat, NEW j \in Nat, i <= j
  PROVE  natural(i) \in Nat /\ StartTs <= natural(i) /\ natural(i) <= natural(j)
<1> DEFINE X == EndTs - StartTs
<1>1. X \in Nat /\ StartTs \in Nat /\ Records \in Nat \ {0}
  BY SeedAssumption, SMT
<1>2. i * X \in Nat /\ j * X \in Nat /\ i * X <= j * X
  BY <1>1, MulMono, SMT
<1>3. (i * X) \div Records <= (j * X) \div Records
  BY <1>1, <1>2, DivMono
<1>4. (i * X) \div Records \in Nat /\ (j * X) \div Records \in Nat
  BY <1>1, <1>2, DivDef
<1> QED BY <1>1, <1>3, <1>4, SMT DEF natural

\* Those of the partition's records are in the span.
LEMMA NaturalInSpan ==
  ASSUME NEW i \in Nat, i <= Records
  PROVE  natural(i) <= EndTs
<1> DEFINE X == EndTs - StartTs
           q == (Records * X) \div Records
<1>1. X \in Nat /\ StartTs \in Nat /\ Records \in Nat \ {0}
  BY SeedAssumption, SMT
<1>2. Records * X \in Nat /\ natural(i) <= natural(Records)
  BY <1>1, NaturalMono, SMT
<1>3. q \in Nat /\ Records * q <= Records * X
  BY <1>1, <1>2, DivDef
<1>4. q <= X
  <2>1. SUFFICES ASSUME X + 1 <= q PROVE FALSE
    BY <1>1, <1>3, SMT
  <2>2. Records * (X + 1) <= Records * q
    BY <1>1, <1>3, <2>1, MulMono, SMT
  <2>3. Records * (X + 1) = Records * X + Records
    BY <1>1, SMT
  <2> QED BY <1>1, <1>2, <1>3, <2>2, <2>3, SMT
<1> QED BY <1>1, <1>2, <1>3, <1>4, NaturalMono, SeedAssumption, SMT DEF natural

\* A timestamp of an earlier day is before the midnight of the later day.
LEMMA MidnightBetween ==
  ASSUME NEW a \in Nat, NEW b \in Nat, a <= b, a \div DAY # b \div DAY
  PROVE  (b \div DAY) * DAY \in Nat /\ a <= (b \div DAY) * DAY - 1 /\ (b \div DAY) * DAY <= b
<1>1. DAY \in Nat \ {0}
  BY SeedAssumption
<1>2. a \div DAY \in Nat /\ b \div DAY \in Nat /\ a \div DAY + 1 <= b \div DAY
  BY <1>1, DivDef, DivMono, SMT
<1>3. DAY * (a \div DAY + 1) <= DAY * (b \div DAY)
  BY <1>1, <1>2, MulMono, SMT
<1>4. DAY * (a \div DAY + 1) = DAY * (a \div DAY) + DAY /\ DAY * (b \div DAY) = (b \div DAY) * DAY
  BY <1>1, <1>2, SMT
<1>5. (b \div DAY) * DAY \in Nat
  BY <1>1, <1>2, SMT
<1> QED BY <1>1, <1>3, <1>4, <1>5, DivDef, SMT

-----------------------------------------------------------------------------
(* The invariant.  The clock is never ahead of the natural timestamps, so   *)
(* only late records are behind it; a record pinned to midnight follows one *)
(* a millisecond before midnight.                                           *)

ClockInv ==
  /\ log = << >> <=> clock = None
  /\ log = << >> => prev_day = None /\ pin_midnight = None
  /\ log # << >> =>
       /\ prev_day = natural(Len(log) - 1) \div DAY
       /\ StartTs <= clock /\ clock <= natural(Len(log) - 1)
       /\ pin_midnight # None =>
            clock = pin_midnight - 1 /\ pin_midnight <= natural(Len(log) - 1)

RecordsInv ==
  /\ \A i \in DOMAIN log : StartTs <= log[i] /\ log[i] <= clock
  /\ LatenessBounded

SeedInv == SeedTypeOK /\ ClockInv /\ RecordsInv

-----------------------------------------------------------------------------
\* What every record that is sent has to satisfy.
LEMMA SendKeeps ==
  ASSUME SeedInv, NEW ts \in Nat, Send(ts),
         StartTs <= ts, clock' \in Nat, clock <= clock', ts <= clock',
         clock - LateMax <= ts
  PROVE  /\ RecordsInv' /\ log' \in Seq(Nat) /\ Len(log') <= Records
         /\ log' # << >> /\ Len(log') - 1 = Len(log)
<1> USE SeedAssumption DEF SeedTypeOK, None
<1>1. log \in Seq(Nat) /\ Len(log) \in Nat /\ Len(log) < Records /\ log' = Append(log, ts)
  BY SMT DEF SeedInv, Send
<1>2. /\ log' \in Seq(Nat) /\ Len(log') = Len(log) + 1
      /\ \A i \in 1..Len(log) : log'[i] = log[i]
      /\ log'[Len(log) + 1] = ts
  BY <1>1, SMT
<1>3. \A i \in DOMAIN log : StartTs <= log[i] /\ log[i] <= clock /\ log[i] \in Nat
  BY <1>1, SMT DEF SeedInv, RecordsInv
<1>4. clock \in Int
  BY SMT DEF SeedInv
<1>5. \A i \in DOMAIN log' : StartTs <= log'[i] /\ log'[i] <= clock'
  BY <1>1, <1>2, <1>3, <1>4, SMT
<1>6. LatenessBounded'
  <2>1. SUFFICES ASSUME NEW j \in DOMAIN log', NEW i \in 1..j
                 PROVE  log'[i] - log'[j] <= LateMax
    BY Zenon DEF LatenessBounded
  <2>2. CASE j \in DOMAIN log
    <3>1. i \in DOMAIN log /\ log'[i] = log[i] /\ log'[j] = log[j]
      BY <1>1, <1>2, <2>1, <2>2, SMT
    <3> QED BY <2>1, <2>2, <3>1 DEF SeedInv, RecordsInv, LatenessBounded
  <2>3. CASE j = Len(log) + 1 /\ i \in DOMAIN log
    BY <1>1, <1>2, <1>3, <1>4, <2>3, SMT
  <2>4. CASE j = Len(log) + 1 /\ i = Len(log) + 1
    BY <1>1, <1>2, <2>4, SMT
  <2> QED BY <1>1, <1>2, <2>1, <2>2, <2>3, <2>4, SMT
<1>7. log' # << >> /\ Len(log') - 1 = Len(log) /\ Len(log') <= Records
  BY <1>1, <1>2, SMT
<1> QED BY <1>2, <1>5, <1>6, <1>7 DEF RecordsInv

\* Where the next natural timestamp lies.
LEMMA NextNatural ==
  ASSUME SeedInv
  PROVE  /\ natural(Len(log)) \in Nat /\ StartTs <= natural(Len(log))
         /\ today = natural(Len(log)) \div DAY /\ today \in Nat
         /\ clock <= natural(Len(log))
         /\ NewDay => /\ log # << >> /\ StartTs <= today * DAY - 1 /\ clock <= today * DAY - 1
                      /\ today * DAY \in Nat /\ today * DAY - 1 \in Nat
                      /\ today * DAY <= natural(Len(log))
         /\ ~NewDay /\ pin_midnight # None =>
              /\ log # << >> /\ clock = pin_midnight - 1 /\ pin_midnight <= natural(Len(log))
<1> USE SeedAssumption
<1>1. Len(log) \in Nat
  BY SMT DEF SeedInv, SeedTypeOK
<1>2. natural(Len(log)) \in Nat /\ StartTs <= natural(Len(log))
  BY <1>1, NaturalMono
<1>3. today = natural(Len(log)) \div DAY /\ today \in Nat
  BY <1>2, DivDef DEF today
<1>4. CASE log = << >>
  BY <1>2, <1>3, <1>4, SMT DEF SeedInv, ClockInv, NewDay, None
<1>5. CASE log # << >>
  <2> DEFINE last == natural(Len(log) - 1)
  <2>1. Len(log) - 1 \in Nat
    BY <1>1, <1>5, SMT DEF SeedInv, SeedTypeOK
  <2>2. last \in Nat /\ StartTs <= last /\ last <= natural(Len(log))
    BY <1>1, <2>1, NaturalMono, SMT
  <2>3. prev_day = last \div DAY /\ clock <= last /\ clock \in Int
    BY <1>5, SMT DEF SeedInv, ClockInv, SeedTypeOK, None
  <2>4. NewDay => /\ today * DAY \in Nat /\ last <= today * DAY - 1
                  /\ today * DAY <= natural(Len(log))
    BY <1>2, <1>3, <2>2, <2>3, MidnightBetween DEF NewDay
  <2>5. pin_midnight # None => clock = pin_midnight - 1 /\ pin_midnight <= last /\ pin_midnight \in Nat
    BY <1>5, SMT DEF SeedInv, ClockInv, SeedTypeOK
  <2> DEFINE midnight == today * DAY
  <2>6. NewDay => /\ midnight \in Nat /\ midnight - 1 \in Nat /\ StartTs <= midnight - 1
                  /\ clock <= midnight - 1 /\ midnight <= natural(Len(log))
    <3>1. NewDay => midnight \in Nat /\ last <= midnight - 1 /\ midnight <= natural(Len(log))
      BY <2>4
    <3> HIDE DEF last, midnight
    <3> QED BY <2>2, <2>3, <3>1, SMT
  <2>7. ~NewDay /\ pin_midnight # None => clock = pin_midnight - 1 /\ pin_midnight <= natural(Len(log))
    <3> HIDE DEF last
    <3> QED BY <1>2, <2>2, <2>5, SMT DEF None
  <2>8. clock <= natural(Len(log))
    <3> HIDE DEF last
    <3> QED BY <1>2, <2>2, <2>3, SMT
  <2> QED BY <1>2, <1>3, <1>5, <2>6, <2>7, <2>8, Zenon
<1> QED BY <1>4, <1>5

LEMMA InvInit == SeedInit => SeedInv
  BY SeedAssumption, SMT DEF SeedInit, SeedInv, SeedTypeOK, ClockInv, RecordsInv, LatenessBounded, None

LEMMA InvStep == SeedInv /\ [SeedStep]_seedVars => SeedInv'
<1> SUFFICES ASSUME SeedInv, [SeedStep]_seedVars PROVE SeedInv'
  OBVIOUS
<1> USE SeedAssumption
<1>0. /\ log \in Seq(Nat) /\ Len(log) \in Nat /\ late \in Nat
      /\ clock \in Int /\ pin_midnight \in Nat \cup {None} /\ LateMax \in Nat /\ StartTs \in Nat
  BY SMT DEF SeedInv, SeedTypeOK, None
<1>1. CASE BeforeMidnight
  <2> DEFINE ts == today * DAY - 1
  <2>1. /\ NewDay /\ Send(ts) /\ MovesClock(ts) /\ late' = late
        /\ pin_midnight' = today * DAY /\ prev_day' = today
    BY <1>1 DEF BeforeMidnight, Send
  <2>2. ts \in Nat /\ StartTs <= ts /\ clock <= ts /\ today * DAY \in Nat /\ ts <= natural(Len(log))
        /\ today * DAY <= natural(Len(log))
    BY <2>1, NextNatural, SMT
  <2>3. clock' = ts
    BY <1>0, <2>1, <2>2, SMT DEF MovesClock
  <2>4. /\ RecordsInv' /\ log' \in Seq(Nat) /\ Len(log') <= Records
        /\ log' # << >> /\ Len(log') - 1 = Len(log)
    BY <1>0, <2>1, <2>2, <2>3, SendKeeps, SMT
  <2>5. ClockInv'
    <3>1. natural(Len(log') - 1) = natural(Len(log))
      BY <2>4
    <3>2. /\ prev_day' = natural(Len(log)) \div DAY
          /\ clock' \in Nat /\ StartTs <= clock' /\ clock' <= natural(Len(log))
          /\ pin_midnight' # None => clock' = pin_midnight' - 1 /\ pin_midnight' <= natural(Len(log))
      BY <1>0, <2>1, <2>2, <2>3, <2>4, NextNatural, SMT DEF None
    <3> QED BY <2>4, <3>1, <3>2, SMT DEF ClockInv, None
  <2>6. SeedTypeOK'
    <3>1. prev_day' \in Nat /\ clock' \in Nat /\ late' \in Nat /\ pin_midnight' \in Nat \cup {None}
      BY <1>0, <2>1, <2>2, <2>3, NextNatural, SMT
    <3> QED BY <2>4, <3>1 DEF SeedTypeOK
  <2> QED BY <2>4, <2>5, <2>6 DEF SeedInv
<1>2. CASE AtMidnight
  <2> DEFINE ts == pin_midnight
  <2>1. /\ ~NewDay /\ ts # None /\ Send(ts) /\ MovesClock(ts) /\ late' = late
        /\ pin_midnight' = None /\ prev_day' = today
    BY <1>2 DEF AtMidnight, Send
  <2>2. ts \in Nat /\ StartTs <= ts /\ clock = ts - 1 /\ ts <= natural(Len(log)) /\ log # << >>
    BY <1>0, <2>1, NextNatural, SMT DEF SeedInv, ClockInv
  <2>3. clock' = ts
    BY <1>0, <2>1, <2>2, SMT DEF MovesClock
  <2>4. /\ RecordsInv' /\ log' \in Seq(Nat) /\ Len(log') <= Records
        /\ log' # << >> /\ Len(log') - 1 = Len(log)
    BY <1>0, <2>1, <2>2, <2>3, SendKeeps, SMT
  <2>5. ClockInv'
    <3>1. natural(Len(log') - 1) = natural(Len(log))
      BY <2>4
    <3>2. /\ prev_day' = natural(Len(log)) \div DAY
          /\ clock' \in Nat /\ StartTs <= clock' /\ clock' <= natural(Len(log))
          /\ pin_midnight' # None => clock' = pin_midnight' - 1 /\ pin_midnight' <= natural(Len(log))
      BY <1>0, <2>1, <2>2, <2>3, <2>4, NextNatural, SMT DEF None
    <3> QED BY <2>4, <3>1, <3>2, SMT DEF ClockInv, None
  <2>6. SeedTypeOK'
    <3>1. prev_day' \in Nat /\ clock' \in Nat /\ late' \in Nat /\ pin_midnight' \in Nat \cup {None}
      BY <1>0, <2>1, <2>2, <2>3, NextNatural, SMT
    <3> QED BY <2>4, <3>1 DEF SeedTypeOK
  <2> QED BY <2>4, <2>5, <2>6 DEF SeedInv
<1>3. CASE OnTime
  <2> DEFINE ts == natural(Len(log))
  <2>1. /\ ~NewDay /\ pin_midnight = None /\ Send(ts) /\ MovesClock(ts) /\ late' = late
        /\ pin_midnight' = None /\ prev_day' = today
    BY <1>3 DEF OnTime, Send
  <2>2. ts \in Nat /\ StartTs <= ts /\ clock <= ts /\ today = ts \div DAY /\ today \in Nat
    BY NextNatural
  <2> HIDE DEF ts
  <2>3. clock' = ts
    BY <1>0, <2>1, <2>2, SMT DEF MovesClock
  <2>4. /\ RecordsInv' /\ log' \in Seq(Nat) /\ Len(log') <= Records
        /\ log' # << >> /\ Len(log') - 1 = Len(log)
    BY <1>0, <2>1, <2>2, <2>3, SendKeeps, SMT
  <2>5. ClockInv'
    <3>1. natural(Len(log') - 1) = natural(Len(log))
      BY <2>4
    <3>2. /\ prev_day' = natural(Len(log)) \div DAY
          /\ clock' \in Nat /\ StartTs <= clock' /\ clock' <= natural(Len(log))
          /\ pin_midnight' # None => clock' = pin_midnight' - 1 /\ pin_midnight' <= natural(Len(log))
      BY <1>0, <2>1, <2>2, <2>3, <2>4, NextNatural, SMT DEF None, ts
    <3> QED BY <2>4, <3>1, <3>2, SMT DEF ClockInv, None
  <2>6. SeedTypeOK'
    <3>1. prev_day' \in Nat /\ clock' \in Nat /\ late' \in Nat /\ pin_midnight' \in Nat \cup {None}
      BY <1>0, <2>1, <2>2, <2>3, SMT
    <3> QED BY <2>4, <3>1 DEF SeedTypeOK
  <2> QED BY <2>4, <2>5, <2>6 DEF SeedInv
<1>4. CASE LateRecord
  <2>1. PICK lag \in HOUR..LateMax : Send(clock - lag)
    BY <1>4 DEF LateRecord
  <2>2. /\ ~NewDay /\ pin_midnight = None /\ clock # None /\ clock - StartTs > LateMax
        /\ late' = late + 1 /\ clock' = clock /\ pin_midnight' = pin_midnight /\ prev_day' = today
    BY <1>4, <2>1 DEF LateRecord, Send
  <2> DEFINE ts == clock - lag
  <2>3. ts \in Nat /\ StartTs <= ts /\ ts <= clock /\ clock - LateMax <= ts /\ clock \in Nat
    BY <1>0, <2>1, <2>2, SMT
  <2> HIDE DEF ts
  <2>4. /\ RecordsInv' /\ log' \in Seq(Nat) /\ Len(log') <= Records
        /\ log' # << >> /\ Len(log') - 1 = Len(log)
    BY <1>0, <2>1, <2>2, <2>3, SendKeeps, SMT DEF ts
  <2>5. ClockInv'
    <3>1. natural(Len(log') - 1) = natural(Len(log))
      BY <2>4
    <3>2. /\ prev_day' = natural(Len(log)) \div DAY
          /\ clock' \in Nat /\ StartTs <= clock' /\ clock' <= natural(Len(log))
          /\ pin_midnight' # None => clock' = pin_midnight' - 1 /\ pin_midnight' <= natural(Len(log))
      BY <1>0, <2>2, <2>3, <2>4, NextNatural, SMT DEF None
    <3> QED BY <2>4, <3>1, <3>2, SMT DEF ClockInv, None
  <2>6. SeedTypeOK'
    BY <1>0, <2>2, <2>3, <2>4, NextNatural, SMT DEF SeedTypeOK
  <2> QED BY <2>4, <2>5, <2>6 DEF SeedInv
<1>5. CASE UNCHANGED seedVars
  BY <1>5 DEF seedVars, SeedInv, SeedTypeOK, ClockInv, RecordsInv, LatenessBounded
<1> QED BY <1>1, <1>2, <1>3, <1>4, <1>5 DEF SeedStep

-----------------------------------------------------------------------------
\* What the invariant says of the records.
LEMMA InvGivesProperties == SeedInv => SeedTypeOK /\ LatenessBounded /\ InSpan
<1> SUFFICES ASSUME SeedInv PROVE InSpan
  BY DEF SeedInv, RecordsInv
<1>1. SUFFICES ASSUME NEW i \in DOMAIN log PROVE StartTs <= log[i] /\ log[i] <= EndTs
  BY DEF InSpan
<1>2. log \in Seq(Nat) /\ Len(log) \in Nat /\ Len(log) <= Records /\ log # << >> /\ log[i] \in Nat
  BY <1>1, SMT DEF SeedInv, SeedTypeOK
<1>3. Len(log) - 1 \in Nat /\ Len(log) - 1 <= Records
  BY <1>2, SeedAssumption, SMT
<1>4. natural(Len(log) - 1) <= EndTs /\ natural(Len(log) - 1) \in Nat
  BY <1>3, NaturalInSpan, NaturalMono
<1>5. StartTs <= log[i] /\ log[i] <= clock /\ clock <= natural(Len(log) - 1) /\ clock \in Int
  BY <1>1, <1>2, SMT DEF SeedInv, ClockInv, RecordsInv, SeedTypeOK, None
<1> QED BY <1>2, <1>4, <1>5, SeedAssumption, SMT

-----------------------------------------------------------------------------
(* The late cohort.  The records behind an earlier one are those that were  *)
(* produced late: the clock is a timestamp of the log, a late record is     *)
(* strictly behind it, any other at or past it.                             *)

behind == {i \in DOMAIN log : \E j \in 1..(i - 1) : log[j] > log[i]}

CohortInv ==
  /\ log # << >> => \E j \in DOMAIN log : log[j] = clock
  /\ Cardinality(behind) = late

\* The record that is sent is behind just if it is older than the clock.
LEMMA SendBehind ==
  ASSUME SeedInv, CohortInv, NEW ts \in Nat, Send(ts)
  PROVE  /\ Len(log) + 1 \notin behind /\ IsFiniteSet(behind)
         /\ behind' = IF ts < clock THEN behind \cup {Len(log) + 1} ELSE behind
<1>1. /\ log \in Seq(Nat) /\ Len(log) \in Nat /\ log' = Append(log, ts) /\ clock \in Int
  BY SMT DEF SeedInv, SeedTypeOK, Send, None
<1>2. /\ log' \in Seq(Nat) /\ DOMAIN log = 1..Len(log) /\ DOMAIN log' = 1..(Len(log) + 1)
      /\ \A i \in 1..Len(log) : log'[i] = log[i] /\ log[i] \in Nat
      /\ log'[Len(log) + 1] = ts
  BY <1>1, SMT
<1>3. Len(log) + 1 \notin behind
  BY <1>1, <1>2, SMT DEF behind
<1>4. IsFiniteSet(behind)
  <2>1. IsFiniteSet(1..Len(log))
    BY <1>1, FS_Interval, SMT
  <2>2. behind \in SUBSET (1..Len(log))
    BY <1>2 DEF behind
  <2> QED BY <2>1, <2>2, FS_Subset
<1>5. \A i \in 1..Len(log) : i \in behind' <=> i \in behind
  <2>1. SUFFICES ASSUME NEW i \in 1..Len(log) PROVE i \in behind' <=> i \in behind
    OBVIOUS
  <2>2. \A j \in 1..(i - 1) : log'[j] = log[j] /\ log'[i] = log[i]
    BY <1>1, <1>2, <2>1, SMT
  <2>3. i \in DOMAIN log /\ i \in DOMAIN log'
    BY <1>1, <1>2, <2>1, SMT
  <2> QED BY <2>2, <2>3 DEF behind
<1>6. Len(log) + 1 \in behind' <=> ts < clock
  <2>1. Len(log) + 1 \in behind' <=> \E j \in 1..Len(log) : log[j] > ts
    <3>1. (Len(log) + 1) - 1 = Len(log) /\ Len(log) + 1 \in DOMAIN log'
      BY <1>1, <1>2, SMT
    <3>2. Len(log) + 1 \in behind' <=> \E j \in 1..Len(log) : log'[j] > log'[Len(log) + 1]
      BY <3>1 DEF behind
    <3> QED BY <1>2, <3>2
  <2>2. ASSUME NEW j \in 1..Len(log), log[j] > ts PROVE ts < clock
    BY <1>1, <1>2, <2>2, SMT DEF SeedInv, RecordsInv
  <2>3. ASSUME ts < clock PROVE \E j \in 1..Len(log) : log[j] > ts
    <3>1. log # << >>
      BY <2>3, SMT DEF SeedInv, ClockInv, None
    <3>2. PICK j \in DOMAIN log : log[j] = clock
      BY <3>1 DEF CohortInv
    <3> QED BY <1>1, <1>2, <2>3, <3>2, SMT
  <2> QED BY <2>1, <2>2, <2>3
<1>7. behind' \subseteq 1..(Len(log) + 1) /\ behind \subseteq 1..Len(log)
  BY <1>2 DEF behind
<1>8. \A i \in 1..(Len(log) + 1) : i \in 1..Len(log) \/ i = Len(log) + 1
  BY <1>1, SMT
<1>9. CASE ts < clock
  <2>1. behind' = behind \cup {Len(log) + 1}
    BY <1>5, <1>6, <1>7, <1>8, <1>9
  <2> QED BY <1>3, <1>4, <1>9, <2>1
<1>10. CASE ~(ts < clock)
  <2>1. behind' = behind
    BY <1>5, <1>6, <1>7, <1>8, <1>10
  <2> QED BY <1>3, <1>4, <1>10, <2>1
<1> QED BY <1>9, <1>10

\* The clock after a record is a timestamp of the log.
LEMMA SendClock ==
  ASSUME SeedInv, CohortInv, NEW ts \in Nat, Send(ts),
         clock' = ts \/ (clock' = clock /\ clock # None)
  PROVE  \E j \in DOMAIN log' : log'[j] = clock'
<1>1. /\ log \in Seq(Nat) /\ Len(log) \in Nat /\ log' = Append(log, ts)
      /\ log # << >> <=> clock # None
  BY SMT DEF SeedInv, SeedTypeOK, Send, ClockInv
<1>2. /\ DOMAIN log = 1..Len(log) /\ DOMAIN log' = 1..(Len(log) + 1)
      /\ \A i \in 1..Len(log) : log'[i] = log[i] /\ i \in 1..(Len(log) + 1)
      /\ log'[Len(log) + 1] = ts /\ Len(log) + 1 \in 1..(Len(log) + 1)
  BY <1>1, SMT
<1>3. CASE clock' = ts
  BY <1>2, <1>3
<1>4. CASE clock' = clock /\ clock # None
  <2>1. PICK j \in DOMAIN log : log[j] = clock
    BY <1>1, <1>4 DEF CohortInv
  <2> QED BY <1>2, <1>4, <2>1
<1> QED BY <1>3, <1>4

\* A record that is not late.
LEMMA TimelyKeepsCohort ==
  ASSUME SeedInv, CohortInv, NEW ts \in Nat, Send(ts), MovesClock(ts), late' = late, clock <= ts
  PROVE  CohortInv'
<1>1. ~(ts < clock) /\ clock' = ts
  BY SMT DEF SeedInv, SeedTypeOK, None, MovesClock
<1>2. behind' = behind
  BY <1>1, SendBehind
<1>3. \E j \in DOMAIN log' : log'[j] = clock'
  BY <1>1, SendClock
<1> QED BY <1>2, <1>3 DEF CohortInv

LEMMA CohortInit == SeedInit => CohortInv
<1> SUFFICES ASSUME SeedInit PROVE CohortInv
  OBVIOUS
<1>1. log = << >> /\ late = 0
  BY DEF SeedInit
<1>2. behind = {}
  BY <1>1, SMT DEF behind
<1> QED BY <1>1, <1>2, FS_EmptySet DEF CohortInv

LEMMA CohortStep == SeedInv /\ CohortInv /\ [SeedStep]_seedVars => CohortInv'
<1> SUFFICES ASSUME SeedInv, CohortInv, [SeedStep]_seedVars PROVE CohortInv'
  OBVIOUS
<1>0. clock \in Int /\ late \in Nat /\ pin_midnight \in Nat \cup {None} /\ LateMax \in Nat
      /\ StartTs \in Nat /\ HOUR \in Nat \ {0}
  BY SeedAssumption, SMT DEF SeedInv, SeedTypeOK, None
<1>1. CASE BeforeMidnight
  <2>1. NewDay /\ Send(today * DAY - 1) /\ MovesClock(today * DAY - 1) /\ late' = late
    BY <1>1 DEF BeforeMidnight
  <2>2. today * DAY - 1 \in Nat /\ clock <= today * DAY - 1
    BY <2>1, NextNatural
  <2> QED BY <2>1, <2>2, TimelyKeepsCohort
<1>2. CASE AtMidnight
  <2>1. ~NewDay /\ pin_midnight # None /\ Send(pin_midnight) /\ MovesClock(pin_midnight) /\ late' = late
    BY <1>2 DEF AtMidnight
  <2>2. pin_midnight \in Nat /\ clock <= pin_midnight
    BY <1>0, <2>1, NextNatural, SMT
  <2> QED BY <2>1, <2>2, TimelyKeepsCohort
<1>3. CASE OnTime
  <2>1. Send(natural(Len(log))) /\ MovesClock(natural(Len(log))) /\ late' = late
    BY <1>3 DEF OnTime
  <2>2. natural(Len(log)) \in Nat /\ clock <= natural(Len(log))
    BY NextNatural
  <2> QED BY <2>1, <2>2, TimelyKeepsCohort
<1>4. CASE LateRecord
  <2>1. PICK lag \in HOUR..LateMax : Send(clock - lag)
    BY <1>4 DEF LateRecord
  <2>2. clock # None /\ clock - StartTs > LateMax /\ late' = late + 1 /\ clock' = clock
    BY <1>4 DEF LateRecord
  <2>3. clock - lag \in Nat /\ clock - lag < clock
    BY <1>0, <2>1, <2>2, SMT
  <2>4. /\ Len(log) + 1 \notin behind /\ IsFiniteSet(behind)
        /\ behind' = behind \cup {Len(log) + 1}
    BY <2>1, <2>3, SendBehind
  <2>5. Cardinality(behind') = late'
    BY <2>2, <2>4, FS_AddElement DEF CohortInv
  <2>6. \E j \in DOMAIN log' : log'[j] = clock'
    BY <2>1, <2>2, <2>3, SendClock
  <2> QED BY <2>5, <2>6 DEF CohortInv
<1>5. CASE UNCHANGED seedVars
  <2>1. behind' = behind /\ UNCHANGED <<log, clock, late>>
    BY <1>5 DEF seedVars, behind
  <2> QED BY <2>1 DEF CohortInv
<1> QED BY <1>1, <1>2, <1>3, <1>4, <1>5 DEF SeedStep

\* Phase 20 counts the late records, and none is past the end of the seed.
LEMMA CohortIsAccepted ==
  ASSUME SeedInv, CohortInv
  PROVE  only_late_cohort_goes_backwards /\ nothing_after_seed_end
<1>1. only_late_cohort_goes_backwards
  BY DEF CohortInv, behind, only_late_cohort_goes_backwards, backwards_steps
<1>2. nothing_after_seed_end
  BY InvGivesProperties DEF InSpan, nothing_after_seed_end
<1> QED BY <1>1, <1>2

-----------------------------------------------------------------------------
\* The inductive invariant of the seeder, seed.py:125-147.
THEOREM SeedInvariant == SeedSpec => []SeedInv
  BY InvInit, InvStep, PTL DEF SeedSpec

\* Type correctness of the seeder.
THEOREM SeedTypeCorrect == SeedSpec => []SeedTypeOK
  BY SeedInvariant, InvGivesProperties, PTL

\* No record is more than LateMax behind any record before it, whatever is
\* drawn and however few records fall on a day (seed.py:129-146).
THEOREM LatenessIsBounded == SeedSpec => []LatenessBounded
  BY SeedInvariant, InvGivesProperties, PTL

\* Every record is in the seeded span (seed.py:126, 141).
THEOREM RecordsAreInSpan == SeedSpec => []InSpan
  BY SeedInvariant, InvGivesProperties, PTL


-----------------------------------------------------------------------------
(* Least and greatest elements. *)

\* A set of natural numbers has a least element.
LEMMA LeastElement ==
  ASSUME NEW T \in SUBSET Nat, T # {}
  PROVE  \E x \in T : \A y \in T : x <= y
<1>1. PICK x \in T : \A y \in T : ~ (<<y, x>> \in OpToRel(<, Nat))
  BY NatLessThanWellFounded, WFMin
<1>2. ASSUME NEW y \in T PROVE ~(y < x)
  BY <1>1 DEF OpToRel
<1> QED BY <1>2, SMT

LEMMA MinOfSet ==
  ASSUME NEW T \in SUBSET Nat, T # {}
  PROVE  Min(T) \in T /\ \A y \in T : Min(T) <= y
  BY LeastElement DEF Min

\* A bounded one has a greatest: its least upper bound.
LEMMA MaxOfSet ==
  ASSUME NEW T \in SUBSET Nat, T # {}, NEW n \in Nat, \A y \in T : y <= n
  PROVE  Max(T) \in T /\ \A y \in T : y <= Max(T)
<1> DEFINE bounds == {m \in Nat : \A y \in T : y <= m}
<1>0. bounds \in SUBSET Nat /\ n \in bounds
  OBVIOUS
<1>1. PICK m \in bounds : \A k \in bounds : m <= k
  BY <1>0, LeastElement, Zenon
<1>2. m \in Nat /\ \A y \in T : y <= m
  BY <1>1
<1>3. m \in T
  <2>1. SUFFICES ASSUME m \notin T PROVE FALSE
    OBVIOUS
  <2>2. \A y \in T : y <= m - 1
    BY <1>2, <2>1, SMT
  <2>3. m - 1 \in Nat
    <3>1. PICK y \in T : TRUE
      OBVIOUS
    <3>2. 0 <= y /\ y <= m - 1 /\ y \in Nat
      BY <2>2, <3>1, SMT
    <3> QED BY <1>2, <3>2, SMT
  <2>4. m - 1 \in bounds
    BY <2>2, <2>3
  <2> QED BY <1>1, <1>2, <2>3, <2>4, SMT
<1>4. \A y \in T : m >= y
  BY <1>2, SMT
<1>5. Max(T) \in T /\ \A y \in T : Max(T) >= y
  BY <1>3, <1>4, Zenon DEF Max
<1> QED BY <1>5, SMT

-----------------------------------------------------------------------------
(* Segments and the padded window. *)

Cut == cuts \subseteq DOMAIN log /\ 1 \in cuts

\* A record's segment starts at or before it and ends at or after it.
LEMMA SegmentAround ==
  ASSUME log \in Seq(Nat), Cut, NEW o \in DOMAIN log
  PROVE  /\ seg_first(o) \in DOMAIN log /\ seg_first(o) <= o
         /\ seg_last(o) \in DOMAIN log /\ o <= seg_last(o)
<1> DEFINE before == {c \in cuts : c <= o}
           later  == {c \in cuts : c > o}
<1>1. /\ Len(log) \in Nat /\ DOMAIN log = 1..Len(log) /\ o \in Nat /\ 1 <= o /\ o <= Len(log)
      /\ cuts \subseteq Nat /\ 1 \in cuts /\ \A c \in cuts : 1 <= c /\ c <= Len(log)
  BY SMT DEF Cut
<1>2. before \in SUBSET Nat /\ before # {} /\ \A c \in before : c <= o /\ c \in cuts
  BY <1>1
<1>3. Max(before) \in before
  BY <1>1, <1>2, MaxOfSet
<1>4. seg_first(o) \in cuts /\ seg_first(o) <= o
  BY <1>2, <1>3 DEF seg_first
<1>5. seg_first(o) \in DOMAIN log
  BY <1>4 DEF Cut
<1>6. CASE later = {}
  <2>1. seg_last(o) = Len(log)
    BY <1>6 DEF seg_last
  <2> QED BY <1>1, <1>4, <1>5, <2>1
<1>7. CASE later # {}
  <2>1. later \in SUBSET Nat /\ \A c \in later : c > o /\ c \in cuts
    BY <1>1
  <2>2. Min(later) \in later
    BY <1>7, <2>1, MinOfSet
  <2>3. seg_last(o) = Min(later) - 1
    BY <1>7 DEF seg_last
  <2>4. Min(later) \in Nat /\ Min(later) > o /\ Min(later) <= Len(log)
    BY <1>1, <2>1, <2>2
  <2>5. seg_last(o) \in 1..Len(log) /\ o <= seg_last(o)
    BY <1>1, <2>3, <2>4, SMT
  <2> QED BY <1>1, <1>4, <1>5, <2>5
<1> QED BY <1>6, <1>7

\* The pads outweigh the lateness: no record of the audit month is excluded by
\* the bounds of its segment.
LEMMA PaddedWindowSelects ==
  ASSUME log \in Seq(Nat), LatenessBounded, Cut, NEW o \in DOMAIN log,
         audit_start <= log[o], log[o] < audit_end_exclusive
  PROVE  o \in Selected(audit_window)
<1> DEFINE w == audit_window
<1>1. audit_start \in Int /\ audit_end_exclusive \in Int /\ LateMax \in Nat
  BY SeedAssumption, RestoreAssumption, SMT DEF audit_start, audit_end_exclusive, day_of
<1>2. w.ws = {audit_start - LateMax} /\ w.we = {audit_end_exclusive - 1 + LateMax}
  BY DEF audit_window
<1>3. /\ seg_first(o) \in DOMAIN log /\ seg_first(o) <= o
      /\ seg_last(o) \in DOMAIN log /\ o <= seg_last(o)
  BY SegmentAround
<1>4. log[o] \in Nat /\ s_start(o) \in Nat /\ s_end(o) \in Nat
  BY <1>3, SMT DEF s_start, s_end
<1>5. s_start(o) - log[o] <= LateMax /\ log[o] - s_end(o) <= LateMax
  BY <1>3 DEF LatenessBounded, s_start, s_end
<1> HIDE DEF w
<1>6. InWindow(log[o], w)
  BY <1>1, <1>2, <1>4, SMT DEF InWindow
<1>7. ~Excluded(o, w)
  BY <1>1, <1>2, <1>4, <1>5, SMT DEF Excluded
<1> QED BY <1>6, <1>7 DEF Selected, w

-----------------------------------------------------------------------------
(* The invariant: while an audit restore runs without a fault, every        *)
(* selected record is on the target or still to come.                       *)

Target == [records : Seq([orig : Nat, ts : Nat]), complete : BOOLEAN]

Restored(t, o) == \E i \in DOMAIN t.records : t.records[i].orig = o

PhaseInv ==
  /\ faults \in Nat /\ todo \subseteq DOMAIN log /\ target \subseteq Target
  /\ pc \in {"seed", "backup", "rejected"} => kind = "none" /\ target = {} /\ todo = {}
  /\ pc = "backup" => Len(log) = Records
  /\ pc \notin {"seed", "backup", "rejected"} => Cut

AuditInv ==
  kind = "audit" /\ faults = 0 =>
    \A t \in target :
      /\ t.complete => pc # "restore"
      /\ pc = "restore" \/ t.complete =>
           \A o \in Selected(audit_window) : (pc = "restore" /\ o \in todo) \/ Restored(t, o)

RestoreInv == SeedInv /\ PhaseInv /\ AuditInv

-----------------------------------------------------------------------------
(* What the steps use again and again. *)

LEMMA InvTypes ==
  ASSUME RestoreInv
  PROVE  /\ log \in Seq(Nat) /\ Len(log) \in Nat /\ faults \in Nat
         /\ todo \subseteq DOMAIN log /\ target \subseteq Target
  BY SMT DEF RestoreInv, SeedInv, SeedTypeOK, PhaseInv

\* The selection changes only with the log and the cuts.
LEMMA SelectedUnchanged ==
  ASSUME UNCHANGED log, UNCHANGED cuts
  PROVE  Selected(audit_window)' = Selected(audit_window)
  BY DEF Selected, Excluded, InWindow, s_start, s_end, seg_first, seg_last,
         audit_window, audit_start, audit_end_exclusive, day_of

\* Appending to a sequence adds one index and keeps the others.
LEMMA AppendTo ==
  ASSUME NEW R, NEW s \in Seq(R), NEW r \in R
  PROVE  /\ Append(s, r) \in Seq(R)
         /\ DOMAIN Append(s, r) = 1..(Len(s) + 1) /\ Append(s, r)[Len(s) + 1] = r
         /\ Len(s) + 1 \in DOMAIN Append(s, r)
         /\ \A i \in DOMAIN s : i \in DOMAIN Append(s, r) /\ Append(s, r)[i] = s[i]
<1>1. /\ Append(s, r) \in Seq(R) /\ Len(s) \in Nat
      /\ Len(Append(s, r)) = Len(s) + 1
      /\ DOMAIN Append(s, r) = 1..Len(Append(s, r))
      /\ DOMAIN s = 1..Len(s)
      /\ Append(s, r)[Len(s) + 1] = r
      /\ \A i \in 1..Len(s) : Append(s, r)[i] = s[i]
  BY AppendProperties, LenProperties
<1>2. Len(s) + 1 \in 1..(Len(s) + 1) /\ \A i \in 1..Len(s) : i \in 1..(Len(s) + 1)
  BY <1>1, SMT
<1>3. DOMAIN Append(s, r) = 1..(Len(s) + 1)
  BY <1>1
<1> QED BY <1>1, <1>2, <1>3, Zenon

\* Appending a record to a topic restores it and keeps what was there.
LEMMA WriteRestores ==
  ASSUME RestoreInv, NEW o \in DOMAIN log, NEW t \in Target,
         NEW u, u = [t EXCEPT !.records = Append(t.records, source[o])]
  PROVE  /\ u \in Target /\ u.complete = t.complete
         /\ Restored(u, o)
         /\ \A q : Restored(t, q) => Restored(u, q)
<1>1. log[o] \in Nat /\ o \in Nat
  BY InvTypes
<1> DEFINE r == [orig |-> o, ts |-> log[o]]
<1>2. r \in [orig : Nat, ts : Nat] /\ r.orig = o
  BY <1>1
<1>3. source[o] = r
  BY DEF source
<1>4. t.records \in Seq([orig : Nat, ts : Nat]) /\ t.complete \in BOOLEAN
      /\ t = [records |-> t.records, complete |-> t.complete]
  BY DEF Target
<1> DEFINE rs == Append(t.records, r)
<1> HIDE DEF r
<1>5. u = [records |-> rs, complete |-> t.complete]
  BY <1>3, <1>4, Zenon
<1>6. u.records = rs /\ u.complete = t.complete
  BY <1>5
<1>7. /\ rs \in Seq([orig : Nat, ts : Nat])
      /\ DOMAIN rs = 1..(Len(t.records) + 1) /\ rs[Len(t.records) + 1] = r
      /\ Len(t.records) + 1 \in DOMAIN rs
      /\ \A i \in DOMAIN t.records : i \in DOMAIN rs /\ rs[i] = t.records[i]
  BY <1>2, <1>4, AppendTo
<1> HIDE DEF rs
<1>8. u \in Target
  <2>1. rs \in Seq([orig : Nat, ts : Nat]) /\ t.complete \in BOOLEAN
    BY <1>4, <1>7
  <2>2. [records |-> rs, complete |-> t.complete] \in Target
    BY <2>1, Zenon DEF Target
  <2> QED BY <1>5, <2>2
<1>9. Restored(u, o)
  BY <1>2, <1>6, <1>7 DEF Restored
<1>10. ASSUME NEW q, Restored(t, q) PROVE Restored(u, q)
  BY <1>6, <1>7, <1>10 DEF Restored
<1> QED BY <1>6, <1>8, <1>9, <1>10

-----------------------------------------------------------------------------
(* The invariant holds at first and after every step. *)

LEMMA RestoreInit == Init => RestoreInv
<1> SUFFICES ASSUME Init PROVE RestoreInv
  OBVIOUS
<1>1. SeedInv
  BY InvInit DEF Init
<1> QED BY <1>1 DEF Init, RestoreInv, PhaseInv, AuditInv

\* A step that leaves topic, window, cuts, faults and target alone, and from or to
\* "restore" not at all, keeps the invariant.
LEMMA QuietStep ==
  ASSUME RestoreInv, UNCHANGED <<seedVars, kind, target, todo, faults>>,
         pc' \in {"since", "idle", "reset", "verify", "ended"}, pc # "restore", Cut', target = {} \/ UNCHANGED cuts
  PROVE  RestoreInv'
<1>1. SeedInv'
  BY InvStep DEF RestoreInv
<1>2. PhaseInv'
  BY DEF RestoreInv, PhaseInv, Target, seedVars, Cut
<1>3. AuditInv'
  <2>1. CASE target = {}
    BY <2>1 DEF AuditInv
  <2>2. CASE UNCHANGED cuts
    <3>1. Selected(audit_window)' = Selected(audit_window)
      BY <2>2, SelectedUnchanged DEF seedVars
    <3> QED BY <3>1 DEF AuditInv, RestoreInv, Restored
  <2> QED BY <2>1, <2>2
<1> QED BY <1>1, <1>2, <1>3 DEF RestoreInv

LEMMA SeedKeeps == RestoreInv /\ Seed => RestoreInv'
<1> SUFFICES ASSUME RestoreInv, Seed PROVE RestoreInv'
  OBVIOUS
<1>1. SeedInv'
  BY InvStep DEF RestoreInv, Seed
<1>2. pc = "seed" /\ target = {} /\ todo = {} /\ kind = "none"
  BY DEF RestoreInv, PhaseInv, Seed
<1>3. /\ pc' = "seed" /\ target' = {} /\ todo' = {} /\ kind' = "none" /\ faults' = faults
  BY <1>2 DEF Seed, restoreVars
<1> QED BY <1>1, <1>3 DEF RestoreInv, PhaseInv, AuditInv

LEMMA BaselineKeeps == RestoreInv /\ Baseline => RestoreInv'
<1> SUFFICES ASSUME RestoreInv, Baseline PROVE RestoreInv'
  OBVIOUS
<1>1. SeedInv'
  BY InvStep DEF RestoreInv, Baseline
<1>2. /\ pc' \in {"backup", "rejected"} /\ Len(log') = Records
      /\ target' = {} /\ todo' = {} /\ kind' = "none" /\ faults' = faults
  <2>1. pc = "seed" /\ Len(log) = Records /\ UNCHANGED seedVars /\ UNCHANGED restoreVars
    BY DEF Baseline
  <2>2. pc' = "backup" \/ pc' = "rejected"
    BY DEF Baseline
  <2>3. target = {} /\ todo = {} /\ kind = "none"
    BY <2>1 DEF RestoreInv, PhaseInv
  <2> QED BY <2>1, <2>2, <2>3 DEF restoreVars, seedVars
<1> QED BY <1>1, <1>2 DEF RestoreInv, PhaseInv, AuditInv

LEMMA BackupKeeps == RestoreInv /\ Backup => RestoreInv'
<1> SUFFICES ASSUME RestoreInv, Backup PROVE RestoreInv'
  OBVIOUS
<1>1. pc = "backup" /\ UNCHANGED <<seedVars, target, todo, faults>> /\ pc' \in {"since", "idle"}
  BY DEF Backup
<1>2. target = {} /\ todo = {} /\ Len(log) = Records
  BY <1>1 DEF RestoreInv, PhaseInv
<1>3. PICK f \in [1..(MaxSegments - 1) -> DOMAIN log] : cuts' = {1} \cup Range(f)
  BY DEF Backup
<1>4. 1 \in DOMAIN log
  BY <1>2, InvTypes, SeedAssumption, SMT
<1>5. Range(f) \subseteq DOMAIN log
  BY <1>3 DEF Range
<1>6. Cut'
  BY <1>1, <1>3, <1>4, <1>5 DEF Cut, seedVars
<1>7. SeedInv'
  BY <1>1, InvStep DEF RestoreInv
<1>8. target' = {} /\ todo' = {} /\ faults' \in Nat
  BY <1>1, <1>2, InvTypes
<1> QED BY <1>1, <1>6, <1>7, <1>8 DEF RestoreInv, PhaseInv, AuditInv

LEMMA ArchiveSinceKeeps == RestoreInv /\ ArchiveSince => RestoreInv'
<1> SUFFICES ASSUME RestoreInv, ArchiveSince PROVE RestoreInv'
  OBVIOUS
<1>1. /\ pc = "since" /\ pc' \in {"idle", "ended"}
      /\ UNCHANGED <<seedVars, cuts, kind, target, todo, faults>>
  BY DEF ArchiveSince
<1>2. Cut'
  BY <1>1 DEF RestoreInv, PhaseInv, Cut, seedVars
<1> QED BY <1>1, <1>2, QuietStep

LEMMA StartRestoreKeeps == RestoreInv /\ StartRestore => RestoreInv'
<1> SUFFICES ASSUME RestoreInv, StartRestore PROVE RestoreInv'
  OBVIOUS
<1> DEFINE t == [records |-> << >>, complete |-> FALSE]
<1>1. /\ pc = "idle" /\ pc' = "restore" /\ target' = {t}
      /\ UNCHANGED <<seedVars, cuts, kind, faults>>
  BY DEF StartRestore
<1>2. PICK w \in windows(kind) : todo' = Selected(w)
  BY DEF StartRestore
<1>3. SeedInv'
  BY <1>1, InvStep DEF RestoreInv
<1>4. Cut'
  BY <1>1 DEF RestoreInv, PhaseInv, Cut, seedVars
<1>5. PhaseInv'
  <2>1. t \in Target
    <3>1. << >> \in Seq([orig : Nat, ts : Nat])
      BY SMT
    <3> QED BY <3>1 DEF Target
  <2>2. todo' \subseteq DOMAIN log /\ log' = log
    BY <1>1, <1>2 DEF Selected, seedVars
  <2>3. target' \subseteq Target'
    BY <1>1, <2>1 DEF Target
  <2> QED BY <1>1, <1>4, <2>2, <2>3, InvTypes DEF PhaseInv
<1>6. AuditInv'
  <2>1. SUFFICES ASSUME kind = "audit" PROVE AuditInv'
    BY <1>1 DEF AuditInv
  <2>2. todo' = Selected(audit_window)
    BY <1>2, <2>1 DEF windows
  <2>3. todo' = Selected(audit_window)'
    BY <1>1, <2>2, SelectedUnchanged DEF seedVars
  <2> QED BY <1>1, <2>3 DEF AuditInv
<1> QED BY <1>3, <1>5, <1>6 DEF RestoreInv

LEMMA RestoreRecordKeeps == RestoreInv /\ RestoreRecord => RestoreInv'
<1> SUFFICES ASSUME RestoreInv, RestoreRecord PROVE RestoreInv'
  OBVIOUS
<1>1. pc = "restore" /\ UNCHANGED <<seedVars, cuts, kind, faults, pc>>
  BY DEF RestoreRecord
<1>2. PICK o \in todo : Write(o) /\ todo' = todo \ {o}
  BY DEF RestoreRecord
<1>3. PICK t \in target : target' = {[t EXCEPT !.records = Append(t.records, source[o])]}
  BY <1>2 DEF Write
<1> DEFINE u == [t EXCEPT !.records = Append(t.records, source[o])]
<1>4. o \in DOMAIN log /\ t \in Target
  BY <1>2, <1>3, InvTypes
<1>5. u \in Target /\ u.complete = t.complete /\ Restored(u, o)
      /\ \A q : Restored(t, q) => Restored(u, q)
  BY <1>4, WriteRestores
<1>6. target' = {u}
  BY <1>3
<1> HIDE DEF u
<1>7. SeedInv'
  BY <1>1, InvStep DEF RestoreInv
<1>8. PhaseInv'
  <2>1. Cut'
    BY <1>1 DEF RestoreInv, PhaseInv, Cut, seedVars
  <2>2. todo' \subseteq DOMAIN log /\ log' = log
    BY <1>1, <1>2, InvTypes DEF seedVars
  <2>3. target' \subseteq Target'
    BY <1>5, <1>6 DEF Target
  <2> QED BY <1>1, <2>1, <2>2, <2>3, InvTypes DEF PhaseInv
<1>9. AuditInv'
  <2>1. SUFFICES ASSUME kind = "audit", faults = 0 PROVE AuditInv'
    BY <1>1 DEF AuditInv
  <2>2. /\ ~t.complete
        /\ \A q \in Selected(audit_window) : q \in todo \/ Restored(t, q)
    BY <1>1, <1>3, <2>1 DEF RestoreInv, AuditInv
  <2>3. \A q \in Selected(audit_window) : q \in todo' \/ Restored(u, q)
    BY <1>2, <1>5, <2>2
  <2>4. Selected(audit_window)' = Selected(audit_window)
    BY <1>1, SelectedUnchanged DEF seedVars
  <2>5. ~u.complete
    BY <1>5, <2>2
  <2>6. \A v \in target' : v = u
    BY <1>6
  <2> QED BY <1>1, <2>3, <2>4, <2>5, <2>6 DEF AuditInv, Restored
<1> QED BY <1>7, <1>8, <1>9 DEF RestoreInv

LEMMA RestoreDoneKeeps == RestoreInv /\ RestoreDone => RestoreInv'
<1> SUFFICES ASSUME RestoreInv, RestoreDone PROVE RestoreInv'
  OBVIOUS
<1>1. /\ pc = "restore" /\ todo = {} /\ UNCHANGED <<seedVars, cuts, kind, todo, faults>>
      /\ pc' \in {"idle", "reset", "verify"}
  BY DEF RestoreDone
<1>2. PICK t \in target : target' = {[t EXCEPT !.complete = TRUE]}
  BY DEF RestoreDone
<1> DEFINE u == [t EXCEPT !.complete = TRUE]
<1>3. t \in Target
  BY <1>2, InvTypes
<1>4. u \in Target /\ u.records = t.records
  BY <1>3 DEF Target
<1>5. target' = {u}
  BY <1>2
<1> HIDE DEF u
<1>6. SeedInv'
  BY <1>1, InvStep DEF RestoreInv
<1>7. PhaseInv'
  <2>1. Cut'
    BY <1>1 DEF RestoreInv, PhaseInv, Cut, seedVars
  <2>2. target' \subseteq Target'
    BY <1>4, <1>5 DEF Target
  <2>3. todo' = {} /\ faults' \in Nat /\ pc' \notin {"seed", "backup", "rejected"}
    BY <1>1, InvTypes
  <2> QED BY <2>1, <2>2, <2>3 DEF PhaseInv
<1>8. AuditInv'
  <2>1. SUFFICES ASSUME kind = "audit", faults = 0 PROVE AuditInv'
    BY <1>1 DEF AuditInv
  <2>2. \A q \in Selected(audit_window) : Restored(t, q)
    BY <1>1, <1>2, <2>1 DEF RestoreInv, AuditInv
  <2>3. \A q \in Selected(audit_window) : Restored(u, q)
    BY <1>4, <2>2 DEF Restored
  <2>4. Selected(audit_window)' = Selected(audit_window)
    BY <1>1, SelectedUnchanged DEF seedVars
  <2>5. \A v \in target' : v = u
    BY <1>5
  <2>6. pc' # "restore"
    BY <1>1
  <2> QED BY <2>3, <2>4, <2>5, <2>6 DEF AuditInv, Restored
<1> QED BY <1>6, <1>7, <1>8 DEF RestoreInv

LEMMA VerifyRestoreKeeps == RestoreInv /\ VerifyRestore => RestoreInv'
<1> SUFFICES ASSUME RestoreInv, VerifyRestore PROVE RestoreInv'
  OBVIOUS
<1>1. /\ pc = "verify" \/ (pc = "idle" /\ kind = "audit")
      /\ pc' = "idle"
      /\ UNCHANGED <<seedVars, cuts, since, kind, window, target, snapshot, committed, todo, starts, faults>>
  BY Zenon DEF VerifyRestore
<1>2. Cut'
  BY <1>1 DEF RestoreInv, PhaseInv, Cut, seedVars
<1> QED BY <1>1, <1>2, QuietStep

LEMMA KillKeeps == RestoreInv /\ Kill => RestoreInv'
<1> SUFFICES ASSUME RestoreInv, Kill PROVE RestoreInv'
  OBVIOUS
<1>1. /\ pc \in {"restore", "reset"} /\ pc' = "idle" /\ todo' = {}
      /\ UNCHANGED <<seedVars, cuts, kind, target, faults>>
  BY DEF Kill
<1>2. SeedInv'
  BY <1>1, InvStep DEF RestoreInv
<1>3. PhaseInv'
  <2>1. Cut'
    BY <1>1 DEF RestoreInv, PhaseInv, Cut, seedVars
  <2>2. target' \subseteq Target' /\ todo' \subseteq DOMAIN log' /\ faults' \in Nat
    BY <1>1, InvTypes DEF Target
  <2> QED BY <1>1, <2>1, <2>2 DEF PhaseInv
<1>4. AuditInv'
  <2>1. Selected(audit_window)' = Selected(audit_window)
    BY <1>1, SelectedUnchanged DEF seedVars
  <2> QED BY <1>1, <2>1 DEF RestoreInv, AuditInv, Restored
<1> QED BY <1>2, <1>3, <1>4 DEF RestoreInv

LEMMA RestoreWronglyKeeps == RestoreInv /\ RestoreWrongly => RestoreInv'
<1> SUFFICES ASSUME RestoreInv, RestoreWrongly PROVE RestoreInv'
  OBVIOUS
<1>1. pc = "restore" /\ faults' = faults + 1 /\ UNCHANGED <<seedVars, cuts, kind, pc>>
  BY DEF RestoreWrongly
<1>2. PICK o \in todo : /\ todo' = todo \/ todo' = todo \ {o}
                        /\ Write(o) \/ UNCHANGED target
  BY Zenon DEF RestoreWrongly
<1>3. o \in DOMAIN log
  BY <1>2, InvTypes
<1>4. target' \subseteq Target
  <2>1. CASE UNCHANGED target
    BY <2>1, InvTypes
  <2>2. CASE Write(o)
    <3>1. PICK t \in target : target' = {[t EXCEPT !.records = Append(t.records, source[o])]}
      BY <2>2 DEF Write
    <3>2. t \in Target
      BY <3>1, InvTypes
    <3> DEFINE u == [t EXCEPT !.records = Append(t.records, source[o])]
    <3>3. u \in Target
      BY <1>3, <3>2, WriteRestores
    <3> QED BY <3>1, <3>3
  <2> QED BY <1>2, <2>1, <2>2
<1>5. SeedInv'
  BY <1>1, InvStep DEF RestoreInv
<1>6. PhaseInv'
  <2>1. Cut'
    BY <1>1 DEF RestoreInv, PhaseInv, Cut, seedVars
  <2>2. faults' \in Nat /\ faults' # 0
    BY <1>1, InvTypes, SMT
  <2>3. target' \subseteq Target' /\ todo' \subseteq DOMAIN log'
    BY <1>1, <1>2, <1>4, InvTypes DEF Target, seedVars
  <2> QED BY <1>1, <2>1, <2>2, <2>3 DEF PhaseInv
<1>7. AuditInv'
  <2>1. faults' # 0
    BY <1>1, InvTypes, SMT
  <2> QED BY <2>1 DEF AuditInv
<1> QED BY <1>5, <1>6, <1>7 DEF RestoreInv

LEMMA ResetGroupKeeps == RestoreInv /\ ResetGroup => RestoreInv'
<1> SUFFICES ASSUME RestoreInv, ResetGroup PROVE RestoreInv'
  OBVIOUS
<1>1. /\ pc = "reset" /\ pc' = "verify" /\ UNCHANGED <<seedVars, cuts, kind, target, todo>>
  BY DEF ResetGroup
<1>2. faults' = faults \/ faults' = faults + 1
  BY DEF ResetGroup
<1>3. Cut'
  BY <1>1 DEF RestoreInv, PhaseInv, Cut, seedVars
<1>4. CASE UNCHANGED faults
  BY <1>1, <1>3, <1>4, QuietStep
<1>5. CASE faults' = faults + 1
  <2>1. faults' \in Nat /\ faults' # 0
    BY <1>5, InvTypes, SMT
  <2>2. SeedInv'
    BY <1>1, InvStep DEF RestoreInv
  <2>3. PhaseInv'
    <3>1. target' \subseteq Target' /\ todo' \subseteq DOMAIN log'
      BY <1>1, InvTypes DEF Target, seedVars
    <3> QED BY <1>1, <1>3, <2>1, <3>1 DEF PhaseInv
  <2> QED BY <2>1, <2>2, <2>3 DEF RestoreInv, AuditInv
<1> QED BY <1>2, <1>4, <1>5

LEMMA RestoreStep == RestoreInv /\ [Next]_vars => RestoreInv'
<1> SUFFICES ASSUME RestoreInv, [Next]_vars PROVE RestoreInv'
  OBVIOUS
<1>1. CASE UNCHANGED vars
  <2>1. UNCHANGED <<seedVars, cuts, kind, target, todo, faults, pc>>
    BY <1>1 DEF vars, restoreVars
  <2>2. SeedInv'
    BY <2>1, InvStep DEF RestoreInv
  <2>3. Selected(audit_window)' = Selected(audit_window)
    BY <2>1, SelectedUnchanged DEF seedVars
  <2>4. PhaseInv'
    BY <2>1 DEF RestoreInv, PhaseInv, Cut, Target, seedVars
  <2>5. AuditInv'
    BY <2>1, <2>3 DEF RestoreInv, AuditInv, Restored
  <2> QED BY <2>2, <2>4, <2>5 DEF RestoreInv
<1> QED BY <1>1, SeedKeeps, BaselineKeeps, BackupKeeps, ArchiveSinceKeeps, StartRestoreKeeps,
           RestoreRecordKeeps, RestoreWronglyKeeps, RestoreDoneKeeps, ResetGroupKeeps,
           VerifyRestoreKeeps, KillKeeps DEF Next

\* Lateness and completeness together give the property.
LEMMA InvGivesComplete == RestoreInv => PaddedWindowComplete
<1> SUFFICES ASSUME RestoreInv, kind = "audit", Honest, NEW t \in target, NEW o \in DOMAIN log,
                    audit_start <= log[o], log[o] < audit_end_exclusive
             PROVE  Restored(t, o)
  BY DEF PaddedWindowComplete, Restored
<1>1. Cut
  BY DEF RestoreInv, PhaseInv
<1>2. log \in Seq(Nat) /\ LatenessBounded
  BY InvTypes, InvGivesProperties DEF RestoreInv
<1>3. o \in Selected(audit_window)
  BY <1>1, <1>2, PaddedWindowSelects
<1> QED BY <1>3 DEF RestoreInv, AuditInv, Honest

-----------------------------------------------------------------------------
\* The inductive invariant of seeding, backup and restore: the seeder's, the
\* types of the restored topic, and that an audit restore without a fault owes
\* nothing but what it still has to do.
THEOREM RestoreInvariant == Spec => []RestoreInv
  BY RestoreInit, RestoreStep, PTL DEF Spec

\* The audit restore is complete: for every late window, span, audit month and
\* cut of the log into segments, the window padded by LATE_MAX_HOURS on both
\* sides brings back every record of the month (60-audit-restore.sh:15-29).
THEOREM AuditRestoreIsComplete == Spec => []PaddedWindowComplete
  BY RestoreInvariant, InvGivesComplete, PTL

\* The seeder's properties hold while its topic is backed up and restored as
\* well (seed.py:125-147).
THEOREM SeedHoldsBeforeRestore == Spec => [](SeedTypeOK /\ LatenessBounded /\ InSpan)
<1>1. RestoreInv => SeedTypeOK /\ LatenessBounded /\ InSpan
  BY InvGivesProperties DEF RestoreInv
<1> QED BY <1>1, RestoreInvariant, PTL

-----------------------------------------------------------------------------
(* Type correctness.  What the target holds are records of the source.      *)

RestTypes ==
  /\ since \subseteq [first : Nat, passed : BOOLEAN]
  /\ kind \in Kinds \cup {"none"}
  /\ \A t \in target : \A i \in DOMAIN t.records : t.records[i] \in Range(source)
  /\ snapshot \in Nat /\ committed \subseteq Nat
  /\ verdict \subseteq [buckets : BOOLEAN, explained : BOOLEAN, passed : BOOLEAN]
  /\ pc \in {"seed", "backup", "rejected"} => cuts = {}

\* One record more on the target keeps its records those of the source.
LEMMA WriteKeepsSource ==
  ASSUME RestoreInv, RestTypes, NEW o \in DOMAIN log, Write(o), UNCHANGED log
  PROVE  \A t \in target' : \A i \in DOMAIN t.records : t.records[i] \in Range(source)'
<1>1. PICK t \in target : target' = {[t EXCEPT !.records = Append(t.records, source[o])]}
  BY DEF Write
<1>2. t \in Target /\ log[o] \in Nat /\ o \in Nat
  BY <1>1, InvTypes
<1> DEFINE r == source[o]
<1>3. r \in Range(source) /\ r \in [orig : Nat, ts : Nat]
  BY <1>2 DEF source, Range
<1>4. Range(source)' = Range(source)
  BY DEF source, Range
<1> DEFINE rs == Append(t.records, r)
           u == [t EXCEPT !.records = rs]
<1>5. t.records \in Seq([orig : Nat, ts : Nat])
      /\ t = [records |-> t.records, complete |-> t.complete]
  BY <1>2 DEF Target
<1>6. u.records = rs
  BY <1>5
<1> HIDE DEF r
<1>7. /\ DOMAIN rs = 1..(Len(t.records) + 1) /\ rs[Len(t.records) + 1] = r
      /\ DOMAIN t.records = 1..Len(t.records) /\ Len(t.records) \in Nat
      /\ \A i \in DOMAIN t.records : rs[i] = t.records[i]
  BY <1>3, <1>5, AppendTo, LenProperties
<1> HIDE DEF rs
<1>8. \A i \in DOMAIN rs : i \in DOMAIN t.records \/ i = Len(t.records) + 1
  BY <1>7, SMT
<1>9. \A i \in DOMAIN rs : rs[i] \in Range(source)
  BY <1>1, <1>3, <1>7, <1>8 DEF RestTypes
<1>10. target' = {u}
  BY <1>1 DEF r, rs
<1> QED BY <1>4, <1>6, <1>9, <1>10

\* A step that leaves the log alone, and the target or its records.
LEMMA SourceKept ==
  ASSUME RestTypes, UNCHANGED log,
         \A u \in target' : \E t \in target : u.records = t.records
  PROVE  \A t \in target' : \A i \in DOMAIN t.records : t.records[i] \in Range(source)'
<1>1. Range(source)' = Range(source)
  BY DEF source, Range
<1> QED BY <1>1 DEF RestTypes

LEMMA TypesStep == RestoreInv /\ RestTypes /\ [Next]_vars => RestTypes'
<1> SUFFICES ASSUME RestoreInv, RestTypes, [Next]_vars PROVE RestTypes'
  OBVIOUS
<1>0. target \subseteq Target /\ log \in Seq(Nat) /\ Len(log) \in Nat
  BY InvTypes
<1>1. CASE UNCHANGED vars
  <2>1. \A t \in target' : \A i \in DOMAIN t.records : t.records[i] \in Range(source)'
    BY <1>1, SourceKept DEF vars, seedVars, restoreVars
  <2> QED BY <1>1, <2>1 DEF RestTypes, vars, restoreVars
<1>2. CASE Seed \/ Baseline
  <2>1. target' = {} /\ UNCHANGED restoreVars /\ pc \in {"seed", "backup", "rejected"}
    BY <1>2 DEF Seed, Baseline, RestoreInv, PhaseInv, restoreVars
  <2> QED BY <2>1 DEF RestTypes, restoreVars
<1>3. CASE Backup
  <2>1. target' = {} /\ kind' \in Kinds /\ UNCHANGED <<since, snapshot, committed, verdict>>
        /\ pc' \in {"since", "idle"}
    BY <1>3 DEF Backup, RestoreInv, PhaseInv
  <2> QED BY <2>1 DEF RestTypes
<1>4. CASE ArchiveSince
  <2>1. UNCHANGED <<log, target, kind, snapshot, committed, verdict>> /\ pc' \in {"idle", "ended"}
    BY <1>4 DEF ArchiveSince, seedVars
  <2>2. since' \subseteq [first : Nat, passed : BOOLEAN]
    <3> DEFINE later == {o \in DOMAIN log : log[o] >= since_ms}
    <3>1. CASE later = {}
      BY <1>4, <3>1 DEF ArchiveSince, RestTypes
    <3>2. CASE later # {}
      <4>1. PICK c \in DOMAIN log :
              since' = {[first |-> Min(later),
                         passed |-> Min({log[c], log[Min(later)]}) >= since_ms - LateMax]}
        BY <1>4, <3>2 DEF ArchiveSince
      <4>2. Min(later) \in Nat
        <5>1. later \in SUBSET Nat
          BY <1>0
        <5> QED BY <3>2, <5>1, MinOfSet
      <4> DEFINE p == Min({log[c], log[Min(later)]}) >= since_ms - LateMax
      <4>3. p \in BOOLEAN
        OBVIOUS
      <4> HIDE DEF p
      <4>4. [first |-> Min(later), passed |-> p] \in [first : Nat, passed : BOOLEAN]
        BY <4>2, <4>3, Zenon
      <4> QED BY <4>1, <4>4 DEF p
    <3> QED BY <3>1, <3>2
  <2>3. \A t \in target' : \A i \in DOMAIN t.records : t.records[i] \in Range(source)'
    BY <2>1, SourceKept
  <2> QED BY <2>1, <2>2, <2>3 DEF RestTypes
<1>5. CASE StartRestore
  <2>1. /\ target' = {[records |-> << >>, complete |-> FALSE]} /\ pc' = "restore"
        /\ UNCHANGED <<kind, since, snapshot, committed, verdict>>
    BY <1>5 DEF StartRestore
  <2>2. \A t \in target' : \A i \in DOMAIN t.records : t.records[i] \in Range(source)'
    BY <2>1, SMT
  <2> QED BY <2>1, <2>2 DEF RestTypes
<1>6. CASE RestoreRecord \/ RestoreWrongly
  <2>1. UNCHANGED <<log, kind, since, snapshot, committed, verdict, pc>> /\ pc = "restore"
    BY <1>6 DEF RestoreRecord, RestoreWrongly, seedVars
  <2>2. UNCHANGED target \/ \E o \in todo : Write(o)
    BY <1>6 DEF RestoreRecord, RestoreWrongly
  <2>3. \A t \in target' : \A i \in DOMAIN t.records : t.records[i] \in Range(source)'
    <3>1. CASE UNCHANGED target
      BY <2>1, <3>1, SourceKept
    <3>2. CASE \E o \in todo : Write(o)
      BY <2>1, <3>2, InvTypes, WriteKeepsSource
    <3> QED BY <2>2, <3>1, <3>2
  <2> QED BY <2>1, <2>3 DEF RestTypes
<1>7. CASE RestoreDone
  <2>1. UNCHANGED <<log, kind, since, snapshot, committed, verdict>> /\ pc' \in {"idle", "reset", "verify"}
    BY <1>7 DEF RestoreDone, seedVars
  <2>2. \A u \in target' : \E t \in target : u.records = t.records
    <3>1. PICK t \in target : target' = {[t EXCEPT !.complete = TRUE]}
      BY <1>7 DEF RestoreDone
    <3>2. t = [records |-> t.records, complete |-> t.complete]
      BY <1>0, <3>1 DEF Target
    <3>3. [t EXCEPT !.complete = TRUE].records = t.records
      BY <3>2
    <3> QED BY <3>1, <3>3
  <2>3. \A t \in target' : \A i \in DOMAIN t.records : t.records[i] \in Range(source)'
    BY <2>1, <2>2, SourceKept
  <2> QED BY <2>1, <2>3 DEF RestTypes
<1>8. CASE ResetGroup
  <2>1. UNCHANGED <<log, target, kind, since, verdict>> /\ pc' = "verify" /\ snapshot' \in 1..(Len(log) + 1)
    BY <1>8 DEF ResetGroup, seedVars
  <2>2. PICK t \in target : committed' = Mapped(t.records, snapshot')
                            \/ \E c \in 1..(Len(t.records) + 1) : committed' = {c}
    BY <1>8 DEF ResetGroup
  <2>3. Len(t.records) \in Nat /\ DOMAIN t.records = 1..Len(t.records)
    <3>1. t.records \in Seq([orig : Nat, ts : Nat])
      BY <1>0, <2>2 DEF Target
    <3> QED BY <3>1, LenProperties
  <2>4. Mapped(t.records, snapshot') \subseteq Nat
    BY <2>3 DEF Mapped
  <2>5. committed' \subseteq Nat
    BY <2>2, <2>3, <2>4
  <2>6. snapshot' \in Nat
    BY <1>0, <2>1
  <2>7. \A u \in target' : \A i \in DOMAIN u.records : u.records[i] \in Range(source)'
    BY <2>1, SourceKept
  <2> QED BY <2>1, <2>5, <2>6, <2>7 DEF RestTypes
<1>9. CASE VerifyRestore
  <2>1. UNCHANGED <<log, target, kind, since, snapshot, committed>> /\ pc' = "idle"
    BY <1>9 DEF VerifyRestore, seedVars
  <2>2. PICK t \in target, w \in window :
          verdict' = {[buckets |-> buckets_match_baseline(t.records, w),
                       explained |-> every_difference_explained(t.records, w),
                       passed  |-> /\ original_offsets_strictly_increasing(t.records)
                                   /\ no_records_outside_window(t.records, w)
                                   /\ buckets_match_baseline(t.records, w)
                                   /\ every_difference_explained(t.records, w)
                                   /\ kind = "full" => consumer_group_offset_mapped(t.records)]}
    BY <1>9, Zenon DEF VerifyRestore
  <2> DEFINE b == buckets_match_baseline(t.records, w)
             e == every_difference_explained(t.records, w)
             p == /\ original_offsets_strictly_increasing(t.records)
                  /\ no_records_outside_window(t.records, w)
                  /\ b /\ e
                  /\ kind = "full" => consumer_group_offset_mapped(t.records)
  <2>3. b \in BOOLEAN /\ e \in BOOLEAN /\ p \in BOOLEAN
    BY Zenon DEF buckets_match_baseline, every_difference_explained
  <2>4. verdict' = {[buckets |-> b, explained |-> e, passed |-> p]}
    BY <2>2, Zenon
  <2> HIDE DEF b, e, p
  <2>5. [buckets |-> b, explained |-> e, passed |-> p]
          \in [buckets : BOOLEAN, explained : BOOLEAN, passed : BOOLEAN]
    BY <2>3, Zenon
  <2>6. verdict' \subseteq [buckets : BOOLEAN, explained : BOOLEAN, passed : BOOLEAN]
    BY <2>4, <2>5
  <2>7. \A u \in target' : \A i \in DOMAIN u.records : u.records[i] \in Range(source)'
    BY <2>1, SourceKept
  <2> QED BY <2>1, <2>6, <2>7 DEF RestTypes
<1>10. CASE Kill
  <2>1. UNCHANGED <<log, target, kind, since, snapshot, committed, verdict>> /\ pc' = "idle"
    BY <1>10 DEF Kill, seedVars
  <2>2. \A u \in target' : \A i \in DOMAIN u.records : u.records[i] \in Range(source)'
    BY <2>1, SourceKept
  <2> QED BY <2>1, <2>2 DEF RestTypes
<1> QED BY <1>1, <1>2, <1>3, <1>4, <1>5, <1>6, <1>7, <1>8, <1>9, <1>10 DEF Next

LEMMA TypesInit == Init => RestTypes
  BY DEF Init, RestTypes

LEMMA InvGivesTypes == RestoreInv /\ RestTypes => RestoreTypeOK
<1> SUFFICES ASSUME RestoreInv, RestTypes PROVE RestoreTypeOK
  OBVIOUS
<1>1. SeedTypeOK /\ todo \subseteq DOMAIN log /\ target \subseteq Target
  BY InvTypes DEF RestoreInv, SeedInv
<1>2. cuts \subseteq Nat
  BY InvTypes DEF RestoreInv, PhaseInv, Cut, RestTypes
<1>3. \A t \in target : t.complete \in BOOLEAN /\ Range(t.records) \subseteq Range(source)
  <2>1. \A t \in target : t.complete \in BOOLEAN
    BY <1>1 DEF Target
  <2>2. \A t \in target : \A i \in DOMAIN t.records : t.records[i] \in Range(source)
    BY DEF RestTypes
  <2> QED BY <2>1, <2>2 DEF Range
<1> QED BY <1>1, <1>2, <1>3 DEF RestTypes, RestoreTypeOK

-----------------------------------------------------------------------------
(* The gate of phase 20 and the gate of phase 45 A.                         *)

AcceptInv == CohortInv /\ BaselineAcceptsSeed

LEMMA AcceptInit == Init => AcceptInv
  BY CohortInit DEF Init, AcceptInv, BaselineAcceptsSeed

\* Only Baseline may reject, and it counts as many records behind as are late.
LEMMA AcceptStep == RestoreInv /\ AcceptInv /\ [Next]_vars => AcceptInv'
<1> SUFFICES ASSUME RestoreInv, AcceptInv, [Next]_vars PROVE AcceptInv'
  OBVIOUS
<1>1. [SeedStep]_seedVars
  BY DEF Next, vars, Seed, Baseline, Backup, ArchiveSince, StartRestore, RestoreRecord,
         RestoreWrongly, RestoreDone, ResetGroup, VerifyRestore, Kill
<1>2. CohortInv'
  BY <1>1, CohortStep DEF RestoreInv, AcceptInv
<1>3. pc' # "rejected"
  <2>1. CASE Baseline
    <3>1. only_late_cohort_goes_backwards /\ nothing_after_seed_end
      BY CohortIsAccepted DEF RestoreInv, AcceptInv
    <3> QED BY <2>1, <3>1 DEF Baseline
  <2>2. CASE UNCHANGED pc
    BY <2>2 DEF AcceptInv, BaselineAcceptsSeed
  <2>3. CASE Backup
    BY <2>3 DEF Backup
  <2>4. CASE ArchiveSince
    BY <2>4 DEF ArchiveSince
  <2>5. CASE StartRestore \/ ResetGroup \/ VerifyRestore \/ Kill
    BY <2>5 DEF StartRestore, ResetGroup, VerifyRestore, Kill
  <2>6. CASE RestoreDone
    BY <2>6 DEF RestoreDone
  <2>7. CASE Seed \/ RestoreRecord \/ RestoreWrongly
    BY <2>2, <2>7 DEF Seed, RestoreRecord, RestoreWrongly
  <2> QED BY <2>1, <2>2, <2>3, <2>4, <2>5, <2>6, <2>7 DEF Next, vars
<1> QED BY <1>2, <1>3 DEF AcceptInv, BaselineAcceptsSeed

\* The archive's later segments start no more than the late window before its
\* first record.
LEMMA SinceStep == RestoreInv /\ SinceGatePasses /\ [Next]_vars => SinceGatePasses'
<1> SUFFICES ASSUME RestoreInv, SinceGatePasses, [Next]_vars PROVE SinceGatePasses'
  OBVIOUS
<1>1. CASE UNCHANGED since
  BY <1>1 DEF SinceGatePasses
<1>2. CASE ArchiveSince
  <2> DEFINE later == {o \in DOMAIN log : log[o] >= since_ms}
  <2>1. CASE later = {}
    <3>1. UNCHANGED since
      BY <1>2, <2>1 DEF ArchiveSince
    <3> QED BY <3>1, <1>1
  <2>2. CASE later # {}
    <3>1. PICK c \in DOMAIN log :
            /\ Min(later) <= c
            /\ since' = {[first |-> Min(later),
                          passed |-> Min({log[c], log[Min(later)]}) >= since_ms - LateMax]}
      BY <1>2, <2>2 DEF ArchiveSince
    <3>2. log \in Seq(Nat) /\ LatenessBounded
      BY InvTypes, InvGivesProperties DEF RestoreInv
    <3>3. later \in SUBSET Nat
      BY <3>2
    <3>4. Min(later) \in later
      BY <2>2, <3>3, MinOfSet
    <3> DEFINE m == Min(later)
    <3>5. m \in DOMAIN log /\ log[m] >= since_ms /\ log[m] - log[c] <= LateMax
      BY <3>1, <3>2, <3>4 DEF LatenessBounded
    <3> HIDE DEF m, later
    <3>6. log[m] \in Nat /\ log[c] \in Nat /\ since_ms \in Int /\ LateMax \in Nat
      BY <3>1, <3>2, <3>5, SeedAssumption, RestoreAssumption, SMT DEF since_ms
    <3>7. {log[c], log[m]} \in SUBSET Nat /\ {log[c], log[m]} # {}
      BY <3>6
    <3>8. Min({log[c], log[m]}) \in {log[c], log[m]}
      BY <3>7, MinOfSet
    <3>9. Min({log[c], log[m]}) >= since_ms - LateMax
      BY <3>5, <3>6, <3>8, SMT
    <3> DEFINE a == [first |-> m, passed |-> Min({log[c], log[m]}) >= since_ms - LateMax]
    <3>10. since' = {a} /\ a.passed = (Min({log[c], log[m]}) >= since_ms - LateMax)
      BY <3>1, Zenon DEF m
    <3>11. a.passed
      BY <3>9, <3>10, Zenon
    <3> HIDE DEF a
    <3> QED BY <3>10, <3>11 DEF SinceGatePasses
  <2> QED BY <2>1, <2>2
<1>3. CASE Next /\ ~ArchiveSince
  <2>1. UNCHANGED since
    BY <1>3 DEF Next, restoreVars, Seed, Baseline, Backup, StartRestore, RestoreRecord,
                RestoreWrongly, RestoreDone, ResetGroup, VerifyRestore, Kill
  <2> QED BY <1>1, <2>1
<1> QED BY <1>1, <1>2, <1>3 DEF vars, restoreVars

\* Phase 20 accepts every topic phase 10 produces: for every span, late window
\* and draw, the records that go backwards are the late ones (baseline.py:138-143).
THEOREM SeedIsAccepted == Spec => []BaselineAcceptsSeed
<1>1. AcceptInv => BaselineAcceptsSeed
  BY DEF AcceptInv
<1> QED BY <1>1, AcceptInit, AcceptStep, RestoreInvariant, PTL DEF Spec

\* An archive since an instant passes its gate, whatever its segments
\* (45-archive-options.sh:61-63).
THEOREM SinceGateIsSound == Spec => []SinceGatePasses
<1>1. Init => SinceGatePasses
  BY DEF Init, SinceGatePasses
<1> QED BY <1>1, SinceStep, RestoreInvariant, PTL DEF Spec

\* Type correctness: whatever kafka-backup skips, repeats or swaps, the target
\* holds records of the source, and the verdict its fields (verify_restore.py:152-243).
THEOREM RestoreTypeCorrect == Spec => []RestoreTypeOK
  BY RestoreInvariant, TypesInit, TypesStep, InvGivesTypes, PTL DEF Spec

=============================================================================
