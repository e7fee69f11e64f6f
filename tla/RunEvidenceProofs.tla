------------------------- MODULE RunEvidenceProofs -------------------------
(***************************************************************************)
(* Proofs about RunEvidence for any phases, commands and gates and any     *)
(* order of re-runs, failures, kills and processes left behind.            *)
(***************************************************************************)
EXTENDS RunEvidence, WellFoundedInduction, SequenceTheorems, TLAPS

-----------------------------------------------------------------------------
(* Phases, commands and lines. *)

LEMMA PhaseFacts ==
  /\ Len(Phases) \in Nat /\ Len(Phases) > 1 /\ DOMAIN Phases = 1..Len(Phases)
  /\ \A k \in DOMAIN Phases : Phases[k] \in Phase /\ Phases[k] \notin Outside
  /\ \A k, l \in DOMAIN Phases : Phases[k] = Phases[l] => k = l
  /\ Preflight \in Phase /\ Report \in Phase /\ Report # Preflight /\ Report \notin Outside
  /\ \A ph \in Phase : /\ Commands[ph] \in Seq(SUBSET Gates) /\ Len(Commands[ph]) \in Nat
                       /\ DOMAIN Commands[ph] = 1..Len(Commands[ph])
  /\ Len(Commands[Report]) = 0 /\ DOMAIN Commands[Report] = {}
<1>1. /\ Phases \in Seq(Phase) /\ Len(Phases) > 1 /\ IsInjective(Phases)
      /\ Commands \in [Phase -> Seq(SUBSET Gates)] /\ ToSet(Phases) \cap Outside = {}
      /\ Commands[Report] = << >>
  BY RunAssumption
<1>2. Len(Phases) \in Nat /\ DOMAIN Phases = 1..Len(Phases) /\ \A k \in 1..Len(Phases) : Phases[k] \in Phase
  BY <1>1, LenProperties, ElementOfSeq
<1>3. \A k \in DOMAIN Phases : Phases[k] \in ToSet(Phases)
  BY DEF ToSet
<1>4. \A k, l \in DOMAIN Phases : Phases[k] = Phases[l] => k = l
  BY <1>1 DEF IsInjective
<1>5. 1 \in DOMAIN Phases /\ Len(Phases) \in DOMAIN Phases /\ Len(Phases) # 1
  <2>1. \A n \in Nat : n > 1 => 1 \in 1..n /\ n \in 1..n /\ n # 1
    BY SMT
  <2> QED BY <1>1, <1>2, <2>1, Zenon
<1>6. Preflight \in Phase /\ Report \in Phase /\ Report # Preflight /\ Report \notin Outside
  <2>1. Phases[1] # Phases[Len(Phases)]
    BY <1>4, <1>5
  <2>2. Phases[1] \in Phase /\ Phases[Len(Phases)] \in Phase /\ Phases[Len(Phases)] \in ToSet(Phases)
    BY <1>2, <1>3, <1>5
  <2> QED BY <1>1, <2>1, <2>2 DEF Preflight, Report
<1>7. \A ph \in Phase : /\ Commands[ph] \in Seq(SUBSET Gates) /\ Len(Commands[ph]) \in Nat
                        /\ DOMAIN Commands[ph] = 1..Len(Commands[ph])
  BY <1>1, LenProperties
<1>8. Len(Commands[Report]) = 0 /\ DOMAIN Commands[Report] = {}
  BY <1>1
<1> QED BY <1>1, <1>2, <1>3, <1>4, <1>6, <1>7, <1>8

\* What a command prints, whole or in part, are lines.
LEMMA LinesPrinted ==
  ASSUME FormInv
  PROVE  /\ Running /\ job # NoJob => \A lines \in [gates -> {"PASS", "FAIL"}] : lines \in Lines
         /\ job # NoJob => \A lines \in Partial : lines \in Lines
<1>1. ASSUME Running, job # NoJob PROVE gates \in SUBSET Gates
  <2>1. job.phase \in Phase /\ job.at \in DOMAIN Commands[job.phase]
    BY <1>1 DEF FormInv, Running
  <2>2. Commands[job.phase] \in Seq(SUBSET Gates)
    BY <2>1, PhaseFacts
  <2>3. Commands[job.phase][job.at] \in SUBSET Gates
    BY <2>1, <2>2, ElementOfSeq, LenProperties
  <2> QED BY <2>3 DEF gates
<1>2. \A part \in SUBSET Gates : \A lines \in [part -> {"PASS", "FAIL"}] : lines \in Lines
  BY DEF Lines
<1>3. << >> \in Lines
  <2>1. << >> \in [{} -> {"PASS", "FAIL"}]
    OBVIOUS
  <2> QED BY <1>2, <2>1
<1>4. ASSUME job # NoJob, NEW lines \in Partial PROVE lines \in Lines
  <2>1. CASE lines = << >>
    BY <1>3, <2>1
  <2>2. CASE lines # << >>
    <3>1. Running /\ lines \in UNION {[part -> {"PASS", "FAIL"}] : part \in (SUBSET gates) \ {gates}}
      BY <1>4, <2>2 DEF Partial
    <3>2. PICK part \in SUBSET gates : lines \in [part -> {"PASS", "FAIL"}]
      BY <3>1
    <3>3. part \in SUBSET Gates
      BY <1>1, <1>4, <3>1, <3>2
    <3> QED BY <1>2, <3>2, <3>3
  <2> QED BY <2>1, <2>2
<1> QED BY <1>1, <1>2, <1>4

\* Printing keeps what is in the logs.
LEMMA PrintKeeps ==
  ASSUME FormInv, job.phase \in Phase, NEW lines \in Lines, PrintGates(lines)
  PROVE  /\ logs' \in [Phase -> Seq(Lines)]
         /\ \A ph \in Phase : ph # job.phase => logs'[ph] = logs[ph]
         /\ lines = << >> => logs' = logs
         /\ lines # << >> => \E j \in DOMAIN logs'[job.phase] : logs'[job.phase][j] = lines
         /\ \A ph \in Phase : \A j \in DOMAIN logs[ph] : j \in DOMAIN logs'[ph] /\ logs'[ph][j] = logs[ph][j]
         /\ \A ph \in Phase : \A j \in DOMAIN logs'[ph] :
              (j \in DOMAIN logs[ph] /\ logs'[ph][j] = logs[ph][j]) \/ logs'[ph][j] = lines
         /\ \A ph \in Phase : \A commands, n : Printed(logs[ph], commands, n) => Printed(logs'[ph], commands, n)
<1>1. logs \in [Phase -> Seq(Lines)]
  BY DEF FormInv
<1>2. CASE lines = << >>
  <2>1. logs' = logs
    BY <1>1, <1>2 DEF PrintGates
  <2> QED BY <1>1, <1>2, <2>1
<1>3. CASE lines # << >>
  <2> DEFINE log == logs[job.phase]
  <2>1. logs' = [logs EXCEPT ![job.phase] = Append(log, lines)]
    BY <1>3 DEF PrintGates
  <2>2. log \in Seq(Lines) /\ Len(log) \in Nat /\ DOMAIN log = 1..Len(log)
    BY <1>1, LenProperties
  <2>3. /\ Append(log, lines) \in Seq(Lines) /\ Len(Append(log, lines)) = Len(log) + 1
        /\ \A i \in 1..Len(log) : Append(log, lines)[i] = log[i]
        /\ Append(log, lines)[Len(log) + 1] = lines
    BY <2>2, AppendProperties
  <2>4. DOMAIN Append(log, lines) = 1..(Len(log) + 1)
    BY <2>3, LenProperties
  <2>5. logs'[job.phase] = Append(log, lines) /\ \A ph \in Phase : ph # job.phase => logs'[ph] = logs[ph]
    BY <1>1, <2>1
  <2>6. logs' \in [Phase -> Seq(Lines)]
    BY <1>1, <2>1, <2>3
  <2>7. \A ph \in Phase : \A j \in DOMAIN logs[ph] : j \in DOMAIN logs'[ph] /\ logs'[ph][j] = logs[ph][j]
    <3>1. \A j \in DOMAIN log : j \in DOMAIN Append(log, lines) /\ Append(log, lines)[j] = log[j]
      BY <2>2, <2>3, <2>4, SMT
    <3> QED BY <2>5, <3>1
  <2>8. \A ph \in Phase : \A j \in DOMAIN logs'[ph] :
          (j \in DOMAIN logs[ph] /\ logs'[ph][j] = logs[ph][j]) \/ logs'[ph][j] = lines
    <3>1. \A j \in DOMAIN Append(log, lines) :
            (j \in DOMAIN log /\ Append(log, lines)[j] = log[j]) \/ Append(log, lines)[j] = lines
      BY <2>2, <2>3, <2>4, SMT
    <3> QED BY <2>5, <3>1
  <2>9. Len(log) + 1 \in DOMAIN logs'[job.phase] /\ logs'[job.phase][Len(log) + 1] = lines
    BY <2>2, <2>3, <2>4, <2>5, SMT
  <2>10. \A ph \in Phase : \A commands, n : Printed(logs[ph], commands, n) => Printed(logs'[ph], commands, n)
    BY <2>7 DEF Printed
  <2> QED BY <1>3, <2>5, <2>6, <2>7, <2>8, <2>9, <2>10
<1> QED BY <1>2, <1>3

-----------------------------------------------------------------------------
(* The steps. *)

LEMMA TouchKeeps ==
  ASSUME FormInv, NEW names, Touch(names), listed' = listed
  PROVE  sums' \subseteq listed' /\ listed' \subseteq files'
BY DEF FormInv, Touch

\* The job when a phase ends.
LEMMA EndKeeps ==
  ASSUME FormInv, job # NoJob, NEW verdict \in {"PASS", "FAIL"}, End(verdict)
  PROVE  /\ timings' \in [Phase -> {"NONE", "PASS", "FAIL"}] /\ timings'[job.phase] = verdict
         /\ \A ph \in Phase : ph # job.phase => timings'[ph] = timings[ph]
         /\ \/ job' = NoJob
            \/ /\ job.all /\ verdict = "PASS" /\ job.phase # Report
               /\ job' = [phase |-> job.phase, at |-> 0, all |-> TRUE]
<1>1. job.phase \in Phase /\ job \in [phase : Phase \cup {"none"}, at : Nat, all : BOOLEAN]
      /\ timings \in [Phase -> {"NONE", "PASS", "FAIL"}]
  BY DEF FormInv
<1>2. timings' = [timings EXCEPT ![job.phase] = verdict]
  BY DEF End
<1>3. job' = NoJob \/ /\ job.all /\ verdict = "PASS" /\ job.phase # Report
                      /\ job' = [job EXCEPT !.at = 0]
  BY DEF End
<1>4. ASSUME job.all, NEW x, x = [job EXCEPT !.at = 0] PROVE x = [phase |-> job.phase, at |-> 0, all |-> TRUE]
  BY <1>1, <1>4
<1> QED BY <1>1, <1>2, <1>3, <1>4

LEMMA NoJobForm ==
  /\ NoJob \in [phase : Phase \cup {"none"}, at : Nat, all : BOOLEAN]
  /\ NoJob.at = 0 /\ ~NoJob.all
BY DEF NoJob

LEMMA BeginForm ==
  ASSUME FormInv, NEW ph \in Phase, NEW all \in BOOLEAN, Begin(ph, all)
  PROVE  /\ FormInv' /\ job' = [phase |-> ph, at |-> 1, all |-> all] /\ ~sealed'
         /\ ph = Preflight => logs' = [q \in Phase |-> << >>] /\ report' = {}
         /\ ph # Preflight => logs' = logs /\ timings' = timings /\ report' = report
<1>1. /\ job' = [phase |-> ph, at |-> 1, all |-> all] /\ sealed' = FALSE
      /\ job'.phase = ph /\ job'.at = 1 /\ job'.all = all
      /\ job' \in [phase : Phase \cup {"none"}, at : Nat, all : BOOLEAN]
  BY DEF Begin
<1>2. CASE ph = Preflight
  <2>1. /\ logs' = [q \in Phase |-> << >>] /\ timings' = [q \in Phase |-> "NONE"] /\ report' = {}
        /\ sums' = {} /\ listed' = {}
    BY <1>2 DEF Begin
  <2>2. logs' \in [Phase -> Seq(Lines)]
    BY <2>1
  <2>3. 1 \in 0..(Len(Commands[ph]) + 2)
    BY PhaseFacts, SMT
  <2>4. FormInv'
    <3>1. timings' \in [Phase -> {"NONE", "PASS", "FAIL"}] /\ report' \subseteq {"PASS", "FAIL"} /\ sealed' \in BOOLEAN
          /\ sums' \subseteq listed' /\ listed' \subseteq files'
      BY <1>1, <2>1
    <3>2. job'.phase \in Phase /\ job'.at \in 0..(Len(Commands[job'.phase]) + 2) /\ job'.at # 0
      BY <1>1, <2>3
    <3> QED BY <1>1, <2>2, <3>1, <3>2, Zenon DEF FormInv
  <2> QED BY <1>1, <1>2, <2>1, <2>4
<1>3. CASE ph # Preflight
  <2>1. logs' = logs /\ timings' = timings /\ report' = report /\ listed' = listed
    BY <1>3 DEF Begin
  <2>2. PICK names : Touch(names)
    BY <1>3 DEF Begin
  <2>3. sums' \subseteq listed' /\ listed' \subseteq files'
    BY <2>1, <2>2, TouchKeeps
  <2>4. 1 \in 0..(Len(Commands[ph]) + 2)
    BY PhaseFacts, SMT
  <2>5. FormInv'
    <3>1. /\ logs' \in [Phase -> Seq(Lines)]
          /\ timings' \in [Phase -> {"NONE", "PASS", "FAIL"}] /\ report' \subseteq {"PASS", "FAIL"} /\ sealed' \in BOOLEAN
      BY <1>1, <2>1 DEF FormInv
    <3>2. job'.phase \in Phase /\ job'.at \in 0..(Len(Commands[job'.phase]) + 2) /\ job'.at # 0
      BY <1>1, <2>4
    <3> QED BY <1>1, <2>3, <3>1, <3>2, Zenon DEF FormInv
  <2> QED BY <1>1, <1>3, <2>1, <2>5
<1> QED BY <1>2, <1>3

\* A phase begins: make's invariant, the seal and the report.
LEMMA StartInv ==
  ASSUME RunInv, NEW ph \in Phase, NEW all \in BOOLEAN, Begin(ph, all), all => ph = Preflight
  PROVE  RunInv'
<1>1. /\ FormInv' /\ job' = [phase |-> ph, at |-> 1, all |-> all] /\ ~sealed'
      /\ ph = Preflight => logs' = [q \in Phase |-> << >>] /\ report' = {}
  BY BeginForm DEF RunInv
<1>2. job'.phase = ph /\ job'.at = 1 /\ job'.all = all
  BY <1>1
<1>3. ASSUME all PROVE AllInv'
  <2>1. ph = Preflight /\ logs' = [q \in Phase |-> << >>] /\ report' = {}
    BY <1>1, <1>3
  <2>2. 1 \in DOMAIN Phases /\ Phases[1] = ph /\ Phases[1] \in Phase
    BY <2>1, PhaseFacts DEF Preflight
  <2>3. Printed(logs'[Phases[1]], Commands[Phases[1]], 0)
    <3>1. \A c \in DOMAIN Commands[Phases[1]] : ~(c <= 0)
      BY <2>2, PhaseFacts, SMT
    <3> QED BY <3>1 DEF Printed
  <2>4. 1 - 1 = 0 /\ 1 # 0 /\ \A i \in 1..(1 - 1) : FALSE
    OBVIOUS
  <2>5. \A q \in Phase : \A j \in DOMAIN logs'[q] : Passed(logs'[q][j])
    BY <2>1
  <2>6. /\ job'.phase = Phases[1]
        /\ \A i \in 1..(1 - 1) : Through(Phases[i])'
        /\ Printed(logs'[Phases[1]], Commands[Phases[1]],
                   IF job'.at = 0 THEN Len(Commands[Phases[1]]) ELSE job'.at - 1)
    BY <1>2, <2>2, <2>3, <2>4
  <2> QED BY <2>1, <2>2, <2>5, <2>6 DEF AllInv
<1>4. ~all => AllInv'
  BY <1>2 DEF AllInv
<1>5. SealInv'
  BY <1>1 DEF SealInv
<1>6. FailedGateShows'
  BY <1>2 DEF FailedGateShows
<1> QED BY <1>1, <1>3, <1>4, <1>5, <1>6 DEF RunInv

LEMMA NextPhaseInv ==
  ASSUME RunInv, NextPhase
  PROVE  RunInv'
<1>1. PICK i \in 1..(Len(Phases) - 1) : Phases[i] = job.phase /\ Begin(Phases[i + 1], TRUE)
  BY DEF NextPhase
<1>2. job.all /\ job.at = 0
  BY DEF NextPhase
<1>3. i \in DOMAIN Phases /\ i + 1 \in DOMAIN Phases /\ i + 1 # 1 /\ 1 \in DOMAIN Phases /\ i \in Nat
  BY PhaseFacts, SMT
<1>4. Phases[i + 1] \in Phase /\ Phases[i + 1] # Preflight
  BY <1>3, PhaseFacts DEF Preflight
<1>5. /\ FormInv' /\ job' = [phase |-> Phases[i + 1], at |-> 1, all |-> TRUE] /\ ~sealed'
      /\ logs' = logs /\ timings' = timings /\ report' = report
  BY <1>1, <1>4, BeginForm DEF RunInv
<1>6. job'.phase = Phases[i + 1] /\ job'.at = 1 /\ job'.all = TRUE
  BY <1>5
<1>7. AllInv'
  <2>1. PICK k \in DOMAIN Phases :
          /\ job.phase = Phases[k]
          /\ \A l \in 1..(k - 1) : Through(Phases[l])
          /\ Printed(logs[Phases[k]], Commands[Phases[k]], Len(Commands[Phases[k]]))
    BY <1>2 DEF RunInv, AllInv
  <2>2. k = i
    BY <1>1, <1>3, <2>1, PhaseFacts
  <2>3. Through(Phases[i])
    <3>1. timings[job.phase] = "PASS"
      BY <1>2 DEF RunInv, FormInv
    <3> QED BY <2>1, <2>2, <3>1 DEF Through
  <2>4. \A l \in 1..(i + 1 - 1) : Through(Phases[l])'
    <3>1. \A l \in 1..(i + 1 - 1) : l \in 1..(i - 1) \/ l = i
      BY <1>3, SMT
    <3> QED BY <1>5, <2>1, <2>2, <2>3, <3>1 DEF Through
  <2>5. Printed(logs[Phases[i + 1]], Commands[Phases[i + 1]], 0)
    <3>1. \A c \in DOMAIN Commands[Phases[i + 1]] : ~(c <= 0)
      BY <1>4, PhaseFacts, SMT
    <3> QED BY <3>1 DEF Printed
  <2>6. 1 - 1 = 0 /\ 1 # 0
    OBVIOUS
  <2>7. report \subseteq {"PASS"} /\ \A ph \in Phase : \A j \in DOMAIN logs[ph] : Passed(logs[ph][j])
    BY <1>2 DEF RunInv, AllInv
  <2>8. /\ job'.phase = Phases[i + 1]
        /\ \A l \in 1..(i + 1 - 1) : Through(Phases[l])'
        /\ Printed(logs'[Phases[i + 1]], Commands[Phases[i + 1]],
                   IF job'.at = 0 THEN Len(Commands[Phases[i + 1]]) ELSE job'.at - 1)
    BY <1>5, <1>6, <2>4, <2>5, <2>6
  <2> QED BY <1>3, <1>5, <2>7, <2>8 DEF AllInv
<1>8. SealInv'
  BY <1>5 DEF SealInv
<1>9. FailedGateShows'
  BY <1>6 DEF FailedGateShows
<1> QED BY <1>5, <1>7, <1>8, <1>9 DEF RunInv

\* A step that leaves no phase running and does not seal.
LEMMA StopInv ==
  ASSUME RunInv, job' = NoJob, ~sealed',
         logs' \in [Phase -> Seq(Lines)], timings' \in [Phase -> {"NONE", "PASS", "FAIL"}],
         report' \subseteq {"PASS", "FAIL"}, sealed' \in BOOLEAN, sums' \subseteq listed', listed' \subseteq files'
  PROVE  RunInv'
<1>1. job' \in [phase : Phase \cup {"none"}, at : Nat, all : BOOLEAN] /\ job'.at = 0 /\ ~job'.all
  BY NoJobForm
<1>2. FormInv'
  BY <1>1, Zenon DEF FormInv
<1>3. AllInv' /\ SealInv'
  BY <1>1, Zenon DEF AllInv, SealInv
<1>4. FailedGateShows'
  BY <1>1 DEF FailedGateShows
<1> QED BY <1>2, <1>3, <1>4 DEF RunInv

LEMMA NotSealed == RunInv /\ job # NoJob => sealed = FALSE
BY DEF RunInv, SealInv, FormInv

LEMMA CommandInv ==
  ASSUME RunInv, Command
  PROVE  RunInv'
<1>1. /\ FormInv /\ job # NoJob /\ Running /\ report' = report /\ sealed' = sealed /\ listed' = listed
  BY DEF Command, RunInv, sumVars
<1>2. PICK lines \in [gates -> {"PASS", "FAIL"}] :
       /\ PrintGates(lines)
       /\ \/ /\ (Passed(lines) \/ job.phase \in Outside)
             /\ job' = [job EXCEPT !.at = @ + 1]
             /\ Touch({JsonOf(job.phase), LogOf(job.phase)})
             /\ UNCHANGED timings
          \/ /\ End("FAIL")
             /\ Touch({JsonOf(job.phase), LogOf(job.phase), Timings})
  BY DEF Command
<1>3. lines \in Lines /\ job.phase \in Phase
  BY <1>1, <1>2, LinesPrinted DEF FormInv
<1>4. /\ logs' \in [Phase -> Seq(Lines)]
      /\ lines # << >> => \E j \in DOMAIN logs'[job.phase] : logs'[job.phase][j] = lines
      /\ \A ph \in Phase : \A j \in DOMAIN logs'[ph] :
           (j \in DOMAIN logs[ph] /\ logs'[ph][j] = logs[ph][j]) \/ logs'[ph][j] = lines
      /\ \A ph \in Phase : \A commands, n : Printed(logs[ph], commands, n) => Printed(logs'[ph], commands, n)
  BY <1>1, <1>2, <1>3, PrintKeeps
<1>5. sums' \subseteq listed' /\ listed' \subseteq files'
  <2>1. PICK names : Touch(names)
    BY <1>2
  <2> QED BY <1>1, <2>1, TouchKeeps
<1>6. sealed' = FALSE
  BY <1>1, NotSealed
<1>7. report' \subseteq {"PASS", "FAIL"}
  BY <1>1 DEF FormInv
<1>8. CASE End("FAIL")
  <2>1. job' = NoJob /\ timings' \in [Phase -> {"NONE", "PASS", "FAIL"}]
    BY <1>1, <1>8, EndKeeps
  <2> QED BY <1>4, <1>5, <1>6, <1>7, <2>1, StopInv
<1>9. CASE /\ Passed(lines) \/ job.phase \in Outside
           /\ job' = [job EXCEPT !.at = @ + 1] /\ UNCHANGED timings
  <2>1. /\ job'.phase = job.phase /\ job'.at = job.at + 1 /\ job'.all = job.all
        /\ job' \in [phase : Phase \cup {"none"}, at : Nat, all : BOOLEAN]
        /\ job.at \in Nat
    <3>1. job \in [phase : Phase \cup {"none"}, at : Nat, all : BOOLEAN]
      BY <1>1 DEF FormInv
    <3>2. job' = [job EXCEPT !.at = @ + 1] /\ job.at + 1 \in Nat
      BY <1>9, <3>1
    <3> QED BY <3>1, <3>2
  <2>2. /\ job.at \in 1..Len(Commands[job.phase]) /\ job.at \in DOMAIN Commands[job.phase]
        /\ DOMAIN Commands[job.phase] = 1..Len(Commands[job.phase]) /\ Len(Commands[job.phase]) \in Nat
    BY <1>1, <1>3, PhaseFacts DEF Running
  <2>3. FormInv'
    <3>1. job'.at \in 0..(Len(Commands[job'.phase]) + 2) /\ job'.at # 0 /\ job'.phase \in Phase
      BY <1>3, <2>1, <2>2, SMT
    <3>2. timings' \in [Phase -> {"NONE", "PASS", "FAIL"}]
      BY <1>1, <1>9 DEF FormInv
    <3>3. sealed' \in BOOLEAN
      BY <1>6
    <3> QED BY <1>4, <1>5, <1>7, <2>1, <3>1, <3>2, <3>3, Zenon DEF FormInv
  <2>4. job'.phase # Report
    BY <2>1, <2>2, PhaseFacts
  <2>5. AllInv'
    <3>1. SUFFICES ASSUME job.all PROVE AllInv'
      BY <2>1 DEF AllInv
    <3>2. PICK k \in DOMAIN Phases :
            /\ job.phase = Phases[k]
            /\ \A i \in 1..(k - 1) : Through(Phases[i])
            /\ Printed(logs[Phases[k]], Commands[Phases[k]],
                       IF job.at = 0 THEN Len(Commands[Phases[k]]) ELSE job.at - 1)
      BY <3>1 DEF RunInv, AllInv
    <3>3. Passed(lines)
      BY <1>9, <3>2, PhaseFacts
    <3>4. \A ph \in Phase : \A j \in DOMAIN logs'[ph] : Passed(logs'[ph][j])
      <4>1. \A ph \in Phase : \A j \in DOMAIN logs[ph] : Passed(logs[ph][j])
        BY <3>1 DEF RunInv, AllInv
      <4> QED BY <1>4, <3>3, <4>1
    <3>5. \A i \in 1..(k - 1) : Through(Phases[i])'
      <4>1. \A i \in 1..(k - 1) : i \in DOMAIN Phases
        BY <3>2, PhaseFacts, SMT
      <4>2. \A i \in 1..(k - 1) : Phases[i] \in Phase
        BY <4>1, PhaseFacts
      <4> QED BY <1>4, <1>9, <3>2, <4>2 DEF Through
    <3>6. Printed(logs'[Phases[k]], Commands[Phases[k]], job.at)
      <4>1. job.at # 0
        BY <2>2
      <4>2. Printed(logs'[Phases[k]], Commands[Phases[k]], job.at - 1)
        BY <1>3, <1>4, <3>2, <4>1
      <4>3. SUFFICES ASSUME NEW c \in DOMAIN Commands[Phases[k]], c <= job.at, NEW g \in Commands[Phases[k]][c]
            PROVE  \E j \in DOMAIN logs'[Phases[k]] : g \in DOMAIN logs'[Phases[k]][j]
        BY DEF Printed
      <4>4. CASE c <= job.at - 1
        BY <4>2, <4>3, <4>4 DEF Printed
      <4>5. CASE ~(c <= job.at - 1)
        <5>1. c = job.at
          BY <2>1, <2>2, <3>2, <4>3, <4>5, SMT
        <5>2. g \in gates
          BY <3>2, <4>3, <5>1 DEF gates
        <5>3. g \in DOMAIN lines
          BY <1>2, <5>2
        <5>4. lines # << >>
          BY <5>3
        <5> QED BY <1>4, <3>2, <5>3, <5>4
      <4> QED BY <4>4, <4>5
    <3>7. job'.at # 0 /\ job'.at - 1 = job.at
      BY <2>1, SMT
    <3>8. report' \subseteq {"PASS"}
      BY <1>1, <3>1 DEF RunInv, AllInv
    <3>9. /\ job'.phase = Phases[k]
          /\ \A i \in 1..(k - 1) : Through(Phases[i])'
          /\ Printed(logs'[Phases[k]], Commands[Phases[k]],
                     IF job'.at = 0 THEN Len(Commands[Phases[k]]) ELSE job'.at - 1)
      BY <2>1, <3>2, <3>5, <3>6, <3>7
    <3> QED BY <3>4, <3>8, <3>9 DEF AllInv
  <2>6. SealInv' /\ FailedGateShows'
    BY <1>6, <2>4 DEF SealInv, FailedGateShows
  <2> QED BY <2>3, <2>5, <2>6 DEF RunInv
<1> QED BY <1>2, <1>8, <1>9

LEMMA FinishInv ==
  ASSUME RunInv, Finish
  PROVE  RunInv'
<1>1. /\ FormInv /\ job # NoJob /\ job.phase # Report /\ job.at = Len(Commands[job.phase]) + 1
      /\ End("PASS") /\ logs' = logs /\ report' = report /\ sealed' = sealed /\ listed' = listed
  BY DEF Finish, RunInv, sumVars
<1>2. sums' \subseteq listed' /\ listed' \subseteq files'
  <2>1. PICK names : Touch(names)
    BY DEF Finish
  <2> QED BY <1>1, <2>1, TouchKeeps
<1>3. sealed' = FALSE
  BY <1>1, NotSealed
<1>4. logs' \in [Phase -> Seq(Lines)] /\ report' \subseteq {"PASS", "FAIL"} /\ job.phase \in Phase
  BY <1>1 DEF FormInv
<1>5. /\ timings' \in [Phase -> {"NONE", "PASS", "FAIL"}] /\ timings'[job.phase] = "PASS"
      /\ \A ph \in Phase : ph # job.phase => timings'[ph] = timings[ph]
      /\ \/ job' = NoJob
         \/ job.all /\ job' = [phase |-> job.phase, at |-> 0, all |-> TRUE]
  BY <1>1, EndKeeps
<1>6. CASE job' = NoJob
  BY <1>2, <1>3, <1>4, <1>5, <1>6, StopInv
<1>7. CASE job.all /\ job' = [phase |-> job.phase, at |-> 0, all |-> TRUE]
  <2>1. /\ job'.phase = job.phase /\ job'.at = 0 /\ job'.all = TRUE
        /\ job' \in [phase : Phase \cup {"none"}, at : Nat, all : BOOLEAN]
    BY <1>4, <1>7
  <2>2. FormInv'
    <3>1. 0 \in 0..(Len(Commands[job.phase]) + 2)
      BY <1>4, PhaseFacts, SMT
    <3>2. job'.phase \in Phase /\ job'.at \in 0..(Len(Commands[job'.phase]) + 2)
          /\ timings'[job'.phase] = "PASS" /\ sealed' \in BOOLEAN /\ job'.all
      BY <1>3, <1>4, <1>5, <2>1, <3>1
    <3> QED BY <1>2, <1>4, <1>5, <2>1, <3>2, Zenon DEF FormInv
  <2>3. AllInv'
    <3>1. PICK k \in DOMAIN Phases :
            /\ job.phase = Phases[k]
            /\ \A i \in 1..(k - 1) : Through(Phases[i])
            /\ Printed(logs[Phases[k]], Commands[Phases[k]],
                       IF job.at = 0 THEN Len(Commands[Phases[k]]) ELSE job.at - 1)
      BY <1>7 DEF RunInv, AllInv
    <3>2. job.at # 0 /\ job.at - 1 = Len(Commands[Phases[k]])
      BY <1>1, <1>4, <3>1, PhaseFacts, SMT
    <3>3. \A i \in 1..(k - 1) : Through(Phases[i])'
      <4>1. \A i \in 1..(k - 1) : i \in DOMAIN Phases /\ i # k
        BY <3>1, PhaseFacts, SMT
      <4>2. \A i \in 1..(k - 1) : Phases[i] \in Phase /\ Phases[i] # job.phase
        BY <3>1, <4>1, PhaseFacts
      <4> QED BY <1>1, <1>5, <3>1, <4>2 DEF Through
    <3>4. report' \subseteq {"PASS"} /\ \A ph \in Phase : \A j \in DOMAIN logs'[ph] : Passed(logs'[ph][j])
      BY <1>1, <1>7 DEF RunInv, AllInv
    <3>5. /\ job'.phase = Phases[k]
          /\ Printed(logs'[Phases[k]], Commands[Phases[k]],
                     IF job'.at = 0 THEN Len(Commands[Phases[k]]) ELSE job'.at - 1)
      BY <1>1, <2>1, <3>1, <3>2
    <3> QED BY <3>3, <3>4, <3>5 DEF AllInv
  <2>4. SealInv' /\ FailedGateShows'
    BY <1>3, <2>1 DEF SealInv, FailedGateShows
  <2> QED BY <2>2, <2>3, <2>4 DEF RunInv
<1> QED BY <1>5, <1>6, <1>7

LEMMA BreakOffInv ==
  ASSUME RunInv, BreakOff \/ Kill
  PROVE  RunInv'
<1>1. /\ FormInv /\ job.at > 0 /\ report' = report /\ sealed' = sealed /\ listed' = listed
      /\ \/ End("FAIL")
         \/ job' = NoJob /\ timings' = timings
  BY DEF BreakOff, Kill, RunInv, sumVars
<1>2. job # NoJob
  BY <1>1, NoJobForm, SMT
<1>3. PICK lines \in Partial : PrintGates(lines)
  BY DEF BreakOff, Kill
<1>4. logs' \in [Phase -> Seq(Lines)]
  <2>1. lines \in Lines /\ job.phase \in Phase
    BY <1>1, <1>2, LinesPrinted DEF FormInv
  <2> QED BY <1>1, <1>3, <2>1, PrintKeeps
<1>5. sums' \subseteq listed' /\ listed' \subseteq files'
  <2>1. PICK names : Touch(names)
    BY DEF BreakOff, Kill
  <2> QED BY <1>1, <2>1, TouchKeeps
<1>6. sealed' = FALSE
  BY <1>1, <1>2, NotSealed
<1>7. job' = NoJob /\ timings' \in [Phase -> {"NONE", "PASS", "FAIL"}]
  <2>1. CASE End("FAIL")
    BY <1>1, <1>2, <2>1, EndKeeps
  <2>2. CASE job' = NoJob /\ timings' = timings
    BY <1>1, <2>2 DEF FormInv
  <2> QED BY <1>1, <2>1, <2>2
<1>8. report' \subseteq {"PASS", "FAIL"}
  BY <1>1 DEF FormInv
<1> QED BY <1>4, <1>5, <1>6, <1>7, <1>8, StopInv

LEMMA OrphanInv ==
  ASSUME RunInv, NEW f \in orphans, OrphanWrites(f)
  PROVE  RunInv'
<1>1. /\ logs' = logs /\ timings' = timings /\ report' = report /\ listed' = listed /\ job' = job
      /\ sealed' = FALSE /\ FormInv /\ AllInv /\ FailedGateShows
  BY DEF OrphanWrites, RunInv
<1>2. sums' \subseteq listed' /\ listed' \subseteq files'
  <2>1. PICK names : Touch(names)
    BY DEF OrphanWrites
  <2> QED BY <1>1, <2>1, TouchKeeps
<1>3. FormInv'
  BY <1>1, <1>2 DEF FormInv
<1>4. AllInv' /\ SealInv'
  BY <1>1 DEF AllInv, SealInv, Through
<1>5. FailedGateShows'
  BY <1>1 DEF FailedGateShows
<1> QED BY <1>3, <1>4, <1>5 DEF RunInv

\* The last result of a gate is the one in the last line there is, if it is in it.
LEMMA LastResult ==
  ASSUME FormInv, NEW ph \in Phase, logs[ph] # << >>, NEW g \in DOMAIN Last(logs[ph])
  PROVE  result(ph, g) = Last(logs[ph])[g]
<1> DEFINE n == Len(logs[ph])
           latest(i) == i \in DOMAIN logs[ph] /\ g \in DOMAIN logs[ph][i]
                        /\ \A j \in (i + 1)..n : g \notin DOMAIN logs[ph][j]
           last == CHOOSE i \in DOMAIN logs[ph] : /\ g \in DOMAIN logs[ph][i]
                                                  /\ \A j \in (i + 1)..n : g \notin DOMAIN logs[ph][j]
<1>1. logs[ph] \in Seq(Lines)
  BY DEF FormInv
<1>2. n \in Nat /\ n # 0 /\ DOMAIN logs[ph] = 1..n
  BY <1>1, LenProperties, EmptySeq
<1>3. latest(n)
  <2>1. n \in 1..n /\ \A j \in (n + 1)..n : FALSE
    BY <1>2, SMT
  <2> QED BY <1>2, <2>1 DEF Last
<1>4. latest(last)
  BY <1>3
<1>5. last = n
  <2>1. last \in 1..n /\ (last # n => n \in (last + 1)..n)
    BY <1>2, <1>4, SMT
  <2> QED BY <1>3, <1>4, <2>1
<1> QED BY <1>5, Zenon DEF result, Last

\* A gate whose every line is a pass has not failed.
LEMMA AllLinesPass ==
  ASSUME FormInv, NEW ph \in Phase, NEW g, NEW i \in DOMAIN logs[ph], g \in DOMAIN logs[ph][i],
         \A j \in DOMAIN logs[ph] : Passed(logs[ph][j])
  PROVE  result(ph, g) = "PASS"
<1> DEFINE n == Len(logs[ph])
           last == CHOOSE l \in DOMAIN logs[ph] : /\ g \in DOMAIN logs[ph][l]
                                                  /\ \A j \in (l + 1)..n : g \notin DOMAIN logs[ph][j]
           T == {m \in Nat : \E l \in DOMAIN logs[ph] : g \in DOMAIN logs[ph][l] /\ m = n - l}
<1>1. logs[ph] \in Seq(Lines)
  BY DEF FormInv
<1>2. n \in Nat /\ DOMAIN logs[ph] = 1..n
  BY <1>1, LenProperties
<1>3. PICK m \in T : \A k \in T : ~(<<k, m>> \in OpToRel(<, Nat))
  <2>1. T \subseteq Nat
    OBVIOUS
  <2>2. n - i \in T
    BY <1>2, SMT
  <2> HIDE DEF T
  <2> QED BY <2>1, <2>2, NatLessThanWellFounded, WFMin
<1>4. PICK l \in DOMAIN logs[ph] : g \in DOMAIN logs[ph][l] /\ m = n - l
  BY <1>3
<1>5. ASSUME NEW j \in (l + 1)..n, g \in DOMAIN logs[ph][j] PROVE FALSE
  <2>1. j \in DOMAIN logs[ph] /\ n - j \in Nat /\ n - j < n - l /\ n - l \in Nat
    BY <1>2, <1>4, <1>5, SMT
  <2>2. n - j \in T
    BY <1>5, <2>1
  <2>3. <<n - j, m>> \in OpToRel(<, Nat)
    BY <1>4, <2>1 DEF OpToRel
  <2> QED BY <1>3, <2>2, <2>3
<1>6. last \in DOMAIN logs[ph] /\ g \in DOMAIN logs[ph][last]
  BY <1>4, <1>5
<1>7. logs[ph][last][g] = "PASS"
  BY <1>6 DEF Passed
<1> QED BY <1>7, Zenon DEF result

LEMMA WriteReportInv ==
  ASSUME RunInv, WriteReport
  PROVE  RunInv'
<1>1. /\ FormInv /\ job.phase = Report /\ job.at = 1 /\ report' = {verdict_of_run}
      /\ logs' = logs /\ sealed' = sealed /\ listed' = listed
  BY DEF WriteReport, RunInv, sumVars
<1>2. job # NoJob
  BY <1>1, NoJobForm, SMT
<1>3. sealed' = FALSE
  BY <1>1, <1>2, NotSealed
<1>4. sums' \subseteq listed' /\ listed' \subseteq files'
  <2>1. PICK names : Touch(names)
    BY DEF WriteReport
  <2> QED BY <1>1, <2>1, TouchKeeps
<1>5. logs' \in [Phase -> Seq(Lines)] /\ report' \subseteq {"PASS", "FAIL"}
  BY <1>1 DEF FormInv, verdict_of_run
<1>6. CASE verdict_of_run # "PASS"
  <2>1. End("FAIL")
    BY <1>6 DEF WriteReport
  <2>2. job' = NoJob /\ timings' \in [Phase -> {"NONE", "PASS", "FAIL"}]
    BY <1>1, <1>2, <2>1, EndKeeps
  <2> QED BY <1>3, <1>4, <1>5, <2>2, StopInv
<1>7. CASE verdict_of_run = "PASS"
  <2>1. /\ job'.phase = Report /\ job'.at = 2 /\ job'.all = job.all
        /\ job' \in [phase : Phase \cup {"none"}, at : Nat, all : BOOLEAN]
        /\ timings' = timings
    <3>1. job \in [phase : Phase \cup {"none"}, at : Nat, all : BOOLEAN]
      BY <1>1 DEF FormInv
    <3>2. job' = [job EXCEPT !.at = 2] /\ timings' = timings
      BY <1>7 DEF WriteReport
    <3> QED BY <1>1, <3>1, <3>2
  <2>2. FormInv'
    <3>1. 2 \in 0..(Len(Commands[Report]) + 2) /\ Report \in Phase
      BY PhaseFacts, SMT
    <3>2. job'.phase \in Phase /\ job'.at \in 0..(Len(Commands[job'.phase]) + 2) /\ job'.at # 0
      BY <2>1, <3>1
    <3>3. timings' \in [Phase -> {"NONE", "PASS", "FAIL"}] /\ sealed' \in BOOLEAN
      BY <1>1, <1>3, <2>1 DEF FormInv
    <3> QED BY <1>4, <1>5, <2>1, <3>2, <3>3, Zenon DEF FormInv
  <2>3. AllInv'
    <3>1. SUFFICES ASSUME job.all PROVE AllInv'
      BY <2>1 DEF AllInv
    <3>2. PICK k \in DOMAIN Phases :
            /\ job.phase = Phases[k]
            /\ \A i \in 1..(k - 1) : Through(Phases[i])
      BY <3>1 DEF RunInv, AllInv
    <3>3. Printed(logs'[Phases[k]], Commands[Phases[k]],
                  IF job'.at = 0 THEN Len(Commands[Phases[k]]) ELSE job'.at - 1)
      BY <1>1, <3>2, PhaseFacts DEF Printed
    <3>4. \A i \in 1..(k - 1) : Through(Phases[i])'
      BY <1>1, <2>1, <3>2 DEF Through
    <3>5. report' \subseteq {"PASS"} /\ \A ph \in Phase : \A j \in DOMAIN logs'[ph] : Passed(logs'[ph][j])
      BY <1>1, <1>7, <3>1 DEF RunInv, AllInv
    <3>6. job'.phase = Phases[k]
      BY <1>1, <2>1, <3>2
    <3> QED BY <3>3, <3>4, <3>5, <3>6 DEF AllInv
  <2>4. FailedGateShows'
    <3>1. main_gates # {} /\ failed = {}
      BY <1>7 DEF verdict_of_run
    <3>2. \E ph \in Phase \ Outside : logs[ph] # << >>
      <4>1. PICK k \in (Phase \ Outside) \X Gates :
              \E i \in DOMAIN logs[k[1]] : k[2] \in DOMAIN logs[k[1]][i]
        BY <3>1 DEF main_gates
      <4>2. k[1] \in Phase \ Outside /\ DOMAIN logs[k[1]] # {}
        BY <4>1
      <4>3. logs[k[1]] # << >>
        BY <4>2
      <4> QED BY <4>2, <4>3
    <3>3. ASSUME NEW ph \in Phase \ Outside, logs[ph] # << >>
          PROVE  Passed(Last(logs[ph]))
      <4>1. logs[ph] \in Seq(Lines) /\ Len(logs[ph]) \in DOMAIN logs[ph] /\ Last(logs[ph]) = logs[ph][Len(logs[ph])]
        <5>1. logs[ph] \in Seq(Lines)
          BY <1>1, <3>3 DEF FormInv
        <5>2. Len(logs[ph]) \in Nat /\ Len(logs[ph]) # 0 /\ DOMAIN logs[ph] = 1..Len(logs[ph])
          BY <3>3, <5>1, LenProperties, EmptySeq
        <5>3. \A n \in Nat : n # 0 => n \in 1..n
          BY SMT
        <5>4. Len(logs[ph]) \in DOMAIN logs[ph]
          BY <5>2, <5>3, Zenon
        <5> QED BY <5>1, <5>4 DEF Last
      <4>2. Last(logs[ph]) \in Lines
        BY <4>1, ElementOfSeq, LenProperties
      <4>3. PICK part \in SUBSET Gates : Last(logs[ph]) \in [part -> {"PASS", "FAIL"}]
        BY <4>2 DEF Lines
      <4>4. ASSUME NEW g \in DOMAIN Last(logs[ph]) PROVE Last(logs[ph])[g] = "PASS"
        <5>1. g \in Gates /\ Last(logs[ph])[g] \in {"PASS", "FAIL"}
          BY <4>3, <4>4
        <5>2. <<ph, g>> \in main_gates
          BY <3>3, <4>1, <4>4, <5>1 DEF main_gates
        <5>3. result(ph, g) # "FAIL"
          BY <3>1, <5>2 DEF failed
        <5>4. result(ph, g) = Last(logs[ph])[g]
          BY <1>1, <3>3, <4>4, LastResult
        <5> QED BY <5>1, <5>3, <5>4
      <4> QED BY <4>4 DEF Passed
    <3> QED BY <1>1, <3>2, <3>3 DEF FailedGateShows
  <2>5. SealInv'
    BY <1>3 DEF SealInv
  <2> QED BY <2>2, <2>3, <2>4, <2>5 DEF RunInv
<1> QED BY <1>6, <1>7

LEMMA HashFilesInv ==
  ASSUME RunInv, HashFiles
  PROVE  RunInv'
<1>1. /\ FormInv /\ job.phase = Report /\ job.at = 2 /\ End("PASS")
      /\ files' = files \cup {LogOf(Report), Timings}
      /\ listed' = hashed /\ sums' = hashed \ {LogOf(Report), Timings} /\ sealed' = TRUE
      /\ logs' = logs /\ report' = report
  BY DEF HashFiles, RunInv
<1>2. job # NoJob
  BY <1>1, NoJobForm, SMT
<1>3. job' = NoJob /\ timings' \in [Phase -> {"NONE", "PASS", "FAIL"}]
  BY <1>1, <1>2, EndKeeps
<1>4. sums' = listed' /\ listed' \subseteq files' /\ files' \ listed' = {LogOf(Report), Timings}
  BY <1>1 DEF hashed
<1>5. job' \in [phase : Phase \cup {"none"}, at : Nat, all : BOOLEAN] /\ job'.at = 0 /\ ~job'.all
  BY <1>3, NoJobForm
<1>6. FormInv'
  <2>1. logs' \in [Phase -> Seq(Lines)] /\ report' \subseteq {"PASS", "FAIL"} /\ sealed' \in BOOLEAN
    BY <1>1 DEF FormInv
  <2>2. sums' \subseteq listed'
    BY <1>4
  <2> QED BY <1>3, <1>4, <1>5, <2>1, <2>2, Zenon DEF FormInv
<1>7. AllInv' /\ FailedGateShows'
  BY <1>5 DEF AllInv, FailedGateShows
<1>8. SealInv'
  <2>1. LogOf(Report)' = LogOf(Report) /\ Timings' = Timings
    OBVIOUS
  <2> QED BY <1>3, <1>4 DEF SealInv
<1> QED BY <1>6, <1>7, <1>8 DEF RunInv

LEMMA RunStutter == RunInv /\ UNCHANGED vars => RunInv'
BY DEF RunInv, FormInv, AllInv, Through, SealInv, FailedGateShows, vars, sumVars

LEMMA InitRunInv == Init => RunInv
<1> SUFFICES ASSUME Init PROVE RunInv
  OBVIOUS
<1>1. job.at = 0 /\ ~job.all /\ job = NoJob /\ job \in [phase : Phase \cup {"none"}, at : Nat, all : BOOLEAN]
  BY NoJobForm DEF Init
<1>2. logs \in [Phase -> Seq(Lines)] /\ timings \in [Phase -> {"NONE", "PASS", "FAIL"}]
  BY DEF Init
<1>3. FormInv
  BY <1>1, <1>2, Zenon DEF Init, FormInv
<1>4. AllInv /\ SealInv /\ FailedGateShows
  BY <1>1 DEF Init, AllInv, SealInv, FailedGateShows
<1> QED BY <1>3, <1>4 DEF RunInv

LEMMA StepRunInv == RunInv /\ [Next]_vars => RunInv'
<1> SUFFICES ASSUME RunInv, [Next]_vars PROVE RunInv'
  OBVIOUS
<1>1. CASE MakeAll
  BY <1>1, StartInv, PhaseFacts DEF MakeAll
<1>2. CASE NextPhase
  BY <1>2, NextPhaseInv
<1>3. ASSUME NEW ph \in Phase, StartPhase(ph) PROVE RunInv'
  BY <1>3, StartInv DEF StartPhase
<1>4. CASE Command
  BY <1>4, CommandInv
<1>5. CASE Finish
  BY <1>5, FinishInv
<1>6. CASE BreakOff \/ Kill
  BY <1>6, BreakOffInv
<1>7. ASSUME NEW f \in orphans, OrphanWrites(f) PROVE RunInv'
  BY <1>7, OrphanInv
<1>8. CASE WriteReport
  BY <1>8, WriteReportInv
<1>9. CASE HashFiles
  BY <1>9, HashFilesInv
<1>10. CASE UNCHANGED vars
  BY <1>10, RunStutter
<1> QED BY <1>1, <1>2, <1>3, <1>4, <1>5, <1>6, <1>7, <1>8, <1>9, <1>10 DEF Next

-----------------------------------------------------------------------------
(* What the evidence stands for. *)

\* The inductive invariant: the form of the evidence, that nothing has failed
\* and nothing is left out while `make all` goes on, the seal and the verdict.
THEOREM RunInvariant == Spec => []RunInv
<1> QED BY InitRunInv, StepRunInv, PTL DEF Spec

\* Every variable keeps its type: a log has passes and fails, SHA256SUMS lists
\* files that are there, make goes on only after a phase that passed.
THEOREM RunTypes == Spec => []RunTypeOK
<1>1. RunInv => RunTypeOK
  <2> SUFFICES ASSUME RunInv PROVE RunTypeOK
    OBVIOUS
  <2>1. FormInv
    BY DEF RunInv
  <2>2. ASSUME NEW ph \in Phase, NEW i \in DOMAIN logs[ph], NEW g \in DOMAIN logs[ph][i]
        PROVE  logs[ph][i][g] \in {"PASS", "FAIL"}
    <3>1. logs[ph] \in Seq(Lines)
      BY <2>1 DEF FormInv
    <3>2. logs[ph][i] \in Lines
      BY <2>2, <3>1, ElementOfSeq, LenProperties
    <3> QED BY <2>2, <3>2 DEF Lines
  <2> QED BY <2>1, <2>2 DEF FormInv, RunTypeOK
<1> QED BY <1>1, RunInvariant, PTL

\* `make all` comes to the report only when every phase before it has passed
\* with every gate it has, whatever phases and gates there are.
THEOREM MakeAllComplete == Spec => []MakeAllIsComplete
<1>1. RunInv => MakeAllIsComplete
  <2> SUFFICES ASSUME RunInv, job.all, job.phase = Report
               PROVE  /\ \A i \in 1..(Len(Phases) - 1) : AllPassed(Phases[i])
                      /\ report \subseteq {"PASS"}
    BY DEF MakeAllIsComplete
  <2>1. /\ FormInv /\ report \subseteq {"PASS"}
        /\ \A ph \in Phase : \A j \in DOMAIN logs[ph] : Passed(logs[ph][j])
    BY DEF RunInv, AllInv
  <2>2. PICK k \in DOMAIN Phases : job.phase = Phases[k] /\ \A i \in 1..(k - 1) : Through(Phases[i])
    BY DEF RunInv, AllInv
  <2>3. k = Len(Phases)
    <3>1. Len(Phases) \in DOMAIN Phases
      BY PhaseFacts, SMT
    <3> QED BY <2>2, <3>1, PhaseFacts DEF Report
  <2>4. ASSUME NEW i \in 1..(Len(Phases) - 1) PROVE AllPassed(Phases[i])
    <3>1. i \in DOMAIN Phases
      BY PhaseFacts, SMT
    <3>2. Phases[i] \in Phase \ Outside /\ Through(Phases[i])
      BY <2>2, <2>3, <3>1, PhaseFacts
    <3>3. ASSUME NEW g \in UNION ToSet(Commands[Phases[i]])
          PROVE  <<Phases[i], g>> \in main_gates \ failed
      <4>1. PICK c \in DOMAIN Commands[Phases[i]] : g \in Commands[Phases[i]][c]
        BY <3>3 DEF ToSet
      <4>2. c <= Len(Commands[Phases[i]])
        BY <3>2, <4>1, PhaseFacts, SMT
      <4>3. PICK j \in DOMAIN logs[Phases[i]] : g \in DOMAIN logs[Phases[i]][j]
        BY <3>2, <4>1, <4>2 DEF Through, Printed
      <4>4. g \in Gates
        BY <3>2, <3>3 DEF Gates
      <4>5. <<Phases[i], g>> \in main_gates
        BY <3>2, <4>3, <4>4 DEF main_gates
      <4>6. result(Phases[i], g) = "PASS"
        BY <2>1, <3>2, <4>3, AllLinesPass
      <4> QED BY <4>5, <4>6 DEF failed
    <3> QED BY <3>2, <3>3 DEF AllPassed, Through
  <2> QED BY <2>1, <2>4
<1> QED BY <1>1, RunInvariant, PTL

\* A report that passes is not older than a gate that failed since, however
\* phases were re-run, killed or broken off before it.
THEOREM FailedShows == Spec => []FailedGateShows
<1>1. RunInv => FailedGateShows
  BY DEF RunInv
<1> QED BY <1>1, RunInvariant, PTL

\* SHA256SUMS is right about what it lists and lists all but the two files that
\* are written after it, until something writes on.
THEOREM SealHolds == Spec => []SumsHold
<1>1. RunInv => SumsHold
  BY DEF RunInv, SealInv, SumsHold
<1> QED BY <1>1, RunInvariant, PTL
=============================================================================
