----------------------------- MODULE RunEvidence -----------------------------
(***************************************************************************)
(* The evidence directory of a run: how `make all` and single phases fill  *)
(* it (Makefile, scripts/lib.sh) and what phase 80 makes of it (report.py, *)
(* 80-report.sh).  What a phase does is left to the other modules; here it *)
(* is a sequence of commands, each of which writes JSON files and prints a *)
(* set of GATE lines, or breaks off without one.                           *)
(*                                                                         *)
(* The state is that of the current run directory.  Phase 00 makes a new   *)
(* one.  What is killed with SIGKILL runs no EXIT trap, and leaves behind  *)
(* the processes it had started: the verifier's container, which writes    *)
(* its file later, and the stats sampler, which writes on.                 *)
(***************************************************************************)
EXTENDS Integers, Sequences, SequencesExt

CONSTANTS
  Phases,         \* the phases of `make all` in order, the first is preflight
  Outside,        \* 95-negative-tests and 90-azurite
  Commands,       \* Commands[ph]: the sequence of the sets of gates ph prints
  Sampled,        \* phases that run the stats sampler
  MaxStarts       \* bound: phases started

Phase == ToSet(Phases) \cup Outside
Preflight == Phases[1]
Report == Phases[Len(Phases)]

Gates == UNION {UNION ToSet(Commands[ph]) : ph \in Phase}

ASSUME RunAssumption ==
  /\ Phases \in Seq(Phase) /\ Len(Phases) > 1 /\ IsInjective(Phases)
  /\ Commands \in [Phase -> Seq(SUBSET Gates)]
  /\ ToSet(Phases) \cap Outside = {}
  /\ Sampled \subseteq Phase \ {Report}
  /\ Commands[Report] = << >> /\ Commands[Preflight] # << >>
  /\ MaxStarts \in Nat

VARIABLES
  logs,           \* logs[ph]: its GATE lines, one function per command
  timings,        \* timings.tsv: the last verdict of a phase
  report,         \* report.md: the verdict, {} while there is none
  files,          \* the files in the directory
  listed, sums,   \* those SHA256SUMS lists, and lists with the digest they have
  sealed,         \* history: phase 80 passed, and nothing has written since
  orphans,        \* files that a process left behind may still write
  job, starts

sumVars == <<listed, sealed>>
vars == <<logs, timings, report, files, sums, sumVars, orphans, job, starts>>

LogOf(ph)   == <<"logs", ph>>
JsonOf(ph)  == <<"json", ph>>
StatsOf(ph) == <<"stats", ph>>
ReportFile  == <<"report", Report>>
Timings     == <<"timings", Report>>

NoJob == [phase |-> "none", at |-> 0, all |-> FALSE]

Init ==
  /\ logs = [ph \in Phase |-> << >>]
  /\ timings = [ph \in Phase |-> "NONE"]
  /\ report = {} /\ files = {} /\ sums = {} /\ orphans = {}
  /\ listed = {} /\ sealed = FALSE
  /\ job = NoJob /\ starts = 0

\* A file written is there, and no longer what SHA256SUMS says it is.
Touch(names) == files' = files \cup names /\ sums' = sums \ names

-----------------------------------------------------------------------------
(* lib.sh and the Makefile. *)

\* The log is opened and the sampler started; preflight makes the directory.
Begin(ph, all) ==
  LET names == {LogOf(ph)} \cup (IF ph \in Sampled THEN {StatsOf(ph)} ELSE {})
  IN  /\ starts < MaxStarts /\ starts' = starts + 1
      /\ job' = [phase |-> ph, at |-> 1, all |-> all]
      /\ IF ph = Preflight
         THEN /\ logs' = [q \in Phase |-> << >>]
              /\ timings' = [q \in Phase |-> "NONE"]
              /\ report' = {} /\ orphans' = {}
              /\ files' = names /\ sums' = {} /\ listed' = {}
         ELSE /\ Touch(names)
              /\ UNCHANGED <<logs, timings, report, orphans, listed>>
      /\ sealed' = FALSE

\* require_run: without preflight there is no run directory.
StartPhase(ph) ==
  /\ job = NoJob
  /\ ph # Preflight => files # {}
  /\ Begin(ph, FALSE)

MakeAll == job = NoJob /\ Begin(Preflight, TRUE)

M_End(verdict) ==   \* mutant: make goes on although a phase failed
  /\ timings' = [timings EXCEPT ![job.phase] = verdict]
  /\ job' = IF job.all /\ job.phase # Report 
           THEN [job EXCEPT !.at = 0] ELSE NoJob

\* The EXIT trap: the sampler stops, the verdict goes to timings.tsv and the log.
End(verdict) ==
  /\ timings' = [timings EXCEPT ![job.phase] = verdict]
  /\ job' = IF job.all /\ verdict = "PASS" /\ job.phase # Report 
           THEN [job EXCEPT !.at = 0] ELSE NoJob

NextPhase ==
  /\ job.all /\ job.at = 0
  /\ \E i \in 1..(Len(Phases) - 1) : Phases[i] = job.phase /\ Begin(Phases[i + 1], TRUE)

gates == Commands[job.phase][job.at]
Running == job.at \in DOMAIN Commands[job.phase]
PrintGates(lines) == logs' = [logs EXCEPT ![job.phase] = IF lines = << >> THEN @ ELSE Append(@, lines)]
Passed(lines) == \A g \in DOMAIN lines : lines[g] = "PASS"

\* One command: its files first, then its gates, all of them.  Phases outside
\* the verdict may go on after a failure, they expect gates to fail.
Command ==
  /\ job # NoJob /\ Running
  /\ \E lines \in [gates -> {"PASS", "FAIL"}] :
       /\ PrintGates(lines)
       /\ \/ /\ (Passed(lines) \/ job.phase \in Outside)
             /\ job' = [job EXCEPT !.at = @ + 1]
             /\ Touch({JsonOf(job.phase), LogOf(job.phase)})
             /\ UNCHANGED timings
          \/ /\ ~Passed(lines)
             /\ End("FAIL")
             /\ Touch({JsonOf(job.phase), LogOf(job.phase), Timings})
  /\ UNCHANGED <<report, sumVars, orphans, starts>>

Finish ==
  /\ job # NoJob /\ job.phase # Report /\ job.at = Len(Commands[job.phase]) + 1
  /\ End("PASS")
  /\ Touch({LogOf(job.phase), Timings})
  /\ UNCHANGED <<logs, report, sumVars, orphans, starts>>

\* What a command may have printed when it ends early; it ends with the first
\* gate that fails or at any point before.
Partial == {<< >>} \cup (IF Running THEN UNION {[part -> {"PASS", "FAIL"}] : part \in (SUBSET gates) \ {gates}} ELSE {})

\* fail, set -e, a traceback: the phase ends without a line for what went wrong.
BreakOff ==
  /\ job.at > 0
  /\ \E lines \in Partial : PrintGates(lines)
  /\ End("FAIL")
  /\ Touch({LogOf(job.phase), Timings})
  /\ UNCHANGED <<report, sumVars, orphans, starts>>

\* SIGKILL of the phase and of make.
Kill ==
  /\ job.at > 0
  /\ \E lines \in Partial : PrintGates(lines)
  /\ job' = NoJob
  /\ Touch({LogOf(job.phase)})
  /\ orphans' = orphans \cup (IF job.phase \in Sampled THEN {StatsOf(job.phase)} ELSE {})
                        \cup (IF Running THEN {JsonOf(job.phase)} ELSE {})
  /\ UNCHANGED <<timings, report, sumVars, starts>>

\* A container that was left behind writes its file and is gone; the sampler stays.
OrphanWrites(f) ==
  /\ f \in orphans
  /\ Touch({f})
  /\ orphans' = IF f[1] = "json" THEN orphans \ {f} ELSE orphans
  /\ sealed' = FALSE
  /\ UNCHANGED <<logs, timings, report, listed, job, starts>>

-----------------------------------------------------------------------------
(* report.py and phase 80. *)

\* The gates of the phases that decide the verdict, by phase and name.
main_gates ==
  {k \in (Phase \ Outside) \X Gates : \E i \in DOMAIN logs[k[1]] : k[2] \in DOMAIN logs[k[1]][i]}

M_result(ph, g) ==   \* mutant: the first result of a gate is kept
  LET first == CHOOSE i \in DOMAIN logs[ph] : /\ g \in DOMAIN logs[ph][i]
                                              /\ \A j \in 1..(i - 1) : g \notin DOMAIN logs[ph][j]
  IN  logs[ph][first][g]

\* A re-run phase: the latest result wins.
result(ph, g) ==
  LET last == CHOOSE i \in DOMAIN logs[ph] : /\ g \in DOMAIN logs[ph][i]
                                             /\ \A j \in (i + 1)..Len(logs[ph]) : g \notin DOMAIN logs[ph][j]
  IN  logs[ph][last][g]

failed == {k \in main_gates : result(k[1], k[2]) = "FAIL"}
verdict_of_run == IF main_gates # {} /\ failed = {} THEN "PASS" ELSE "FAIL"

\* verifier report exits with the verdict, so a failed run ends phase 80 here.
WriteReport ==
  /\ job.phase = Report /\ job.at = 1
  /\ report' = {verdict_of_run}
  /\ IF verdict_of_run = "PASS"
     THEN /\ job' = [job EXCEPT !.at = 2]
          /\ Touch({ReportFile})
          /\ UNCHANGED timings
     ELSE End("FAIL") /\ Touch({ReportFile, LogOf(Report), Timings})
  /\ UNCHANGED <<logs, sumVars, orphans, starts>>

M_hashed == files \ {LogOf(Report)}   \* mutant: timings.tsv is not left out

\* timings.tsv and the log of phase 80 are left out, the trap appends to them.
hashed == files \ {LogOf(Report), Timings}

HashFiles ==
  /\ job.phase = Report /\ job.at = 2
  /\ End("PASS")
  /\ files' = files \cup {LogOf(Report), Timings}
  /\ listed' = hashed /\ sums' = hashed \ {LogOf(Report), Timings}
  /\ sealed' = TRUE
  /\ UNCHANGED <<logs, report, orphans, starts>>

Next ==
  \/ MakeAll \/ NextPhase
  \/ \E ph \in Phase : StartPhase(ph)
  \/ Command \/ Finish \/ BreakOff \/ Kill
  \/ \E f \in orphans : OrphanWrites(f)
  \/ WriteReport \/ HashFiles

Spec == Init /\ [][Next]_vars

-----------------------------------------------------------------------------
(* Properties. *)

RunTypeOK ==
  /\ \A ph \in Phase : \A i \in DOMAIN logs[ph] : \A g \in DOMAIN logs[ph][i] : logs[ph][i][g] \in {"PASS", "FAIL"}
  /\ timings \in [Phase -> {"NONE", "PASS", "FAIL"}]
  /\ report \subseteq {"PASS", "FAIL"} /\ sealed \in BOOLEAN
  /\ sums \subseteq listed /\ listed \subseteq files
  /\ job # NoJob => job.phase \in Phase /\ job.at \in 0..(Len(Commands[job.phase]) + 2)
  /\ job.all /\ job.at = 0 => timings[job.phase] = "PASS"

AllPassed(ph) ==
  timings[ph] = "PASS" /\ \A g \in UNION ToSet(Commands[ph]) : <<ph, g>> \in main_gates \ failed

\* When `make all` comes to the report, every phase before it has passed with
\* every gate it has, so the report cannot pass on a part of the run
\* (Makefile:25-26, lib.sh:43-75).
MakeAllIsComplete ==
  job.all /\ job.phase = Report =>
    /\ \A i \in 1..(Len(Phases) - 1) : AllPassed(Phases[i])
    /\ report \subseteq {"PASS"}

\* However phases were re-run, killed or broken off: a report that passes is
\* not older than a gate that failed since, and phases outside the verdict
\* neither make nor break it (report.py:48-57, 86-92, 119).
FailedGateShows ==
  job.phase = Report /\ job.at = 2 =>
    /\ \E ph \in Phase \ Outside : logs[ph] # << >>
    /\ \A ph \in Phase \ Outside : logs[ph] # << >> => Passed(Last(logs[ph]))

\* 80-report.sh:11, "timings.tsv and this phase's log are appended after
\* hashing [...], so they are left out": SHA256SUMS is right about every file it
\* lists, and lists all others, until a phase is started or a process that a
\* killed phase left behind writes on.
SumsHold ==
  sealed =>
    /\ sums = listed
    /\ files \ listed = {LogOf(Report), Timings}

\* docs/how-it-works.md:9, "Every phase prints GATE lines and exits non-zero on
\* the first failure. report.md is built only from those lines": a report that
\* passes stands for phases that passed.
VerdictCoversPhases ==
  sealed => \A ph \in Phase \ Outside : timings[ph] # "FAIL"

-----------------------------------------------------------------------------
(* What makes the properties above inductive. *)

\* What a command can print: the result of some of the gates.
Lines == UNION {[part -> {"PASS", "FAIL"}] : part \in SUBSET Gates}

FormInv ==
  /\ logs \in [Phase -> Seq(Lines)]
  /\ timings \in [Phase -> {"NONE", "PASS", "FAIL"}]
  /\ report \subseteq {"PASS", "FAIL"} /\ sealed \in BOOLEAN
  /\ sums \subseteq listed /\ listed \subseteq files
  /\ job \in [phase : Phase \cup {"none"}, at : Nat, all : BOOLEAN]
  /\ job # NoJob => job.phase \in Phase /\ job.at \in 0..(Len(Commands[job.phase]) + 2)
  /\ job # NoJob /\ job.at = 0 => job.all
  /\ job.all /\ job.at = 0 => timings[job.phase] = "PASS"

\* Every gate of the first n commands of a phase is in its log.
Printed(log, commands, n) ==
  \A c \in DOMAIN commands : c <= n => \A g \in commands[c] : \E j \in DOMAIN log : g \in DOMAIN log[j]

Through(ph) == timings[ph] = "PASS" /\ Printed(logs[ph], Commands[ph], Len(Commands[ph]))

\* While `make all` goes on, nothing has failed since preflight made the
\* directory, and the phases before the one it is at are complete.
AllInv ==
  job.all =>
    /\ report \subseteq {"PASS"}
    /\ \A ph \in Phase : \A j \in DOMAIN logs[ph] : Passed(logs[ph][j])
    /\ \E k \in DOMAIN Phases :
         /\ job.phase = Phases[k]
         /\ \A i \in 1..(k - 1) : Through(Phases[i])
         /\ Printed(logs[Phases[k]], Commands[Phases[k]],
                    IF job.at = 0 THEN Len(Commands[Phases[k]]) ELSE job.at - 1)

SealInv == sealed => job = NoJob /\ sums = listed /\ files \ listed = {LogOf(Report), Timings}

RunInv == FormInv /\ AllInv /\ SealInv /\ FailedGateShows
=============================================================================
