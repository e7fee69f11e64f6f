------------------------------ MODULE Offload ------------------------------
(***************************************************************************)
(* What the offload promises about the live topic, without segments, a     *)
(* clock, phases or evidence files.  Lowering retention.ms comes with a    *)
(* promise, a boundary on every partition, which lasts as long as the      *)
(* margin of the prediction does.  While it lasts the broker moves the log *)
(* start of a partition to the boundary or not at all; everything in front *)
(* of the boundary is archived and something behind it stays readable.     *)
(* Without a promise the broker may go further, never beyond the end.      *)
(*                                                                         *)
(* PruneGate implements this module, see ImplementsOffload there.          *)
(***************************************************************************)
EXTENDS Integers

CONSTANTS
  Partition       \* the partitions of the topic

VARIABLES
  archived,       \* archived[p]: the offsets the sealed archive holds
  start,          \* start[p]: the log start when the offload began
  low, high,      \* low[p], high[p]: log start and end
  altered,        \* retention.ms has been lowered
  promise         \* the boundaries promised, {} when no promise is in force

vars == <<archived, start, low, high, altered, promise>>

Init ==
  /\ low \in [Partition -> Nat] /\ start = low
  /\ \A p \in Partition : low[p] <= high[p]
  /\ ~altered /\ promise = {}

\* Somebody produces a record.
Append(p) ==
  /\ high' = [high EXCEPT ![p] = @ + 1]
  /\ UNCHANGED <<archived, start, low, altered, promise>>

\* Nothing in front of b is lost, and no partition is emptied.
Honest(b) ==
  \A p \in Partition :
    /\ low[p] <= b[p] /\ b[p] < high[p]
    /\ start[p]..(b[p] - 1) \subseteq archived[p]

\* retention.ms is lowered, or lowered again, under a promise.
Give ==
  /\ altered'
  /\ promise' # {} /\ \A b \in promise' : Honest(b)
  /\ UNCHANGED <<archived, start, low, high>>

\* The margin ends, or had ended before retention.ms was lowered.
GiveUp ==
  /\ altered'
  /\ promise' = {}
  /\ UNCHANGED <<archived, start, low, high>>

\* The broker deletes at the old end of a partition.
Remove(p) ==
  /\ altered
  /\ low' = [low EXCEPT ![p] = low'[p]]
  /\ low[p] <= low'[p] /\ low'[p] <= high[p]
  /\ \A b \in promise : low'[p] = b[p]
  /\ UNCHANGED <<archived, start, high, altered, promise>>

Next ==
  \/ \E p \in Partition : Append(p) \/ Remove(p)
  \/ Give \/ GiveUp

Spec == Init /\ [][Next]_vars
=============================================================================
