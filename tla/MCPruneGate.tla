---------------------------- MODULE MCPruneGate ----------------------------
(***************************************************************************)
(* Small topics for TLC.  One tick is a scaled-down second: Retention is 6 *)
(* and the behaviour starts at 10, so a segment whose largest timestamp is *)
(* 2 is past the cut, one at 3 to 5 is inside the band of a margin of 1,   *)
(* and a later one is retained.                                            *)
(***************************************************************************)
EXTENDS PruneGate, TLC, Sequences

CONSTANTS p1, p2, analytics, billing

MCPartition == {p1, p2}
MCGroup == {analytics, billing}

\* One record per segment, the i-th with timestamp ts[i].
LogOf(ts) ==
  [segments |-> [b \in 0..(Len(ts) - 1) |-> [count |-> 1, max_ts |-> ts[b + 1]]],
   log_start |-> 0, high_watermark |-> Len(ts)]

\* Clean cut; a late record pins an old segment behind a young one; segments
\* in the band on either side of the cut; one that enters the band while the
\* script waits for another to leave it; a partition that is old as a whole; a
\* topic of which nothing is old, so that the prediction deletes nothing.
MCSeedTopics ==
  {p1 :> LogOf(t[1]) @@ p2 :> LogOf(t[2]) :
      t \in {<< <<2, 2, 9>>, <<1, 8>> >>, << <<2, 8, 1, 9>>, <<1, 8>> >>,
             << <<2, 5, 9>>, <<1, 4>> >>, << <<2, 5, 8>>, <<1, 9>> >>,
             << <<2, 9>>, <<1, 1>> >>, << <<8, 8, 9>>, <<8, 9>> >>}}

\* Fewer topics for the runs that check liveness.
MCLiveTopics ==
  {p1 :> LogOf(t[1]) @@ p2 :> LogOf(t[2]) :
      t \in {<< <<2, 2, 9>>, <<1, 8>> >>, << <<2, 5, 9>>, <<1, 4>> >>}}

\* Groups that have committed nothing: only the topic and the script move.
MCNoCommits == {[g \in MCGroup |-> [p \in MCPartition |-> NoOffset]]}

\* analytics sits at the log start, billing inside the log or at its end.
MCSeedCommits ==
  {analytics :> [p \in MCPartition |-> 0] @@ billing :> (p1 :> x @@ p2 :> y) :
      x \in {1, 2}, y \in {NoOffset, 0, 1}}

\* The same on the first partition only, for the run that checks liveness.
MCLiveCommits == {analytics :> (p1 :> 0 @@ p2 :> NoOffset) @@ billing :> (p1 :> 1 @@ p2 :> NoOffset)}

\* What the seal may span: from the log start or without the first record, to
\* the end of the shorter or of the longer topics or only to the first record
\* of p1, the later ones having been produced after the backup.  With the right
\* span, one of the three verdicts may be missing instead.
MCSealed(f, l, missing) ==
  [backup_verified |-> missing # "backup", manifest_anchor_intact |-> missing # "anchor",
   sealed_copy_verified |-> missing # "seal",
   first |-> [p \in MCPartition |-> f], last |-> p1 :> l[1] @@ p2 :> l[2]]

MCGoodEvidence == {MCSealed(0, <<2, 1>>, "none")}
MCSealedEvidence ==
  {MCSealed(f, l, "none") : f \in {0, 1}, l \in {<<0, 1>>, <<2, 1>>, <<3, 1>>}}
    \cup {MCSealed(0, <<2, 1>>, missing) : missing \in {"backup", "anchor", "seal"}}
=============================================================================
