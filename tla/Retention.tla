----------------------------- MODULE Retention -----------------------------
(***************************************************************************)
(* The arithmetic of time retention, shared by the broker that deletes     *)
(* and the verifier that predicts what the broker will delete              *)
(* (tools/verifier/verifier/prune.py).                                     *)
(*                                                                         *)
(* A partition's log is a function from the base offsets of its segments   *)
(* to segments.  The segment with the largest base offset is the active    *)
(* one.  A segment keeps its record count and its largest record           *)
(* timestamp; one record stands for one byte of log.                       *)
(***************************************************************************)
EXTENDS Integers, FiniteSetsExt

Segment == [count : Nat, max_ts : Int]

\* A segment file that exists and holds no record; max_ts is None in the code.
EmptySegment == [count |-> 0, max_ts |-> 0]

IsLog(log) ==
  /\ DOMAIN log \subseteq Nat
  /\ \A b \in DOMAIN log : log[b] \in Segment

-----------------------------------------------------------------------------
\* now_ms - seg["max_ts"] > retention_ms, for a segment that has a max_ts.
Breached(seg, now, retention) ==
  seg.count > 0 /\ now - seg.max_ts > retention

\* high_watermark >= upper: `upper` is the base of the next segment or, for the
\* active segment, the end of the log.
BelowHighWatermark(log, b, end, high_watermark) ==
  \/ \E c \in DOMAIN log : b < c /\ c <= high_watermark
  \/ (\A c \in DOMAIN log : c <= b) /\ end <= high_watermark

Deletable(log, b, end, high_watermark, now, retention) ==
  /\ BelowHighWatermark(log, b, end, high_watermark)
  /\ Breached(log[b], now, retention)

\* The walk "oldest first, stop at the first segment that is not deletable".
DeletableSegments(log, end, high_watermark, now, retention) ==
  {b \in DOMAIN log : \A c \in DOMAIN log :
      c <= b => Deletable(log, c, end, high_watermark, now, retention)}

-----------------------------------------------------------------------------
\* What the verifier computes from one partition of the baseline.  A baseline
\* partition is a record [segments, log_start, high_watermark].
M_predict_partition(bp, now, retention) ==   \* mutant: no stop at the first kept segment
  {b \in DOMAIN bp.segments : Breached(bp.segments[b], now, retention)}

predict_partition(bp, now, retention) ==
  DeletableSegments(bp.segments, bp.high_watermark, bp.high_watermark, now, retention)

kept_segments(bp, deleted) == DOMAIN bp.segments \ deleted

predicted_log_start(bp, deleted) ==
  IF kept_segments(bp, deleted) = {} THEN bp.high_watermark
                                     ELSE Min(kept_segments(bp, deleted))

M_ambiguous_segments(bp, now, retention, margin) ==   \* mutant: abs() dropped, off by one
  {b \in DOMAIN bp.segments :
      /\ bp.segments[b].count > 0
      /\ LET age == now - bp.segments[b].max_ts
         IN  0 < age - retention /\ age - retention <= margin}

\* Segments whose fate depends on exactly when the broker runs its check.
ambiguous_segments(bp, now, retention, margin) ==
  {b \in DOMAIN bp.segments :
      /\ bp.segments[b].count > 0
      /\ LET age == now - bp.segments[b].max_ts
         IN  -margin <= age - retention /\ age - retention <= margin}

\* Third element of ambiguous_segments' tuples: ticks until the segment has
\* left the band.
clears_in(bp, b, now, retention, margin) ==
  bp.segments[b].max_ts + retention + margin - now

log_bytes(log, bases) == MapThenSumSet(LAMBDA b : log[b].count, bases)
=============================================================================
