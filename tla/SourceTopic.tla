---------------------------- MODULE SourceTopic ----------------------------
(***************************************************************************)
(* The live topic the offload works on: a single-broker Kafka topic with   *)
(* its segments, log start offset, high watermark, retention.ms and the    *)
(* offsets that consumer groups have committed.  The broker, the producers *)
(* and the consumers are not part of the repository; they are modelled     *)
(* from what the scripts and the verifier rely on:                         *)
(*   prune.py:3-12 (the broker's retention rule), docker-compose.yml       *)
(*   (one broker, a retention check every 30 s), seed.py (CreateTime       *)
(*   timestamps, late records), consumer_sim.py (committed offsets).       *)
(***************************************************************************)
EXTENDS Retention

CONSTANTS
  Partition,      \* the partitions of the topic
  Group,          \* consumer groups that may commit offsets on the topic
  Late,           \* how far behind the clock a producer may stamp a record
  Rewinds,        \* TRUE: groups may also join or be reset to any offset
  SeedTopics,     \* the topics phase 10 may leave behind, see InitTopic
  SeedCommits,    \* the offsets the groups may have committed by then
  InitNow,        \* the time at which the behaviour starts
  MaxOffset       \* bound: producers stop at this log end offset

ASSUME SourceTopicAssumption ==
  /\ Late \subseteq Nat
  /\ Rewinds \in BOOLEAN
  /\ SeedCommits \subseteq [Group -> [Partition -> Nat \cup {-1}]]
  /\ InitNow \in Nat
  /\ MaxOffset \in Nat

Infinite == -1    \* retention.ms=-1, what seed.py creates the topic with
NoOffset == -1    \* the group has committed nothing on the partition

VARIABLES
  now,            \* wall clock, one tick per second
  segs,           \* segs[p]: the log, a function from base offsets to segments
  low,            \* low[p]: log start offset
  high,           \* high[p]: high watermark, equal to the log end on one broker
  retention_ms,   \* the topic's retention.ms
  committed       \* committed[g][p]: an offset or NoOffset

topicVars == <<now, segs, low, high, retention_ms, committed>>

-----------------------------------------------------------------------------
IsActive(p, b) == b \in DOMAIN segs[p] /\ \A c \in DOMAIN segs[p] : c <= b

\* The log start is the base of the oldest segment; no segment starts beyond
\* the high watermark.
PartitionTypeOK(p) ==
  /\ IsLog(segs[p])
  /\ low[p] \in DOMAIN segs[p]
  /\ high[p] \in Nat
  /\ \A b \in DOMAIN segs[p] : low[p] <= b /\ b <= high[p]

TopicTypeOK ==
  /\ now \in Nat
  /\ DOMAIN segs = Partition /\ DOMAIN low = Partition /\ DOMAIN high = Partition
  /\ \A p \in Partition : PartitionTypeOK(p)
  /\ retention_ms \in Int
  /\ committed \in [Group -> [Partition -> Nat \cup {NoOffset}]]

\* A topic just seeded: every segment holds records, offsets are contiguous
\* from the log start to the high watermark, retention.ms is -1.
SeededPartition(t) ==
  /\ IsLog(t.segments)
  /\ t.log_start \in DOMAIN t.segments
  /\ t.high_watermark \in Nat
  /\ \A b \in DOMAIN t.segments :
       /\ t.segments[b].count > 0
       /\ t.log_start <= b /\ b < t.high_watermark

InitTopic ==
  /\ now = InitNow
  /\ \E t \in SeedTopics :
       /\ \A p \in Partition : SeededPartition(t[p])
       /\ segs = [p \in Partition |-> t[p].segments]
       /\ low = [p \in Partition |-> t[p].log_start]
       /\ high = [p \in Partition |-> t[p].high_watermark]
  /\ retention_ms = Infinite
  /\ committed \in SeedCommits

-----------------------------------------------------------------------------
\* A producer appends one record.  The broker appends it to the active segment
\* or, when that is full, to a new one; an empty segment is never rolled.
Produce(p) ==
  /\ high[p] < MaxOffset
  /\ \E lag \in Late, a \in DOMAIN segs[p] :
       LET ts   == now - lag
           seg  == segs[p][a]
           last == IF seg.count > 0 /\ seg.max_ts > ts THEN seg.max_ts ELSE ts
       IN  /\ IsActive(p, a)
           /\ \/ segs' = [segs EXCEPT ![p][a] = [count |-> seg.count + 1, max_ts |-> last]]
              \/ /\ seg.count > 0
                 /\ segs' = [segs EXCEPT ![p] =
                               [b \in DOMAIN segs[p] \cup {high[p]} |->
                                  IF b = high[p] THEN [count |-> 1, max_ts |-> ts]
                                                 ELSE segs[p][b]]]
  /\ high' = [high EXCEPT ![p] = @ + 1]
  /\ UNCHANGED <<now, low, retention_ms, committed>>

\* The log cleaner's periodic check of one partition.  When every segment
\* qualifies the active one is rolled first, so an empty segment remains.
RetentionCheck(p) ==
  LET deleted == DeletableSegments(segs[p], high[p], high[p], now, retention_ms)
      kept    == DOMAIN segs[p] \ deleted
  IN  /\ retention_ms # Infinite
      /\ deleted # {}
      /\ \/ /\ kept = {}
            /\ segs' = [segs EXCEPT ![p] = [b \in {high[p]} |-> EmptySegment]]
            /\ low' = [low EXCEPT ![p] = high[p]]
         \/ \E k \in kept :
            /\ \A c \in kept : k <= c
            /\ segs' = [segs EXCEPT ![p] = Restrict(segs[p], kept)]
            /\ low' = [low EXCEPT ![p] = k]
      /\ UNCHANGED <<now, high, retention_ms, committed>>

\* A running consumer commits the position it has reached.
CommitForward(g, p) ==
  /\ committed[g][p] # NoOffset
  /\ \E o \in (committed[g][p] + 1)..high[p] :
       /\ low[p] <= o
       /\ committed' = [committed EXCEPT ![g][p] = o]
  /\ UNCHANGED <<now, segs, low, high, retention_ms>>

\* A group is created at, or an operator resets it to, any retained offset.
ResetOffset(g, p) ==
  /\ Rewinds
  /\ \E o \in low[p]..high[p] :
       /\ o # committed[g][p]
       /\ committed' = [committed EXCEPT ![g][p] = o]
  /\ UNCHANGED <<now, segs, low, high, retention_ms>>

TopicStep ==
  \/ \E p \in Partition : Produce(p) \/ RetentionCheck(p)
  \/ \E g \in Group, p \in Partition : CommitForward(g, p) \/ ResetOffset(g, p)
=============================================================================
