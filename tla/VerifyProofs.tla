---------------------------- MODULE VerifyProofs ----------------------------
(***************************************************************************)
(* What a verdict of verify-restore is worth, for every span, late window, *)
(* window and way kafka-backup cuts the log into segments: no false alarm, *)
(* no missed loss, and a consumer group that resumes where it stopped.     *)
(***************************************************************************)
EXTENDS RestoreProofs, FunctionTheorems

-----------------------------------------------------------------------------
(* Days. *)

\* Integer division by its remainder, for negative numbers too.
LEMMA DivInt ==
  ASSUME NEW a \in Int, NEW n \in Nat \ {0}
  PROVE  a \div n \in Int /\ n * (a \div n) <= a /\ a < n * (a \div n) + n
  BY SMT

LEMMA MulMonoInt ==
  ASSUME NEW n \in Nat, NEW x \in Int, NEW y \in Int, x <= y
  PROVE  n * x <= n * y
  BY SMT

\* The remainder determines the quotient.
LEMMA DivIs ==
  ASSUME NEW a \in Int, NEW n \in Nat \ {0}, NEW q \in Int, n * q <= a, a < n * q + n
  PROVE  a \div n = q
<1> DEFINE r == a \div n
<1>1. r \in Int /\ n * r <= a /\ a < n * r + n
  BY DivInt
<1> HIDE DEF r
<1>2. n * (r + 1) = n * r + n /\ n * (q + 1) = n * q + n
  BY <1>1, SMT
<1>3. CASE r < q
  <2>1. n * (r + 1) <= n * q
    BY <1>1, <1>3, MulMonoInt, SMT
  <2> QED BY <1>1, <1>2, <2>1, SMT
<1>4. CASE q < r
  <2>1. n * (q + 1) <= n * r
    BY <1>1, <1>4, MulMonoInt, SMT
  <2> QED BY <1>1, <1>2, <2>1, SMT
<1> QED BY <1>1, <1>3, <1>4, SMT DEF r

\* The day of a timestamp, by its bounds.
LEMMA DayBounds ==
  ASSUME NEW ts \in Int, NEW d \in Int
  PROVE  /\ day_of(ts) \in Int
         /\ day_of(ts) = d <=> d * DAY <= ts /\ ts <= (d + 1) * DAY - 1
<1>1. DAY \in Nat \ {0}
  BY SeedAssumption
<1>2. /\ day_of(ts) \in Int /\ DAY * day_of(ts) <= ts /\ ts < DAY * day_of(ts) + DAY
      /\ DAY * d <= ts /\ ts < DAY * d + DAY => day_of(ts) = d
  BY <1>1, DivInt, DivIs DEF day_of
<1>3. d * DAY = DAY * d /\ (d + 1) * DAY = DAY * d + DAY
  BY <1>1, SMT
<1>4. d * DAY \in Int /\ DAY \in Int
  BY <1>1, SMT
<1> QED BY <1>2, <1>3, <1>4, SMT

\* The audit month is made of whole days.
LEMMA AuditDaysAre ==
  \E q \in Int :
    /\ audit_start = q * DAY /\ audit_end_exclusive = (q + AuditDays) * DAY
    /\ day_of(audit_start) = q
    /\ day_of(audit_end_exclusive - 1) = q + AuditDays - 1
    /\ day_of(audit_end_exclusive - DAY) = q + AuditDays - 1
<1> DEFINE q == day_of(EndTs - AuditAgo)
<1>1. DAY \in Nat \ {0} /\ EndTs \in Nat /\ AuditAgo \in Nat /\ AuditDays \in Nat \ {0}
  BY SeedAssumption, RestoreAssumption
<1>2. EndTs - AuditAgo \in Int
  BY <1>1, SMT
<1>3. q \in Int
  BY <1>2, DayBounds
<1> HIDE DEF q
<1> DEFINE e == q + AuditDays - 1
<1>4. e \in Int /\ e + 1 = q + AuditDays
  BY <1>1, <1>3, SMT
<1>5. (q + AuditDays) * DAY = q * DAY + AuditDays * DAY
  BY <1>1, <1>3, SMT
<1> HIDE DEF e
<1>6. audit_start = q * DAY
  BY DEF audit_start, q
<1>7. audit_end_exclusive = (e + 1) * DAY
  BY <1>4, <1>5, <1>6 DEF audit_end_exclusive
<1>8. (e + 1) * DAY = e * DAY + DAY /\ (q + 1) * DAY = q * DAY + DAY /\ e * DAY \in Int /\ q * DAY \in Int
  BY <1>1, <1>3, <1>4, SMT
<1>9. day_of(q * DAY) = q
  <2>1. q * DAY <= q * DAY /\ q * DAY <= (q + 1) * DAY - 1
    BY <1>1, <1>8, SMT
  <2> QED BY <1>3, <1>8, <2>1, DayBounds
<1>10. day_of((e + 1) * DAY - 1) = e /\ day_of((e + 1) * DAY - DAY) = e
  <2>1. /\ (e + 1) * DAY - 1 \in Int /\ e * DAY <= (e + 1) * DAY - 1 /\ (e + 1) * DAY - 1 <= (e + 1) * DAY - 1
        /\ (e + 1) * DAY - DAY \in Int /\ e * DAY <= (e + 1) * DAY - DAY /\ (e + 1) * DAY - DAY <= (e + 1) * DAY - 1
    BY <1>1, <1>8, SMT
  <2>2. day_of((e + 1) * DAY - 1) = e
    BY <1>4, <2>1, DayBounds
  <2>3. day_of((e + 1) * DAY - DAY) = e
    BY <1>4, <2>1, DayBounds
  <2> QED BY <2>2, <2>3
<1> QED BY <1>3, <1>4, <1>6, <1>7, <1>9, <1>10 DEF e

-----------------------------------------------------------------------------
(* Records in order. *)

Record == [orig : Nat, ts : Nat]

\* As many offsets as positions, when no offset comes twice.
LEMMA SameNumber ==
  ASSUME NEW n \in Nat, NEW P \in SUBSET (1..n), NEW records,
         \A i, j \in P : records[i].orig = records[j].orig => i = j
  PROVE  LET Q == {records[i].orig : i \in P}
         IN  IsFiniteSet(Q) /\ Cardinality(Q) = Cardinality(P)
<1> DEFINE Q == {records[i].orig : i \in P}
           f == [i \in P |-> records[i].orig]
<1>1. f \in Bijection(P, Q)
  <2>1. f \in [P -> Q]
    OBVIOUS
  <2>2. \A i, j \in P : f[i] = f[j] => i = j
    OBVIOUS
  <2>3. \A q \in Q : \E i \in P : f[i] = q
    OBVIOUS
  <2> HIDE DEF f, Q
  <2> QED BY <2>1, <2>2, <2>3, Fun_IsBij
<1>2. IsFiniteSet(P)
  <2>1. IsFiniteSet(1..n)
    <3>1. 1 \in Int /\ n \in Int
      OBVIOUS
    <3> QED BY <3>1, FS_Interval
  <2> QED BY <2>1, FS_Subset
<1>3. ExistsBijection(P, Q)
  BY <1>1 DEF ExistsBijection
<1> HIDE DEF Q
<1>4. IsFiniteSet(Q) /\ Cardinality(Q) = Cardinality(P)
  BY <1>2, <1>3, FS_Bijection
<1> QED BY <1>4 DEF Q

\* Neighbours in order are all in order.
LEMMA NeighboursInOrder ==
  ASSUME NEW records \in Seq(Record), original_offsets_strictly_increasing(records)
  PROVE  InOrder(records)
<1> DEFINE n == Len(records)
           f(i) == records[i].orig
<1>1. n \in Nat /\ DOMAIN records = 1..n /\ \A i \in 1..n : f(i) \in Nat
  <2>1. n \in Nat /\ DOMAIN records = 1..n
    BY LenProperties
  <2>2. \A i \in 1..n : records[i] \in Record
    BY ElementOfSeq
  <2> QED BY <2>1, <2>2 DEF Record
<1>2. \A i \in 1..(n - 1) : f(i) < f(i + 1)
  BY DEF original_offsets_strictly_increasing
<1> HIDE DEF f, n
<1>3. SUFFICES ASSUME NEW i \in 1..n, NEW j \in 1..n, i < j, ~(f(i) < f(j)) PROVE FALSE
  BY <1>1 DEF InOrder, f
<1> DEFINE T == {k \in 1..n : i < k /\ ~(f(i) < f(k))}
<1>4. T \in SUBSET Nat /\ j \in T
  BY <1>1, <1>3, SMT
<1>5. PICK k \in T : \A l \in T : k <= l
  BY <1>4, LeastElement
<1>6. k \in 1..n /\ i < k /\ ~(f(i) < f(k)) /\ i \in Nat /\ i >= 1
  BY <1>1, <1>3, <1>5
<1>7. k - 1 \in 1..(n - 1) /\ k - 1 \in 1..n /\ k - 1 + 1 = k /\ k - 1 < k
  BY <1>1, <1>6, SMT
<1>8. f(k - 1) < f(k)
  BY <1>2, <1>7
<1>9. k - 1 \notin T
  <2>1. ~(k <= k - 1)
    BY <1>1, <1>6, SMT
  <2> QED BY <1>5, <2>1
<1>10. CASE k - 1 = i
  BY <1>6, <1>8, <1>10
<1>11. CASE k - 1 # i
  <2>1. i < k - 1
    BY <1>1, <1>6, <1>11, SMT
  <2>2. f(i) < f(k - 1)
    BY <1>7, <1>9, <2>1
  <2>3. f(i) \in Nat /\ f(k) \in Nat /\ f(k - 1) \in Nat
    BY <1>1, <1>3, <1>6, <1>7
  <2> QED BY <1>6, <1>8, <2>2, <2>3, SMT
<1> QED BY <1>10, <1>11

-----------------------------------------------------------------------------
(* What came back, by days. *)

\* The records of the offsets in S, in order.
Faithful(records, S) ==
  /\ records \in Seq(Record) /\ \A i \in DOMAIN records : records[i] \in Range(source)
  /\ InOrder(records) /\ offsets_of(records) = S

LEMMA SourceRecord ==
  ASSUME NEW r \in Range(source)
  PROVE  r.orig \in DOMAIN log /\ r = source[r.orig] /\ r.ts = log[r.orig]
  BY DEF Range, source

LEMMA SourceDay ==
  /\ DOMAIN source = DOMAIN log /\ \A o \in DOMAIN log : source[o].orig = o /\ source[o].ts = log[o]
  /\ \A d : of_day(source, d) = {o \in DOMAIN log : day_of(log[o]) = d}
<1>1. DOMAIN source = DOMAIN log /\ \A o \in DOMAIN log : source[o].orig = o /\ source[o].ts = log[o]
  BY DEF source
<1> QED BY <1>1 DEF of_day

\* Positions and offsets of what came back.
LEMMA FaithfulFacts ==
  ASSUME NEW records, NEW S, Faithful(records, S)
  PROVE  /\ Len(records) \in Nat /\ DOMAIN records = 1..Len(records)
         /\ \A i \in DOMAIN records : /\ records[i].orig \in DOMAIN log /\ records[i].orig \in S
                                      /\ records[i] = source[records[i].orig]
                                      /\ records[i].ts = log[records[i].orig]
                                      /\ records[i].orig \in Nat
         /\ \A o \in S : \E i \in DOMAIN records : records[i].orig = o
         /\ \A i, j \in DOMAIN records : /\ records[i].orig = records[j].orig => i = j
                                         /\ records[i].orig <= records[j].orig <=> i <= j
<1>1. records \in Seq(Record) /\ InOrder(records) /\ offsets_of(records) = S
  BY DEF Faithful
<1>2. Len(records) \in Nat /\ DOMAIN records = 1..Len(records)
  BY <1>1, LenProperties
<1>3. \A i \in DOMAIN records : records[i].orig \in Nat
  <2>1. \A i \in DOMAIN records : records[i] \in Record
    BY <1>1, <1>2, ElementOfSeq
  <2> QED BY <2>1 DEF Record
<1>4. \A i \in DOMAIN records : /\ records[i].orig \in DOMAIN log /\ records[i] = source[records[i].orig]
                                /\ records[i].ts = log[records[i].orig]
  BY SourceRecord DEF Faithful
<1>5. \A i, j \in DOMAIN records : /\ records[i].orig = records[j].orig => i = j
                                   /\ records[i].orig <= records[j].orig <=> i <= j
  <2>1. SUFFICES ASSUME NEW i \in DOMAIN records, NEW j \in DOMAIN records
                 PROVE  /\ records[i].orig = records[j].orig => i = j
                        /\ records[i].orig <= records[j].orig <=> i <= j
    OBVIOUS
  <2>2. (i < j => records[i].orig < records[j].orig) /\ (j < i => records[j].orig < records[i].orig)
    BY <1>1 DEF InOrder
  <2>3. i \in Nat /\ j \in Nat /\ records[i].orig \in Nat /\ records[j].orig \in Nat
    BY <1>2, <1>3, SMT
  <2> QED BY <2>2, <2>3, SMT
<1>6. /\ \A i \in DOMAIN records : records[i].orig \in S
      /\ \A o \in S : \E i \in DOMAIN records : records[i].orig = o
  BY <1>1 DEF offsets_of
<1> QED BY <1>2, <1>3, <1>4, <1>5, <1>6

\* As many records of a day came back as there are among the offsets.
LEMMA DayNumber ==
  ASSUME NEW records, NEW S, Faithful(records, S), NEW d
  PROVE  LET day == {o \in S : day_of(log[o]) = d}
         IN  IsFiniteSet(day) /\ Cardinality(of_day(records, d)) = Cardinality(day)
<1> DEFINE P == of_day(records, d)
           Q == {records[i].orig : i \in P}
<1>1. P \in SUBSET (1..Len(records)) /\ Len(records) \in Nat
  BY FaithfulFacts DEF of_day
<1>2. \A i, j \in P : records[i].orig = records[j].orig => i = j
  BY FaithfulFacts DEF of_day
<1>3. Q = {o \in S : day_of(log[o]) = d}
  <2>1. \A i \in P : records[i].orig \in S /\ day_of(log[records[i].orig]) = d
    BY FaithfulFacts DEF of_day
  <2>2. ASSUME NEW o \in S, day_of(log[o]) = d PROVE o \in Q
    <3>1. PICK i \in DOMAIN records : records[i].orig = o /\ records[i].ts = log[o]
      BY FaithfulFacts
    <3> QED BY <2>2, <3>1 DEF of_day
  <2> QED BY <2>1, <2>2
<1> HIDE DEF P
<1>4. IsFiniteSet(Q) /\ Cardinality(Q) = Cardinality(P)
  BY <1>1, <1>2, SameNumber
<1> QED BY <1>3, <1>4 DEF P

\* A record's place in a day that came back whole is the one it had.
LEMMA DayPlace ==
  ASSUME NEW records, NEW S, Faithful(records, S), NEW d,
         \A o \in DOMAIN log : day_of(log[o]) = d => o \in S,
         NEW i \in of_day(records, d)
  PROVE  Cardinality({j \in of_day(records, d) : j <= i})
           = Cardinality({q \in of_day(source, d) : q <= records[i].orig})
<1> DEFINE P == {j \in of_day(records, d) : j <= i}
           Q == {records[j].orig : j \in P}
<1>1. P \in SUBSET (1..Len(records)) /\ Len(records) \in Nat
  BY FaithfulFacts DEF of_day
<1>2. \A k, j \in P : records[k].orig = records[j].orig => k = j
  BY FaithfulFacts DEF of_day
<1>3. Q = {q \in of_day(source, d) : q <= records[i].orig}
  <2>1. \A j \in P : records[j].orig \in of_day(source, d) /\ records[j].orig <= records[i].orig
    BY FaithfulFacts, SourceDay DEF of_day
  <2>2. ASSUME NEW o \in of_day(source, d), o <= records[i].orig PROVE o \in Q
    <3>1. o \in S /\ day_of(log[o]) = d
      BY <2>2, SourceDay
    <3>2. PICK j \in DOMAIN records : records[j].orig = o /\ records[j].ts = log[o]
      BY <3>1, FaithfulFacts
    <3>3. j <= i
      BY <2>2, <3>2, FaithfulFacts DEF of_day
    <3> QED BY <3>1, <3>2, <3>3 DEF of_day
  <2> QED BY <2>1, <2>2
<1> HIDE DEF P
<1>4. Cardinality(Q) = Cardinality(P)
  BY <1>1, <1>2, SameNumber
<1> QED BY <1>3, <1>4 DEF P

LEMMA WholeDay ==
  ASSUME NEW records, NEW S, Faithful(records, S), NEW d,
         \A o \in DOMAIN log : day_of(log[o]) = d => o \in S
  PROVE  ~differs(records, d)
<1> DEFINE placed(i) == Cardinality({j \in of_day(records, d) : j <= i})
           before(o) == Cardinality({q \in of_day(source, d) : q <= o})
<1>1. \A i \in of_day(records, d) : placed(i) = before(records[i].orig)
  BY DayPlace
<1>2. \A i \in of_day(records, d) : records[i].orig \in of_day(source, d) /\ records[i] = source[records[i].orig]
  BY FaithfulFacts, SourceDay DEF of_day
<1>3. ASSUME NEW o \in of_day(source, d)
      PROVE  \E i \in of_day(records, d) : records[i].orig = o
  <2>1. o \in S /\ day_of(log[o]) = d
    BY <1>3, SourceDay
  <2>2. PICK i \in DOMAIN records : records[i].orig = o /\ records[i].ts = log[o]
    BY <2>1, FaithfulFacts
  <2> QED BY <2>1, <2>2 DEF of_day
<1> HIDE DEF placed, before
<1>4. \A i \in of_day(records, d) :
        <<placed(i), records[i]>> \in {<<before(o), source[o]>> : o \in of_day(source, d)}
  BY <1>1, <1>2
<1>5. \A o \in of_day(source, d) :
        <<before(o), source[o]>> \in {<<placed(i), records[i]>> : i \in of_day(records, d)}
  BY <1>1, <1>2, <1>3
<1>6. {<<placed(i), records[i]>> : i \in of_day(records, d)} = {<<before(o), source[o]>> : o \in of_day(source, d)}
  BY <1>4, <1>5, Zenon
<1> QED BY <1>6 DEF differs, bucket, placed, before

-----------------------------------------------------------------------------
(* Differences that segment bounds explain. *)

Bounds(w) == w.ws \subseteq Int /\ w.we \subseteq Int

\* A record of the window that its segment's bounds exclude is outside them.
LEMMA ExcludedIsHazard ==
  ASSUME log \in Seq(Nat), Cut, NEW w, Bounds(w), NEW o \in DOMAIN log, InWindow(log[o], w), Excluded(o, w)
  PROVE  o \in hazards
<1>1. log[o] \in Nat /\ s_start(o) \in Nat /\ s_end(o) \in Nat
  BY SegmentAround DEF s_start, s_end
<1>2. CASE \E a \in w.ws : s_end(o) < a
  <2>1. PICK a \in w.ws : s_end(o) < a
    BY <1>2
  <2>2. a \in Int /\ log[o] >= a
    BY <2>1 DEF Bounds, InWindow
  <2>3. log[o] > s_end(o)
    BY <1>1, <2>1, <2>2, SMT
  <2> QED BY <2>3 DEF hazards
<1>3. CASE \E b \in w.we : s_start(o) > b
  <2>1. PICK b \in w.we : s_start(o) > b
    BY <1>3
  <2>2. b \in Int /\ log[o] <= b
    BY <2>1 DEF Bounds, InWindow
  <2>3. log[o] < s_start(o)
    BY <1>1, <2>1, <2>2, SMT
  <2> QED BY <2>3 DEF hazards
<1> QED BY <1>2, <1>3 DEF Excluded

\* A day inside the window has all its timestamps in it.
LEMMA DayInWindow ==
  ASSUME NEW w, Bounds(w), NEW ts \in Int, fully_inside(w, day_of(ts))
  PROVE  InWindow(ts, w)
<1> DEFINE d == day_of(ts)
<1>0. d \in Int
  <2>1. 0 \in Int
    OBVIOUS
  <2> QED BY <2>1, DayBounds
<1>1. d * DAY <= ts /\ ts <= (d + 1) * DAY - 1
  BY <1>0, DayBounds
<1>2. d * DAY \in Int /\ (d + 1) * DAY - 1 \in Int
  BY <1>0, SeedAssumption, SMT
<1>3. (\A a \in w.ws : d * DAY >= a) /\ (\A b \in w.we : (d + 1) * DAY - 1 <= b)
  BY DEF fully_inside
<1> HIDE DEF d
<1>4. \A a \in w.ws : ts >= a
  BY <1>1, <1>2, <1>3, SMT DEF Bounds
<1>5. \A b \in w.we : ts <= b
  BY <1>1, <1>2, <1>3, SMT DEF Bounds
<1> QED BY <1>4, <1>5 DEF InWindow

\* What came back of a selection: as many missing as the bounds predict.
LEMMA HonestIsExplained ==
  ASSUME log \in Seq(Nat), Cut, NEW w, Bounds(w), NEW records, Faithful(records, Selected(w)), NEW d
  PROVE  explained(records, w, d)
<1> DEFINE D == {o \in DOMAIN log : day_of(log[o]) = d}
           K == {o \in Selected(w) : day_of(log[o]) = d}
           L == {o \in hazards : day_of(log[o]) = d /\ InWindow(log[o], w) /\ Excluded(o, w)}
<1>1. IsFiniteSet(D) /\ K \in SUBSET D
  <2>1. Len(log) \in Nat /\ DOMAIN log = 1..Len(log)
    BY LenProperties
  <2>2. 1 \in Int /\ Len(log) \in Int
    BY <2>1
  <2>3. IsFiniteSet(DOMAIN log)
    BY <2>1, <2>2, FS_Interval
  <2> QED BY <2>3, FS_Subset DEF Selected
<1>2. Cardinality(of_day(records, d)) = Cardinality(K)
  BY DayNumber
<1>3. missing(records, d) = Cardinality(D) - Cardinality(K)
  BY <1>2, SourceDay DEF missing
<1>4. Cardinality(D) \in Nat /\ Cardinality(K) \in Nat /\ Cardinality(K) <= Cardinality(D)
      /\ (Cardinality(K) = Cardinality(D) => K = D)
  <2> HIDE DEF D, K
  <2> QED BY <1>1, FS_Subset, FS_CardinalityType
<1>5. missing(records, d) >= 0
  BY <1>3, <1>4, SMT
<1>6. ASSUME fully_inside(w, d), differs(records, d)
      PROVE  missing(records, d) = predicted_missing(w, d) /\ missing(records, d) # 0
  <2>1. D \ K = L
    <3>1. ASSUME NEW o \in D PROVE InWindow(log[o], w)
      <4>1. log[o] \in Int /\ day_of(log[o]) = d
        BY <3>1
      <4> QED BY <1>6, <4>1, DayInWindow
    <3>2. ASSUME NEW o \in D \ K PROVE o \in L
      <4>1. Excluded(o, w) /\ InWindow(log[o], w) /\ o \in DOMAIN log /\ day_of(log[o]) = d
        BY <3>1, <3>2 DEF Selected
      <4> QED BY <4>1, ExcludedIsHazard
    <3>3. ASSUME NEW o \in L PROVE o \in D \ K
      BY <3>3 DEF hazards, Selected
    <3> QED BY <3>2, <3>3
  <2>2. Cardinality(D \ K) = Cardinality(D) - Cardinality(K)
    <3>1. D \cap K = K
      BY <1>1
    <3> HIDE DEF D, K
    <3> QED BY <1>1, <3>1, FS_Difference
  <2>3. missing(records, d) = predicted_missing(w, d)
    BY <1>3, <2>1, <2>2 DEF predicted_missing
  <2>4. K # D
    <3>1. SUFFICES ASSUME K = D PROVE FALSE
      OBVIOUS
    <3>2. \A o \in DOMAIN log : day_of(log[o]) = d => o \in Selected(w)
      BY <3>1
    <3> QED BY <1>6, <3>2, WholeDay
  <2>5. missing(records, d) # 0
    BY <1>3, <1>4, <2>4, SMT
  <2> QED BY <2>3, <2>5
<1> QED BY <1>5, <1>6 DEF explained

-----------------------------------------------------------------------------
(* The gates, one by one. *)

\* An equal bucket has the record.
LEMMA SameBucketHas ==
  ASSUME NEW records, NEW o \in DOMAIN log, ~differs(records, day_of(log[o]))
  PROVE  \E i \in DOMAIN records : records[i] = source[o]
<1> DEFINE d == day_of(log[o])
           placed(i) == Cardinality({j \in of_day(records, d) : j <= i})
           before(q) == Cardinality({k \in of_day(source, d) : k <= q})
<1>1. o \in of_day(source, d)
  BY SourceDay
<1>2. {<<placed(i), records[i]>> : i \in of_day(records, d)} = {<<before(q), source[q]>> : q \in of_day(source, d)}
  BY DEF differs, bucket
<1> HIDE DEF placed, before, d
<1>3. <<before(o), source[o]>> \in {<<placed(i), records[i]>> : i \in of_day(records, d)}
  BY <1>1, <1>2
<1>4. PICK i \in of_day(records, d) : <<before(o), source[o]>> = <<placed(i), records[i]>>
  BY <1>3
<1>5. records[i] = source[o]
  BY <1>4
<1> QED BY <1>5 DEF of_day

LEMMA FaithfulInOrder ==
  ASSUME NEW records, NEW S, Faithful(records, S)
  PROVE  original_offsets_strictly_increasing(records)
<1>1. Len(records) \in Nat /\ DOMAIN records = 1..Len(records)
  BY FaithfulFacts
<1>2. \A i \in 1..(Len(records) - 1) : i \in DOMAIN records /\ i + 1 \in DOMAIN records /\ i < i + 1
  BY <1>1, SMT
<1> QED BY <1>2 DEF Faithful, InOrder, original_offsets_strictly_increasing

LEMMA FaithfulInWindow ==
  ASSUME NEW records, NEW w, Faithful(records, Selected(w))
  PROVE  no_records_outside_window(records, w)
<1>1. \A i \in DOMAIN records : records[i].orig \in Selected(w) /\ records[i].ts = log[records[i].orig]
  BY FaithfulFacts
<1> QED BY <1>1 DEF no_records_outside_window, Selected

\* A window whose exact days are selected whole.
LEMMA FaithfulPasses ==
  ASSUME log \in Seq(Nat), Cut, NEW w, Bounds(w), NEW records, Faithful(records, Selected(w)), Selected(w) # {},
         \A o \in DOMAIN log : exact(w, day_of(log[o])) => o \in Selected(w)
  PROVE  /\ original_offsets_strictly_increasing(records) /\ no_records_outside_window(records, w)
         /\ buckets_match_baseline(records, w) /\ every_difference_explained(records, w)
<1>1. \A d \in all_days : explained(records, w, d)
  BY HonestIsExplained
<1>2. ASSUME NEW d \in all_days, exact(w, d) PROVE ~differs(records, d)
  <2>1. \A o \in DOMAIN log : day_of(log[o]) = d => o \in Selected(w)
    BY <1>2
  <2> QED BY <2>1, WholeDay
<1>3. records # << >>
  <2>1. PICK o \in Selected(w) : TRUE
    OBVIOUS
  <2>2. PICK i \in DOMAIN records : TRUE
    BY <2>1, FaithfulFacts
  <2> QED BY <2>2
<1> QED BY <1>1, <1>2, <1>3, FaithfulInOrder, FaithfulInWindow DEF buckets_match_baseline, every_difference_explained

\* The exact days of the audit window are those of the audit month.
LEMMA AuditExact ==
  /\ Bounds(audit_window)
  /\ \A d \in day_of(audit_start)..day_of(audit_end_exclusive - 1) :
       fully_inside(audit_window, d) /\ exact(audit_window, d)
  /\ \A ts \in Int : exact(audit_window, day_of(ts)) => audit_start <= ts /\ ts < audit_end_exclusive
<1>1. PICK q \in Int :
        /\ audit_start = q * DAY /\ audit_end_exclusive = (q + AuditDays) * DAY
        /\ day_of(audit_start) = q
        /\ day_of(audit_end_exclusive - 1) = q + AuditDays - 1
        /\ day_of(audit_end_exclusive - DAY) = q + AuditDays - 1
  BY AuditDaysAre
<1>2. DAY \in Nat \ {0} /\ AuditDays \in Nat \ {0} /\ LateMax \in Nat
  BY SeedAssumption, RestoreAssumption
<1>3. PICK f \in Int : f = q + AuditDays
  BY <1>2, SMT
<1>4. day_of(audit_start) = q /\ day_of(audit_end_exclusive - 1) = f - 1 /\ audit_start = q * DAY
      /\ audit_end_exclusive = f * DAY /\ day_of(audit_end_exclusive - DAY) = f - 1
  <2>1. f = q + AuditDays
    BY <1>3
  <2>2. (q + AuditDays) * DAY = f * DAY
    BY <1>2, <2>1
  <2>3. q + AuditDays - 1 = f - 1
    BY <1>2, <2>1
  <2> QED BY <1>1, <2>2, <2>3, Zenon
<1>5. q * DAY \in Int /\ f * DAY \in Int
  BY <1>1, <1>2, SMT
<1>6. /\ audit_window.ws = {q * DAY - LateMax} /\ audit_window.we = {f * DAY - 1 + LateMax}
       /\ audit_window.exact_from = {q} /\ audit_window.exact_to = {f - 1}
  <2>1. /\ audit_window.ws = {audit_start - LateMax} /\ audit_window.we = {audit_end_exclusive - 1 + LateMax}
        /\ audit_window.exact_from = {day_of(audit_start)}
        /\ audit_window.exact_to = {day_of(audit_end_exclusive - DAY)}
    BY DEF audit_window
  <2>2. {audit_start - LateMax} = {q * DAY - LateMax} /\ {audit_end_exclusive - 1 + LateMax} = {f * DAY - 1 + LateMax}
        /\ {day_of(audit_start)} = {q} /\ {day_of(audit_end_exclusive - DAY)} = {f - 1}
    BY <1>4
  <2> QED BY <2>1, <2>2, Zenon
<1>7. Bounds(audit_window)
  BY <1>2, <1>5, <1>6, SMT DEF Bounds
<1>8. \A x, y \in Int : x <= y => x * DAY <= y * DAY
  BY <1>2, SMT
<1>9. ASSUME NEW d \in q..(f - 1) PROVE fully_inside(audit_window, d) /\ exact(audit_window, d)
  <2>1. d \in Int /\ q <= d /\ d + 1 <= f /\ d <= f - 1 /\ d + 1 \in Int
    BY <1>1, <1>3, <1>9, SMT
  <2>2. q * DAY <= d * DAY /\ (d + 1) * DAY <= f * DAY
    BY <1>5, <1>8, <2>1
  <2>3. d * DAY \in Int /\ (d + 1) * DAY \in Int
    BY <1>2, <2>1, SMT
  <2>4. d * DAY >= q * DAY - LateMax /\ (d + 1) * DAY - 1 <= f * DAY - 1 + LateMax
    BY <1>2, <1>5, <2>2, <2>3, SMT
  <2>5. exact(audit_window, d)
    BY <1>6, <2>1 DEF exact
  <2>6. fully_inside(audit_window, d)
    BY <1>6, <2>4 DEF fully_inside
  <2> QED BY <2>5, <2>6
<1>10. ASSUME NEW ts \in Int, exact(audit_window, day_of(ts))
      PROVE  q * DAY <= ts /\ ts < f * DAY
  <2> DEFINE d == day_of(ts)
  <2>1. d \in Int
    BY <1>5, DayBounds
  <2>2. d * DAY <= ts /\ ts <= (d + 1) * DAY - 1
    BY <2>1, DayBounds
  <2>3. q <= d /\ d <= f - 1
    BY <1>6, <1>10, <2>1, SMT DEF exact
  <2> HIDE DEF d
  <2>4. d + 1 \in Int /\ d + 1 <= f
    BY <1>5, <2>1, <2>3, SMT
  <2>5. q * DAY <= d * DAY /\ (d + 1) * DAY <= f * DAY
    BY <1>5, <1>8, <2>1, <2>3, <2>4
  <2>6. d * DAY \in Int /\ (d + 1) * DAY \in Int
    BY <1>2, <2>1, SMT
  <2> QED BY <1>5, <2>2, <2>5, <2>6, SMT
<1> QED BY <1>4, <1>7, <1>9, <1>10, Zenon

\* The full restore selects everything.
LEMMA FullExact ==
  /\ Bounds(full_window) /\ Selected(full_window) = DOMAIN log
  /\ \A d : fully_inside(full_window, d) /\ exact(full_window, d)
BY DEF full_window, Bounds, Selected, InWindow, Excluded, fully_inside, exact

\* A day that the unpadded window loses a record of.
LEMMA UnpaddedFails ==
  ASSUME log \in Seq(Nat), NEW d \in all_days, straddlers(d) # {}, NEW records,
         Faithful(records, Selected(day_window(d)))
  PROVE  ~buckets_match_baseline(records, day_window(d))
<1> DEFINE w == day_window(d)
<1>1. PICK o \in straddlers(d) : TRUE
  OBVIOUS
<1>2. o \in DOMAIN log /\ day_of(log[o]) = d /\ s_start(o) > (d + 1) * DAY - 1
  BY <1>1 DEF straddlers, hazards
<1>3. d \in Int
  <2>1. \A p \in DOMAIN log : log[p] \in Int
    OBVIOUS
  <2>2. \A p \in DOMAIN log : day_of(log[p]) \in Int
    BY <2>1, DayBounds
  <2> QED BY <2>2 DEF all_days
<1>4. fully_inside(w, d) /\ exact(w, d)
  <2>1. d * DAY \in Int /\ (d + 1) * DAY - 1 \in Int
    BY <1>3, SeedAssumption, SMT
  <2>2. d * DAY >= d * DAY /\ (d + 1) * DAY - 1 <= (d + 1) * DAY - 1 /\ d >= d /\ d <= d
    BY <1>3, <2>1, SMT
  <2> QED BY <2>2 DEF day_window, fully_inside, exact
<1>5. o \notin Selected(w)
  BY <1>2 DEF Selected, Excluded, day_window
<1>6. SUFFICES ASSUME ~differs(records, d) PROVE FALSE
  BY <1>4 DEF buckets_match_baseline
<1>7. PICK i \in DOMAIN records : records[i] = source[o]
  BY <1>2, <1>6, SameBucketHas
<1>8. records[i].orig = o
  BY <1>2, <1>7, SourceDay
<1> QED BY <1>5, <1>7, <1>8, FaithfulFacts

-----------------------------------------------------------------------------
(* A topic that came back whole. *)

\* Offsets in order that miss none are the positions.
LEMMA OrderIsPosition ==
  ASSUME NEW records \in Seq(Record), InOrder(records), NEW n \in Nat,
         \A i \in DOMAIN records : records[i].orig \in 1..n,
         \A o \in 1..n : \E i \in DOMAIN records : records[i].orig = o
  PROVE  Len(records) = n /\ DOMAIN records = 1..n /\ \A i \in 1..n : records[i].orig = i
<1> DEFINE m == Len(records)
           f(i) == records[i].orig
<1>1. m \in Nat /\ DOMAIN records = 1..m
  BY LenProperties
<1>2. /\ \A i \in 1..m : f(i) \in 1..n
      /\ \A o \in 1..n : \E i \in 1..m : f(i) = o
      /\ \A i, j \in 1..m : i < j => f(i) < f(j)
  BY <1>1 DEF InOrder
<1> HIDE DEF f, m
<1>3. \A i \in 1..m : f(i) = i
  <2>1. SUFFICES ASSUME NEW j \in 1..m, f(j) # j PROVE FALSE
    OBVIOUS
  <2> DEFINE T == {k \in 1..m : f(k) # k}
  <2>2. T \in SUBSET Nat /\ j \in T
    BY <1>1, <2>1, SMT
  <2>3. PICK k \in T : \A l \in T : k <= l
    BY <2>2, LeastElement
  <2>4. k \in 1..m /\ f(k) # k
    BY <2>3
  <2>5. \A l \in 1..m : l < k => f(l) = l
    <3>1. \A l \in 1..m : l < k => ~(k <= l)
      BY <1>1, <2>4, SMT
    <3> QED BY <2>3, <3>1
  <2>6. f(k) \in 1..n
    BY <1>2, <2>4
  <2>7. CASE f(k) < k
    <3>1. f(k) \in 1..m
      BY <1>1, <2>4, <2>6, <2>7, SMT
    <3>2. f(f(k)) = f(k)
      BY <2>5, <2>7, <3>1
    <3>3. f(f(k)) < f(k)
      BY <1>2, <2>4, <2>7, <3>1
    <3> QED BY <2>6, <3>2, <3>3, SMT
  <2>8. CASE f(k) > k
    <3>1. k \in 1..n
      BY <1>1, <2>4, <2>6, <2>8, SMT
    <3>2. PICK l \in 1..m : f(l) = k
      BY <1>2, <3>1
    <3>3. CASE l < k
      BY <2>5, <3>2, <3>3, SMT
    <3>4. CASE l = k
      BY <2>4, <3>2, <3>4
    <3>5. CASE l > k
      <4>1. f(k) < f(l)
        BY <1>1, <1>2, <2>4, <3>5, SMT
      <4> QED BY <2>6, <2>8, <3>1, <3>2, <4>1, SMT
    <3> QED BY <1>1, <2>4, <3>3, <3>4, <3>5, SMT
  <2> QED BY <1>1, <2>4, <2>6, <2>7, <2>8, SMT
<1>4. m = n
  <2>1. ASSUME n < m PROVE FALSE
    <3>1. m \in 1..m
      BY <1>1, <2>1, SMT
    <3>2. m \in 1..n
      BY <1>2, <1>3, <3>1
    <3> QED BY <1>1, <2>1, <3>2, SMT
  <2>2. ASSUME m < n PROVE FALSE
    <3>1. n \in 1..n
      BY <1>1, <2>2, SMT
    <3>2. PICK i \in 1..m : f(i) = n
      BY <1>2, <3>1
    <3>3. i = n
      BY <1>3, <3>2
    <3> QED BY <1>1, <2>2, <3>2, <3>3, SMT
  <2> QED BY <1>1, <2>1, <2>2, SMT
<1> QED BY <1>1, <1>3, <1>4 DEF f, m

\* Equal buckets on all days and offsets in order: the source over again.
LEMMA WholeTopic ==
  ASSUME log \in Seq(Nat), NEW records \in Seq(Record), \A i \in DOMAIN records : records[i] \in Range(source),
         original_offsets_strictly_increasing(records), \A d \in all_days : ~differs(records, d)
  PROVE  records = source /\ Len(records) = Len(log)
<1>1. InOrder(records)
  BY NeighboursInOrder
<1>2. Len(log) \in Nat /\ DOMAIN log = 1..Len(log)
  BY LenProperties
<1>3. \A i \in DOMAIN records : records[i].orig \in 1..Len(log) /\ records[i] = source[records[i].orig]
  BY <1>2, SourceRecord
<1>4. ASSUME NEW o \in 1..Len(log) PROVE \E i \in DOMAIN records : records[i].orig = o
  <2>1. o \in DOMAIN log /\ day_of(log[o]) \in all_days
    BY <1>2 DEF all_days
  <2>2. PICK i \in DOMAIN records : records[i] = source[o]
    BY <2>1, SameBucketHas
  <2> QED BY <2>1, <2>2, SourceDay
<1>5. Len(records) = Len(log) /\ DOMAIN records = 1..Len(log) /\ \A i \in 1..Len(log) : records[i].orig = i
  BY <1>1, <1>2, <1>3, <1>4, OrderIsPosition
<1>6. \A i \in 1..Len(log) : records[i] = source[i]
  BY <1>3, <1>5
<1>7. records = [i \in 1..Len(log) |-> records[i]]
  BY <1>5, LenProperties
<1>8. source = [i \in 1..Len(log) |-> source[i]]
  BY <1>2 DEF source
<1> QED BY <1>5, <1>6, <1>7, <1>8

-----------------------------------------------------------------------------
(* The invariant holds at first and after every step. *)

\* What depends on the log and its segments only.
LEMMA SameTopic ==
  ASSUME UNCHANGED log, UNCHANGED cuts
  PROVE  /\ audit_window' = audit_window /\ full_window' = full_window
         /\ \A w : Selected(w)' = Selected(w)
         /\ \A d : straddlers(d)' = straddlers(d) /\ day_window(d)' = day_window(d)
         /\ all_days' = all_days
         /\ \A records, o : Mapped(records, o)' = Mapped(records, o)
<1>1. audit_window' = audit_window /\ full_window' = full_window /\ \A d : day_window(d)' = day_window(d)
  BY DEF audit_window, full_window, day_window, audit_start, audit_end_exclusive, day_of
<1>2. \A w : Selected(w)' = Selected(w)
  BY DEF Selected, Excluded, InWindow, s_start, s_end, seg_first, seg_last
<1>3. \A d : straddlers(d)' = straddlers(d)
  BY DEF straddlers, hazards, s_start, s_end, seg_first, seg_last, day_of
<1>4. all_days' = all_days /\ \A records, o : Mapped(records, o)' = Mapped(records, o)
  BY DEF all_days, day_of, Mapped
<1> QED BY <1>1, <1>2, <1>3, <1>4

\* Before there is a restore.
LEMMA NoRestoreYet ==
  ASSUME window' = {}, verdict' = {}, target' = {}, pc' # "verify"
  PROVE  VerifyInv'
BY DEF VerifyInv, WindowInv, HonestInv, GroupInv, VerdictInv

\* A window is known once, and stays while the restore goes on.
LEMMA WindowStays ==
  ASSUME WindowInv, UNCHANGED <<log, cuts, kind, window>>, pc' \notin {"seed", "backup", "rejected"},
         \A t, u \in target' : t = u
  PROVE  WindowInv'
BY SameTopic DEF WindowInv

\* A step after which nothing is restored, and the target's records are as before.
LEMMA QuietVerify ==
  ASSUME RestoreInv, VerifyInv, UNCHANGED <<log, cuts, kind, window, target, faults>>,
         pc' \in {"idle", "verify", "ended"},
         GroupInv', VerdictInv'
  PROVE  VerifyInv'
<1>1. WindowInv'
  <2>1. \A t, u \in target' : t = u
    BY DEF VerifyInv, WindowInv
  <2>2. pc' \notin {"seed", "backup", "rejected"}
    OBVIOUS
  <2> QED BY <2>1, <2>2, WindowStays DEF VerifyInv
<1>2. HonestInv'
  <2>1. \A w : Selected(w)' = Selected(w)
    BY SameTopic
  <2> QED BY <2>1 DEF VerifyInv, HonestInv, InOrder, offsets_of
<1> QED BY <1>1, <1>2 DEF VerifyInv

LEMMA StartVerify == RestoreInv /\ VerifyInv /\ StartRestore => VerifyInv'
<1> SUFFICES ASSUME RestoreInv, VerifyInv, StartRestore PROVE VerifyInv'
  OBVIOUS
<1> DEFINE t == [records |-> << >>, complete |-> FALSE]
<1>1. /\ pc = "idle" /\ pc' = "restore" /\ target' = {t}
      /\ kind \in {"audit", "full"} => target = {}
      /\ UNCHANGED <<log, cuts, kind, faults, verdict>>
  BY DEF StartRestore, seedVars
<1>2. PICK w \in windows(kind) : window' = {w} /\ todo' = Selected(w)
  BY DEF StartRestore
<1>3. WindowInv'
  <2>1. pc' \notin {"seed", "backup", "rejected"} /\ \A x, y \in target' : x = y
    BY <1>1
  <2>2. kind' = "audit" => window' \subseteq {audit_window}'
    BY <1>1, <1>2, SameTopic DEF windows
  <2>3. kind' = "full" => window' \subseteq {full_window}'
    BY <1>1, <1>2, SameTopic DEF windows
  <2>4. ASSUME kind' = "unpadded"
        PROVE  \E d \in all_days : w = day_window(d) /\ straddlers(d) # {}
    <3>1. w \in unpadded_windows
      BY <1>1, <1>2, <2>4 DEF windows
    <3>2. PICK d \in {day_of(log[o]) : o \in hazards} : w = day_window(d) /\ straddlers(d) # {}
      BY <3>1 DEF unpadded_windows
    <3>3. d \in all_days
      BY <3>2 DEF all_days, hazards
    <3> QED BY <3>2, <3>3
  <2>5. kind' = "unpadded" => \A v \in window' : \E d \in all_days' : v = day_window(d)' /\ straddlers(d)' # {}
    BY <1>1, <1>2, <2>4, SameTopic
  <2> QED BY <2>1, <2>2, <2>3, <2>5 DEF WindowInv
<1>4. HonestInv'
  <2>1. /\ t.records = << >> /\ ~t.complete /\ InOrder(t.records) /\ offsets_of(t.records) = {}
        /\ DOMAIN t.records = {}
    BY DEF InOrder, offsets_of
  <2>2. todo' = Selected(w)'
    BY <1>1, <1>2, SameTopic
  <2> HIDE DEF t
  <2>3. \A x \in target', v \in window' : x = t /\ v = w
    BY <1>1, <1>2
  <2> QED BY <2>1, <2>2, <2>3 DEF HonestInv, InOrder, offsets_of
<1>5. GroupInv'
  BY <1>1 DEF GroupInv
<1>6. VerdictInv'
  BY <1>1 DEF VerdictInv, VerifyInv
<1> QED BY <1>3, <1>4, <1>5, <1>6 DEF VerifyInv

\* The next of the selected records is written.
LEMMA RecordVerify == RestoreInv /\ VerifyInv /\ RestoreRecord => VerifyInv'
<1> SUFFICES ASSUME RestoreInv, VerifyInv, RestoreRecord PROVE VerifyInv'
  OBVIOUS
<1>1. pc = "restore" /\ UNCHANGED <<log, cuts, kind, window, faults, verdict, pc>>
  BY DEF RestoreRecord, seedVars
<1>2. PICK o \in todo : (\A q \in todo : o <= q) /\ Write(o) /\ todo' = todo \ {o}
  BY DEF RestoreRecord
<1>3. PICK t \in target : target' = {[t EXCEPT !.records = Append(t.records, source[o])]}
  BY <1>2 DEF Write
<1> DEFINE r == [orig |-> o, ts |-> log[o]]
           rs == Append(t.records, r)
<1>4. o \in Nat /\ log[o] \in Nat /\ o \in DOMAIN log /\ t \in Target /\ todo \subseteq Nat
  <2>1. todo \subseteq DOMAIN log /\ log \in Seq(Nat) /\ target \subseteq Target
    BY InvTypes
  <2>2. DOMAIN log = 1..Len(log) /\ Len(log) \in Nat
    BY <2>1, LenProperties
  <2> QED BY <1>2, <1>3, <2>1, <2>2
<1>5. source[o] = r /\ r \in Record /\ r.orig = o
  BY <1>4 DEF source, Record
<1>6. t.records \in Seq(Record) /\ t = [records |-> t.records, complete |-> t.complete]
  BY <1>4 DEF Target, Record
<1> HIDE DEF r
<1>7. target' = {[records |-> rs, complete |-> t.complete]}
  <2>1. ASSUME NEW x, x = [t EXCEPT !.records = Append(t.records, source[o])]
        PROVE  x = [records |-> rs, complete |-> t.complete]
    BY <1>5, <1>6, <2>1, Zenon
  <2> QED BY <1>3, <2>1
<1>8. /\ DOMAIN rs = 1..(Len(t.records) + 1) /\ rs[Len(t.records) + 1] = r
      /\ DOMAIN t.records = 1..Len(t.records) /\ Len(t.records) \in Nat
      /\ \A i \in DOMAIN t.records : rs[i] = t.records[i]
  BY <1>5, <1>6, AppendTo, LenProperties
<1> HIDE DEF rs
<1> DEFINE n == Len(t.records) + 1
<1>9. /\ \A i \in DOMAIN rs : i \in DOMAIN t.records \/ i = n
      /\ n \in DOMAIN rs /\ \A i \in DOMAIN t.records : i \in DOMAIN rs /\ i < n
      /\ rs[n].orig = o /\ \A i \in DOMAIN rs : ~(n < i)
  BY <1>5, <1>8, SMT
<1> HIDE DEF n
<1>10. ASSUME faults = 0, NEW w \in window
       PROVE  /\ ~t.complete
              /\ InOrder(rs)
              /\ todo' \subseteq Selected(w) /\ offsets_of(rs) = Selected(w) \ todo'
              /\ \A i \in DOMAIN rs, q \in todo' : rs[i].orig < q
  <2>1. /\ ~t.complete /\ InOrder(t.records)
        /\ todo \subseteq Selected(w) /\ offsets_of(t.records) = Selected(w) \ todo
        /\ \A i \in DOMAIN t.records, q \in todo : t.records[i].orig < q
    BY <1>1, <1>3, <1>10 DEF VerifyInv, HonestInv
  <2>2. InOrder(rs)
    <3>1. SUFFICES ASSUME NEW i \in DOMAIN rs, NEW j \in DOMAIN rs, i < j PROVE rs[i].orig < rs[j].orig
      BY DEF InOrder
    <3>2. i \in DOMAIN t.records
      BY <1>9, <3>1
    <3>3. CASE j \in DOMAIN t.records
      BY <1>8, <2>1, <3>1, <3>2, <3>3 DEF InOrder
    <3>4. CASE j = n
      BY <1>2, <1>8, <1>9, <2>1, <3>2, <3>4
    <3> QED BY <1>9, <3>3, <3>4
  <2>3. offsets_of(rs) = offsets_of(t.records) \cup {o}
    <3>1. \A i \in DOMAIN rs : rs[i].orig \in offsets_of(t.records) \cup {o}
      BY <1>8, <1>9 DEF offsets_of
    <3>2. \A i \in DOMAIN t.records : t.records[i].orig \in offsets_of(rs)
      BY <1>8, <1>9 DEF offsets_of
    <3>3. o \in offsets_of(rs)
      BY <1>9 DEF offsets_of
    <3> QED BY <3>1, <3>2, <3>3 DEF offsets_of
  <2>4. \A i \in DOMAIN rs, q \in todo' : rs[i].orig < q
    <3>1. SUFFICES ASSUME NEW i \in DOMAIN rs, NEW q \in todo \ {o} PROVE rs[i].orig < q
      BY <1>2
    <3>2. o < q
      BY <1>2, <1>4, <3>1, SMT
    <3>3. CASE i \in DOMAIN t.records
      BY <1>8, <2>1, <3>1, <3>3
    <3>4. CASE i = n
      BY <1>9, <3>2, <3>4
    <3> QED BY <1>9, <3>3, <3>4
  <2> QED BY <1>2, <2>1, <2>2, <2>3, <2>4
<1> DEFINE u == [records |-> rs, complete |-> t.complete]
<1>11. u.records = rs /\ u.complete = t.complete /\ target' = {u}
  BY <1>7
<1> HIDE DEF u
<1>12. WindowInv'
  <2>1. \A x, y \in target' : x = y
    BY <1>11
  <2>2. pc' \notin {"seed", "backup", "rejected"}
    BY <1>1
  <2> QED BY <1>1, <2>1, <2>2, WindowStays DEF VerifyInv
<1>13. HonestInv'
  <2>1. \A w : Selected(w)' = Selected(w)
    BY <1>1, SameTopic
  <2>2. \A x \in target' : x = u
    BY <1>11
  <2>3. ASSUME faults' = 0, NEW x \in target', NEW w \in window'
        PROVE  /\ InOrder(x.records) /\ ~x.complete
               /\ todo' \subseteq Selected(w)' /\ offsets_of(x.records) = Selected(w)' \ todo'
               /\ \A i \in DOMAIN x.records, q \in todo' : x.records[i].orig < q
    <3>1. x.records = rs /\ x.complete = t.complete /\ faults = 0 /\ w \in window /\ Selected(w)' = Selected(w)
      BY <1>1, <1>11, <2>1, <2>2, <2>3
    <3> QED BY <1>10, <3>1
  <2> QED BY <2>3 DEF HonestInv, InOrder, offsets_of
<1>14. GroupInv' /\ VerdictInv'
  BY <1>1 DEF GroupInv, VerdictInv, VerifyInv
<1> QED BY <1>12, <1>13, <1>14 DEF VerifyInv

\* A fault: nothing is claimed of the target any more.
LEMMA WrongVerify == RestoreInv /\ VerifyInv /\ RestoreWrongly => VerifyInv'
<1> SUFFICES ASSUME RestoreInv, VerifyInv, RestoreWrongly PROVE VerifyInv'
  OBVIOUS
<1>1. pc = "restore" /\ faults' = faults + 1 /\ UNCHANGED <<log, cuts, kind, window, verdict, pc>>
  BY DEF RestoreWrongly, seedVars
<1>2. faults' # 0
  BY <1>1, InvTypes, SMT
<1>3. \A x, y \in target' : x = y
  <2>1. UNCHANGED target \/ \E o \in todo : Write(o)
    BY DEF RestoreWrongly
  <2>2. UNCHANGED target \/ \E x : target' = {x}
    BY <2>1 DEF Write
  <2> QED BY <2>2 DEF VerifyInv, WindowInv
<1>4. WindowInv'
  <2>1. pc' \notin {"seed", "backup", "rejected"}
    BY <1>1
  <2> QED BY <1>1, <1>3, <2>1, WindowStays DEF VerifyInv
<1>5. HonestInv' /\ GroupInv' /\ VerdictInv'
  BY <1>1, <1>2 DEF HonestInv, GroupInv, VerdictInv, VerifyInv
<1> QED BY <1>4, <1>5 DEF VerifyInv

LEMMA DoneVerify == RestoreInv /\ VerifyInv /\ RestoreDone => VerifyInv'
<1> SUFFICES ASSUME RestoreInv, VerifyInv, RestoreDone PROVE VerifyInv'
  OBVIOUS
<1>1. /\ pc = "restore" /\ todo = {} /\ UNCHANGED <<log, cuts, kind, window, verdict, faults>>
      /\ pc' \in {"idle", "reset", "verify"} /\ (kind = "full" => pc' = "reset")
  BY DEF RestoreDone, seedVars
<1>2. PICK t \in target : target' = {[t EXCEPT !.complete = TRUE]}
  BY DEF RestoreDone
<1>3. ASSUME NEW x \in target' PROVE x.records = t.records
  <2>1. t \in Target
    BY <1>2, InvTypes
  <2> QED BY <1>2, <1>3, <2>1 DEF Target
<1>4. WindowInv'
  <2>1. pc' \notin {"seed", "backup", "rejected"} /\ \A x, y \in target' : x = y
    BY <1>1, <1>2
  <2> QED BY <1>1, <2>1, WindowStays DEF VerifyInv
<1>5. HonestInv'
  <2>1. ASSUME faults' = 0, NEW x \in target', NEW w \in window'
        PROVE  InOrder(x.records) /\ offsets_of(x.records) = Selected(w)'
    <3>1. faults = 0 /\ w \in window /\ Selected(w)' = Selected(w) /\ x.records = t.records
      BY <1>1, <1>3, <2>1, SameTopic
    <3>2. InOrder(t.records) /\ offsets_of(t.records) = Selected(w) \ todo
      BY <1>1, <3>1 DEF VerifyInv, HonestInv
    <3> QED BY <1>1, <3>1, <3>2
  <2>2. pc' # "restore"
    BY <1>1
  <2> QED BY <2>1, <2>2 DEF HonestInv, InOrder, offsets_of
<1>6. GroupInv' /\ VerdictInv'
  BY <1>1 DEF GroupInv, VerdictInv, VerifyInv
<1> QED BY <1>4, <1>5, <1>6 DEF VerifyInv

LEMMA ResetVerify == RestoreInv /\ VerifyInv /\ ResetGroup => VerifyInv'
<1> SUFFICES ASSUME RestoreInv, VerifyInv, ResetGroup PROVE VerifyInv'
  OBVIOUS
<1>1. /\ pc = "reset" /\ pc' = "verify" /\ faults \in Nat
      /\ snapshot' \in 1..(Len(log) + 1)
      /\ UNCHANGED <<log, cuts, kind, window, target, verdict>>
  BY InvTypes DEF ResetGroup, seedVars
<1>2. PICK t \in target :
       \/ committed' = Mapped(t.records, snapshot') /\ UNCHANGED faults
       \/ faults' = faults + 1 /\ \E c \in 1..(Len(t.records) + 1) : committed' = {c}
  BY DEF ResetGroup
<1>3. VerdictInv'
  BY <1>1 DEF VerdictInv, VerifyInv
<1>4. \A x \in target' : x = t
  BY <1>1, <1>2 DEF VerifyInv, WindowInv
<1>5. Mapped(t.records, snapshot') = Mapped(t.records, snapshot)'
  BY <1>1 DEF Mapped
<1>6. CASE faults' = faults + 1
  <2>1. faults' # 0
    BY <1>1, <1>6, SMT
  <2>2. GroupInv'
    <3>1. committed' = Mapped(t.records, snapshot)' \/ \E c \in 1..(Len(t.records) + 1) : committed' = {c}
      BY <1>2, <1>5
    <3> QED BY <1>1, <1>4, <2>1, <3>1 DEF GroupInv, Mapped
  <2>3. HonestInv'
    BY <2>1 DEF HonestInv
  <2>4. WindowInv'
    <3>1. pc' \notin {"seed", "backup", "rejected"} /\ \A x, y \in target' : x = y
      BY <1>1, <1>4
    <3> QED BY <1>1, <3>1, WindowStays DEF VerifyInv
  <2> QED BY <1>3, <2>2, <2>3, <2>4 DEF VerifyInv
<1>7. CASE UNCHANGED faults /\ committed' = Mapped(t.records, snapshot')
  <2>1. GroupInv'
    BY <1>1, <1>4, <1>5, <1>7 DEF GroupInv, Mapped
  <2> QED BY <1>1, <1>3, <1>7, <2>1, QuietVerify
<1> QED BY <1>2, <1>6, <1>7

LEMMA StepVerify == RestoreInv /\ VerifyInv /\ [Next]_vars => VerifyInv'
<1> SUFFICES ASSUME RestoreInv, VerifyInv, [Next]_vars PROVE VerifyInv'
  OBVIOUS
<1>1. CASE Seed \/ Baseline \/ Backup
  <2>1. pc \in {"seed", "backup"} /\ UNCHANGED <<window, verdict, target>> /\ pc' # "verify"
    BY <1>1 DEF Seed, Baseline, Backup, restoreVars
  <2>2. window = {} /\ verdict = {} /\ target = {}
    BY <2>1 DEF RestoreInv, PhaseInv, VerifyInv, WindowInv
  <2> QED BY <2>1, <2>2, NoRestoreYet
<1>2. CASE ArchiveSince
  <2>1. /\ pc = "since" /\ pc' \in {"idle", "ended"}
        /\ UNCHANGED <<log, cuts, kind, window, target, verdict, faults>>
    BY <1>2 DEF ArchiveSince, seedVars
  <2>2. GroupInv' /\ VerdictInv'
    BY <2>1 DEF GroupInv, VerdictInv, VerifyInv
  <2> QED BY <2>1, <2>2, QuietVerify
<1>3. CASE VerifyRestore
  <2>1. /\ pc' = "idle" /\ UNCHANGED <<log, cuts, kind, window, target, faults>>
    BY <1>3, Zenon DEF VerifyRestore, seedVars
  <2>2. target # {}
    BY <1>3, Zenon DEF VerifyRestore
  <2>3. GroupInv' /\ VerdictInv'
    BY <2>1, <2>2 DEF GroupInv, VerdictInv
  <2> QED BY <2>1, <2>3, QuietVerify
<1>4. CASE Kill
  <2>1. /\ pc \in {"restore", "reset"} /\ pc' = "idle" /\ UNCHANGED <<log, cuts, kind, window, target, faults, verdict>>
    BY <1>4 DEF Kill, seedVars
  <2>2. GroupInv' /\ VerdictInv'
    BY <2>1 DEF GroupInv, VerdictInv, VerifyInv
  <2> QED BY <2>1, <2>2, QuietVerify
<1>5. CASE UNCHANGED vars
  <2>1. UNCHANGED <<log, cuts, kind, window, target, faults, verdict, pc, todo, committed, snapshot>>
    BY <1>5 DEF vars, restoreVars, seedVars
  <2>2. WindowInv'
    BY <2>1, SameTopic DEF VerifyInv, WindowInv
  <2>3. HonestInv'
    BY <2>1, SameTopic DEF VerifyInv, HonestInv, InOrder, offsets_of
  <2>4. GroupInv' /\ VerdictInv'
    BY <2>1 DEF VerifyInv, GroupInv, VerdictInv, Mapped
  <2> QED BY <2>2, <2>3, <2>4 DEF VerifyInv
<1> QED BY <1>1, <1>2, <1>3, <1>4, <1>5, StartVerify, RecordVerify, WrongVerify, DoneVerify, ResetVerify DEF Next

LEMMA InitVerify == Init => VerifyInv
BY DEF Init, VerifyInv, WindowInv, HonestInv, GroupInv, VerdictInv

-----------------------------------------------------------------------------
(* The verdict. *)

AllGates(records, w) ==
  /\ original_offsets_strictly_increasing(records)
  /\ no_records_outside_window(records, w)
  /\ buckets_match_baseline(records, w) /\ every_difference_explained(records, w)

LEMMA VerdictIs ==
  ASSUME VerifyRestore
  PROVE  \E t \in target, w \in window : \A v \in verdict' :
           /\ v.buckets <=> buckets_match_baseline(t.records, w)
           /\ v.explained <=> every_difference_explained(t.records, w)
           /\ v.passed <=> AllGates(t.records, w) /\ (kind = "full" => consumer_group_offset_mapped(t.records))
<1>1. PICK t \in target, w \in window :
        verdict' = {[buckets |-> buckets_match_baseline(t.records, w),
                     explained |-> every_difference_explained(t.records, w),
                     passed  |-> /\ original_offsets_strictly_increasing(t.records)
                                 /\ no_records_outside_window(t.records, w)
                                 /\ buckets_match_baseline(t.records, w)
                                 /\ every_difference_explained(t.records, w)
                                 /\ kind = "full" => consumer_group_offset_mapped(t.records)]}
  BY Zenon DEF VerifyRestore
<1> DEFINE b == buckets_match_baseline(t.records, w)
           e == every_difference_explained(t.records, w)
           p == /\ original_offsets_strictly_increasing(t.records)
                /\ no_records_outside_window(t.records, w)
                /\ b /\ e
                /\ kind = "full" => consumer_group_offset_mapped(t.records)
<1>2. verdict' = {[buckets |-> b, explained |-> e, passed |-> p]}
  BY <1>1, Zenon
<1>3. p <=> AllGates(t.records, w) /\ (kind = "full" => consumer_group_offset_mapped(t.records))
  BY Zenon DEF AllGates
<1> HIDE DEF b, e, p
<1>4. \A v \in verdict' : v.buckets = b /\ v.explained = e /\ v.passed = p
  BY <1>2
<1>5. \A v \in verdict' : (v.buckets <=> b) /\ (v.explained <=> e) /\ (v.passed <=> p)
  BY <1>4, Zenon
<1> QED BY <1>3, <1>5, Zenon DEF b, e

\* What came back when nothing went wrong.
LEMMA HonestIsFaithful ==
  ASSUME RestoreInv, RestTypes, VerifyInv, Honest, NEW t \in target, NEW w \in window
  PROVE  Faithful(t.records, Selected(w))
<1>1. t.records \in Seq(Record)
  BY InvTypes DEF Target, Record
<1>2. InOrder(t.records) /\ offsets_of(t.records) = Selected(w)
  BY DEF Honest, VerifyInv, HonestInv
<1>3. \A i \in DOMAIN t.records : t.records[i] \in Range(source)
  BY DEF RestTypes
<1> QED BY <1>1, <1>2, <1>3 DEF Faithful

LEMMA TopicKnown ==
  ASSUME RestoreInv, kind # "none"
  PROVE  log \in Seq(Nat) /\ Cut /\ LatenessBounded
BY InvTypes, InvGivesProperties DEF RestoreInv, PhaseInv

LEMMA HonestGates ==
  ASSUME RestoreInv, RestTypes, VerifyInv, Honest, NEW t \in target, NEW w \in window,
         kind \in {"audit", "full"}, kind = "audit" => AuditMonthHasRecords
  PROVE  AllGates(t.records, w)
<1>1. Faithful(t.records, Selected(w)) /\ log \in Seq(Nat) /\ Cut /\ LatenessBounded
  BY HonestIsFaithful, TopicKnown
<1>2. CASE kind = "audit"
  <2>1. w = audit_window /\ Bounds(audit_window)
    BY <1>2, AuditExact DEF VerifyInv, WindowInv
  <2>2. ASSUME NEW o \in DOMAIN log, exact(audit_window, day_of(log[o])) PROVE o \in Selected(audit_window)
    <3>1. log[o] \in Int
      BY <1>1
    <3>2. audit_start <= log[o] /\ log[o] < audit_end_exclusive
      BY <2>2, <3>1, AuditExact
    <3> QED BY <1>1, <3>2, PaddedWindowSelects
  <2>3. Selected(audit_window) # {}
    <3>1. PICK o \in DOMAIN log : audit_start <= log[o] /\ log[o] < audit_end_exclusive
      BY <1>2 DEF AuditMonthHasRecords
    <3> QED BY <1>1, <3>1, PaddedWindowSelects
  <2> QED BY <1>1, <2>1, <2>2, <2>3, FaithfulPasses DEF AllGates
<1>3. CASE kind = "full"
  <2>1. w = full_window /\ Bounds(w) /\ Selected(w) = DOMAIN log
    BY <1>3, FullExact DEF VerifyInv, WindowInv
  <2>2. Selected(w) # {}
    BY <1>1, <2>1 DEF Cut
  <2> QED BY <1>1, <2>1, <2>2, FaithfulPasses DEF AllGates
<1> QED BY <1>2, <1>3

LEMMA HonestGroup ==
  ASSUME RestoreInv, RestTypes, VerifyInv, Honest, NEW t \in target, NEW w \in window,
         kind = "full", pc = "verify"
  PROVE  consumer_group_offset_mapped(t.records)
<1>1. Faithful(t.records, Selected(w)) /\ log \in Seq(Nat)
  BY HonestIsFaithful, TopicKnown
<1>2. committed = Mapped(t.records, snapshot) /\ snapshot \in 1..(Len(log) + 1)
  BY DEF VerifyInv, GroupInv, Honest
<1>3. CASE snapshot = Len(log) + 1
  BY <1>2, <1>3 DEF Mapped, consumer_group_offset_mapped
<1>4. CASE snapshot # Len(log) + 1
  <2>1. snapshot \in DOMAIN log
    <3>1. Len(log) \in Nat /\ DOMAIN log = 1..Len(log)
      BY <1>1, LenProperties
    <3> QED BY <1>2, <1>4, <3>1, SMT
  <2>2. Selected(w) = DOMAIN log
    BY FullExact DEF VerifyInv, WindowInv
  <2>3. snapshot \in Selected(w)
    BY <2>1, <2>2
  <2>4. PICK i \in DOMAIN t.records : t.records[i].orig = snapshot
    <3>1. \A o \in Selected(w) : \E i \in DOMAIN t.records : t.records[i].orig = o
      BY <1>1, FaithfulFacts
    <3> QED BY <2>3, <3>1
  <2>5. i \in committed
    BY <1>2, <1>4, <2>4 DEF Mapped
  <2> QED BY <1>4, <2>4, <2>5 DEF consumer_group_offset_mapped
<1> QED BY <1>3, <1>4

\* The audit days as PassedAuditIsExact has them.
ExactAudit(records) ==
  /\ \A d \in day_of(audit_start)..day_of(audit_end_exclusive - 1) :
       bucket(records, d) = bucket(source, d)
  /\ \A i \in DOMAIN records :
       audit_start - LateMax <= records[i].ts /\ records[i].ts < audit_end_exclusive + LateMax

LEMMA PassedAudit ==
  ASSUME RestoreInv, RestTypes, VerifyInv, kind = "audit", NEW t \in target, NEW w \in window,
         AllGates(t.records, w)
  PROVE  ExactAudit(t.records)
<1>1. w = audit_window
  BY DEF VerifyInv, WindowInv
<1>2. ASSUME NEW d \in day_of(audit_start)..day_of(audit_end_exclusive - 1)
      PROVE  bucket(t.records, d) = bucket(source, d)
  <2>1. fully_inside(w, d) /\ exact(w, d)
    BY <1>1, <1>2, AuditExact
  <2>2. CASE d \in all_days
    BY <2>1, <2>2 DEF AllGates, buckets_match_baseline, differs
  <2>3. CASE d \notin all_days
    <3>1. of_day(source, d) = {}
      BY <2>3, SourceDay DEF all_days
    <3>2. of_day(t.records, d) = {}
      <4>1. \A i \in DOMAIN t.records : t.records[i].orig \in DOMAIN log /\ t.records[i].ts = log[t.records[i].orig]
        BY SourceRecord DEF RestTypes
      <4> QED BY <2>3, <4>1 DEF of_day, all_days
    <3> QED BY <3>1, <3>2 DEF bucket
  <2> QED BY <2>2, <2>3
<1>3. ASSUME NEW i \in DOMAIN t.records
      PROVE  audit_start - LateMax <= t.records[i].ts /\ t.records[i].ts < audit_end_exclusive + LateMax
  <2>1. InWindow(t.records[i].ts, audit_window)
    BY <1>1 DEF AllGates, no_records_outside_window
  <2>2. t.records[i].ts >= audit_start - LateMax /\ t.records[i].ts <= audit_end_exclusive - 1 + LateMax
    BY <2>1 DEF InWindow, audit_window
  <2>3. t.records[i].ts \in Nat
    <3>1. t.records \in Seq(Record)
      BY InvTypes DEF Target, Record
    <3>2. t.records[i] \in Record
      BY <3>1, ElementOfSeq, LenProperties
    <3> QED BY <3>2 DEF Record
  <2>4. audit_start \in Int /\ audit_end_exclusive \in Int /\ LateMax \in Nat
    BY SeedAssumption, RestoreAssumption, SMT DEF audit_start, audit_end_exclusive, day_of
  <2> QED BY <2>2, <2>3, <2>4, SMT
<1> QED BY <1>2, <1>3 DEF ExactAudit

\* The group goes on where it was.
LEMMA PassedGroup ==
  ASSUME RestoreInv, RestTypes, VerifyInv, kind = "full", pc = "verify", NEW t \in target, NEW w \in window,
         AllGates(t.records, w), consumer_group_offset_mapped(t.records), NEW c \in committed
  PROVE  SubSeq(t.records, c, Len(t.records)) = SubSeq(source, snapshot, Len(log))
<1>1. t.records \in Seq(Record) /\ log \in Seq(Nat)
  BY InvTypes DEF Target, Record
<1>2. w = full_window
  BY DEF VerifyInv, WindowInv
<1>3. \A d \in all_days : ~differs(t.records, d)
  BY <1>2, FullExact DEF AllGates, buckets_match_baseline
<1>4. t.records = source /\ Len(t.records) = Len(log)
  <2>1. original_offsets_strictly_increasing(t.records) /\ \A i \in DOMAIN t.records : t.records[i] \in Range(source)
    BY DEF AllGates, RestTypes
  <2> QED BY <1>1, <1>3, <2>1, WholeTopic
<1>5. \A i \in DOMAIN t.records : t.records[i].orig = i
  BY <1>4, SourceDay
<1>6. c = snapshot
  <2>1. CASE committed = Mapped(t.records, snapshot)
    BY <1>4, <1>5, <2>1 DEF Mapped
  <2>2. CASE \E x \in 1..(Len(t.records) + 1) : committed = {x}
    <3>1. PICK x \in committed :
            IF snapshot = Len(log) + 1 THEN x = Len(t.records) + 1
            ELSE x \in DOMAIN t.records /\ t.records[x].orig = snapshot
      BY DEF consumer_group_offset_mapped
    <3>2. x = c
      BY <2>2
    <3> QED BY <1>4, <1>5, <3>1, <3>2
  <2> QED BY <2>1, <2>2 DEF VerifyInv, GroupInv
<1> QED BY <1>4, <1>6

-----------------------------------------------------------------------------
(* After its verdict an audit or a full restore stays as it is. *)

LEMMA AfterVerdict ==
  ASSUME RestoreInv, VerifyInv, [Next]_vars, ~VerifyRestore,
         kind' \in {"audit", "full"}, verdict' # {}
  PROVE  UNCHANGED vars
<1>1. CASE Seed \/ Baseline \/ Backup
  <2>1. verdict' = verdict /\ pc \in {"seed", "backup"}
    BY <1>1 DEF Seed, Baseline, Backup, restoreVars
  <2> QED BY <2>1 DEF VerifyInv, WindowInv
<1>2. CASE ArchiveSince \/ StartRestore \/ RestoreRecord \/ RestoreWrongly \/ RestoreDone \/ ResetGroup \/ Kill
  <2>1. kind' = kind /\ verdict' = verdict
    BY <1>2 DEF ArchiveSince, StartRestore, RestoreRecord, RestoreWrongly, RestoreDone, ResetGroup, Kill
  <2>2. pc = "idle" /\ target # {}
    BY <2>1 DEF VerifyInv, VerdictInv
  <2> QED BY <1>2, <2>1, <2>2 DEF ArchiveSince, StartRestore, RestoreRecord, RestoreWrongly, RestoreDone, ResetGroup, Kill
<1> QED BY <1>1, <1>2 DEF Next

NoFalseAlarm == (kind = "audit" => AuditMonthHasRecords) => HonestRestorePasses

\* The parts of the state that the verdict is about.
LEMMA TargetStays ==
  ASSUME UNCHANGED <<log, kind, target, snapshot, committed, faults>>
  PROVE  /\ Honest' = Honest /\ AuditMonthHasRecords' = AuditMonthHasRecords
         /\ \A records : ExactAudit(records)' = ExactAudit(records)
         /\ source' = source
<1>1. Honest' = Honest
  BY DEF Honest
<1>2. AuditMonthHasRecords' = AuditMonthHasRecords
  BY DEF AuditMonthHasRecords, audit_start, audit_end_exclusive, day_of
<1>3. source' = source
  BY DEF source
<1>4. \A records : ExactAudit(records)' = ExactAudit(records)
  BY <1>3 DEF ExactAudit, bucket, of_day, audit_start, audit_end_exclusive, day_of
<1> QED BY <1>1, <1>2, <1>3, <1>4

OutcomeInv == NoFalseAlarm /\ PassedAuditIsExact /\ GroupResumesWhereItStopped

LEMMA VerdictOutcome == RestoreInv /\ RestTypes /\ VerifyInv /\ VerifyRestore => OutcomeInv'
<1> SUFFICES ASSUME RestoreInv, RestTypes, VerifyInv, VerifyRestore PROVE OutcomeInv'
  OBVIOUS
<1>1. UNCHANGED <<log, kind, target, snapshot, committed, faults>>
      /\ pc \in {"idle", "verify"} /\ (kind # "audit" => pc = "verify")
  BY Zenon DEF VerifyRestore, seedVars
<1>2. PICK t \in target, w \in window : \A v \in verdict' :
        v.passed <=> AllGates(t.records, w) /\ (kind = "full" => consumer_group_offset_mapped(t.records))
  BY VerdictIs
<1>3. \A x \in target : x = t
  BY DEF VerifyInv, WindowInv
<1>4. NoFalseAlarm'
  <2>1. SUFFICES ASSUME kind = "audit" => AuditMonthHasRecords, kind \in {"audit", "full"}, Honest, NEW v \in verdict'
                 PROVE  v.passed
    BY <1>1, TargetStays DEF NoFalseAlarm, HonestRestorePasses
  <2>2. AllGates(t.records, w)
    BY <2>1, HonestGates
  <2>3. kind = "full" => consumer_group_offset_mapped(t.records)
    BY <1>1, <2>1, HonestGroup
  <2> QED BY <1>2, <2>1, <2>2, <2>3
<1>5. PassedAuditIsExact'
  <2>1. ASSUME kind = "audit", NEW v \in verdict', v.passed PROVE ExactAudit(t.records)
    BY <1>2, <2>1, PassedAudit
  <2>2. kind' = "audit" => \A v \in verdict', x \in target' : v.passed => ExactAudit(x.records)'
    BY <1>1, <1>3, <2>1, TargetStays
  <2> QED BY <2>2 DEF PassedAuditIsExact, ExactAudit
<1>6. GroupResumesWhereItStopped'
  <2>1. ASSUME kind = "full", NEW v \in verdict', v.passed, NEW c \in committed
        PROVE  SubSeq(t.records, c, Len(t.records)) = SubSeq(source, snapshot, Len(log))
    BY <1>1, <1>2, <2>1, PassedGroup
  <2>2. kind' = "full" => \A v \in verdict', x \in target', c \in committed' : v.passed =>
          SubSeq(x.records, c, Len(x.records)) = SubSeq(source', snapshot', Len(log'))
    BY <1>1, <1>3, <2>1, TargetStays
  <2> QED BY <2>2 DEF GroupResumesWhereItStopped
<1> QED BY <1>4, <1>5, <1>6 DEF OutcomeInv

LEMMA StepOutcome == RestoreInv /\ RestTypes /\ VerifyInv /\ OutcomeInv /\ [Next]_vars => OutcomeInv'
<1> SUFFICES ASSUME RestoreInv, RestTypes, VerifyInv, OutcomeInv, [Next]_vars, ~VerifyRestore PROVE OutcomeInv'
  BY VerdictOutcome
<1>1. CASE kind' \in {"audit", "full"} /\ verdict' # {}
  <2>1. UNCHANGED <<log, kind, target, snapshot, committed, faults, verdict>>
    BY <1>1, AfterVerdict DEF vars, restoreVars, seedVars
  <2>2. NoFalseAlarm'
    BY <2>1, TargetStays DEF OutcomeInv, NoFalseAlarm, HonestRestorePasses
  <2>3. PassedAuditIsExact'
    <3>1. kind = "audit" => \A v \in verdict, x \in target : v.passed => ExactAudit(x.records)
      BY DEF OutcomeInv, PassedAuditIsExact, ExactAudit
    <3>2. kind' = "audit" => \A v \in verdict', x \in target' : v.passed => ExactAudit(x.records)'
      BY <2>1, <3>1, TargetStays
    <3> QED BY <3>2 DEF PassedAuditIsExact, ExactAudit
  <2>4. GroupResumesWhereItStopped'
    BY <2>1, TargetStays DEF OutcomeInv, GroupResumesWhereItStopped
  <2> QED BY <2>2, <2>3, <2>4 DEF OutcomeInv
<1>2. CASE kind' \notin {"audit", "full"} \/ verdict' = {}
  BY <1>2 DEF OutcomeInv, NoFalseAlarm, HonestRestorePasses, PassedAuditIsExact, GroupResumesWhereItStopped
<1> QED BY <1>1, <1>2

LEMMA InitOutcome == Init => OutcomeInv
BY DEF Init, OutcomeInv, NoFalseAlarm, HonestRestorePasses, PassedAuditIsExact, GroupResumesWhereItStopped

\* The unpadded day.
LEMMA UnpaddedStep ==
  ASSUME RestoreInv, RestTypes, VerifyInv, [Next]_vars, kind = "unpadded", verdict' # verdict, Honest
  PROVE  \A v \in verdict' : ~v.buckets /\ v.explained
<1>1. VerifyRestore
  BY DEF Next, vars, restoreVars, Seed, Baseline, Backup, ArchiveSince, StartRestore, RestoreRecord,
         RestoreWrongly, RestoreDone, ResetGroup, Kill
<1>2. PICK t \in target, w \in window : \A v \in verdict' :
        /\ v.buckets <=> buckets_match_baseline(t.records, w)
        /\ v.explained <=> every_difference_explained(t.records, w)
  BY <1>1, VerdictIs
<1>3. PICK d \in all_days : w = day_window(d) /\ straddlers(d) # {}
  BY DEF VerifyInv, WindowInv
<1>4. Faithful(t.records, Selected(w)) /\ log \in Seq(Nat) /\ Cut
  BY HonestIsFaithful, TopicKnown
<1>5. ~buckets_match_baseline(t.records, w)
  BY <1>3, <1>4, UnpaddedFails
<1>6. Bounds(w)
  <2>1. \A o \in DOMAIN log : day_of(log[o]) \in Int
    <3>1. \A o \in DOMAIN log : log[o] \in Int
      BY <1>4
    <3>2. 0 \in Int
      OBVIOUS
    <3> QED BY <3>1, <3>2, DayBounds
  <2>2. d \in Int
    BY <2>1 DEF all_days
  <2>3. d * DAY \in Int /\ (d + 1) * DAY - 1 \in Int
    BY <2>2, SeedAssumption, SMT
  <2> QED BY <1>3, <2>3 DEF Bounds, day_window
<1>7. every_difference_explained(t.records, w)
  BY <1>4, <1>6, HonestIsExplained DEF every_difference_explained
<1> QED BY <1>2, <1>5, <1>7

-----------------------------------------------------------------------------
(* What a verdict stands for. *)

\* The inductive invariant: what the window is, that an honest restore holds
\* the selection in order, where the group is put, and that a verdict is last.
THEOREM VerifyInvariant == Spec => []VerifyInv
  BY InitVerify, StepVerify, RestoreInvariant, PTL DEF Spec

LEMMA OutcomeHolds == Spec => []OutcomeInv
  BY InitOutcome, StepOutcome, VerifyInvariant, RestoreInvariant, TypesInit, TypesStep, PTL DEF Spec

\* No false alarm: an audit or a full restore that went well passes, for an
\* audit month in which anything was produced at all (verify_restore.py:152-204).
THEOREM HonestRestoresPass ==
  Spec => []((kind = "audit" => AuditMonthHasRecords) => HonestRestorePasses)
<1>1. OutcomeInv => ((kind = "audit" => AuditMonthHasRecords) => HonestRestorePasses)
  BY DEF OutcomeInv, NoFalseAlarm
<1> QED BY <1>1, OutcomeHolds, PTL

\* No missed loss: a passed audit holds every record of its days once and in
\* order and nothing outside the padded window, whatever kafka-backup skipped,
\* repeated or swapped and wherever it was killed (verify_restore.py:162-204).
THEOREM PassedAudits == Spec => []PassedAuditIsExact
<1>1. OutcomeInv => PassedAuditIsExact
  BY DEF OutcomeInv
<1> QED BY <1>1, OutcomeHolds, PTL

\* After a passed phase 70 the group reads on the target what it had not read
\* on the source, wherever it was put (verify_restore.py:225-243).
THEOREM GroupResumes == Spec => []GroupResumesWhereItStopped
<1>1. OutcomeInv => GroupResumesWhereItStopped
  BY DEF OutcomeInv
<1> QED BY <1>1, OutcomeHolds, PTL

\* The unpadded day of phase 95 fails its bucket gate, and the bounds of the
\* segments predict what it lost (95-negative-tests.sh:114-122).
THEOREM UnpaddedCaught == Spec => UnpaddedLossIsCaught
<1>1. RestoreInv /\ RestTypes /\ VerifyInv /\ [Next]_vars
        => [kind = "unpadded" /\ verdict' # verdict /\ Honest =>
              \A v \in verdict' : ~v.buckets /\ v.explained]_vars
  BY UnpaddedStep
<1> QED BY <1>1, VerifyInvariant, RestoreInvariant, TypesInit, TypesStep, PTL DEF Spec, UnpaddedLossIsCaught
=============================================================================
