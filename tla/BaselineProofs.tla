--------------------------- MODULE BaselineProofs ---------------------------
(***************************************************************************)
(* For any number of partitions, records and timestamps: a baseline that   *)
(* gets past the comparison of phase 40 on a partition, or past phase 20   *)
(* while nothing is deleted, describes the topic exactly.                  *)
(***************************************************************************)
EXTENDS BaselineScan, FiniteSetTheorems, WellFoundedInduction, SequenceTheorems, TLAPS

-----------------------------------------------------------------------------
(* Least and greatest elements. *)

\* A set of natural numbers has a least element.
LEMMA LeastElement ==
  ASSUME NEW T \in SUBSET Nat, T # {}
  PROVE  \E x \in T : \A y \in T : x <= y
<1>1. PICK x \in T : \A y \in T : ~ (<<y, x>> \in OpToRel(<, Nat))
  BY NatLessThanWellFounded, WFMin
<1>2. ASSUME NEW y \in T PROVE ~(y < x)
  BY <1>1 DEF OpToRel
<1> QED BY <1>2, SMT

LEMMA MinOfSet ==
  ASSUME NEW T \in SUBSET Nat, T # {}
  PROVE  /\ Min(T) \in T /\ Min(T) \in Nat
         /\ \A y \in T : Min(T) <= y
         /\ \A x \in T : (\A y \in T : x <= y) => x = Min(T)
<1>1. Min(T) \in T /\ \A y \in T : Min(T) <= y
  BY LeastElement DEF Min
<1>2. ASSUME NEW x \in T, \A y \in T : x <= y PROVE x = Min(T)
  <2>1. x <= Min(T) /\ Min(T) <= x /\ x \in Nat /\ Min(T) \in Nat
    BY <1>1, <1>2
  <2> QED BY <2>1, SMT
<1> QED BY <1>1, <1>2

\* A bounded one has a greatest: the least of its upper bounds.
LEMMA MaxOfSet ==
  ASSUME NEW T \in SUBSET Nat, T # {}, NEW n \in Nat, \A y \in T : y <= n
  PROVE  Max(T) \in T /\ Max(T) \in Nat /\ \A y \in T : y <= Max(T)
<1> DEFINE bounds == {m \in Nat : \A y \in T : y <= m}
<1>1. PICK m \in bounds : \A k \in bounds : m <= k
  <2>1. bounds \in SUBSET Nat /\ n \in bounds
    OBVIOUS
  <2> QED BY <2>1, LeastElement, Zenon
<1>2. m \in Nat /\ \A y \in T : y <= m
  BY <1>1
<1>3. m \in T
  <2>1. SUFFICES ASSUME m \notin T PROVE FALSE
    OBVIOUS
  <2>2. \A y \in T : y <= m - 1
    BY <1>2, <2>1, SMT
  <2>3. PICK y \in T : y \in Nat
    OBVIOUS
  <2>4. m - 1 \in Nat
    <3>1. y <= m - 1 /\ y \in Nat
      BY <2>2, <2>3
    <3> QED BY <1>2, <3>1, SMT
  <2> QED BY <1>1, <1>2, <2>2, <2>4, SMT
<1>4. \A y \in T : m >= y
  BY <1>2, SMT
<1>5. Max(T) \in T /\ \A y \in T : Max(T) >= y
  BY <1>3, <1>4, Zenon DEF Max
<1>6. Max(T) \in Nat /\ \A y \in T : y \in Nat
  BY <1>5
<1>7. \A y \in T : y <= Max(T)
  BY <1>5, <1>6, SMT
<1> QED BY <1>5, <1>6, <1>7

-----------------------------------------------------------------------------
(* Sums over finite sets.  The library's sum takes one element after the     *)
(* other; that the equation of its fold has a solution is shown by           *)
(* solutions that are right for sets of up to n elements.                    *)

one(s) == CHOOSE x \in s : TRUE

\* F is the fold of f over the subsets of S.
Fold(F, f, S) == \A s \in SUBSET S : F[s] = IF s = {} THEN 0 ELSE f[one(s)] + F[s \ {one(s)}]

\* F solves the equation on the sets of up to n elements.
Solves(F, f, S, n) ==
  \A s \in SUBSET S : Cardinality(s) <= n =>
    F[s] = IF s = {} THEN 0 ELSE f[one(s)] + F[s \ {one(s)}]

LEMMA TakeOne ==
  ASSUME NEW s, IsFiniteSet(s), s # {}
  PROVE  /\ one(s) \in s /\ IsFiniteSet(s \ {one(s)})
         /\ Cardinality(s) \in Nat \ {0}
         /\ Cardinality(s \ {one(s)}) = Cardinality(s) - 1
<1>1. one(s) \in s
  BY DEF one
<1>2. Cardinality(s) \in Nat /\ Cardinality(s) # 0
  BY FS_CardinalityType, FS_EmptySet
<1> QED BY <1>1, <1>2, FS_RemoveElement

\* A solution for sets of up to n elements gives one for up to n + 1.
LEMMA SolveNext ==
  ASSUME NEW S, IsFiniteSet(S), NEW f \in [S -> Nat], NEW n \in Nat,
         NEW F \in [SUBSET S -> Nat], Solves(F, f, S, n)
  PROVE  \E G \in [SUBSET S -> Nat] : Solves(G, f, S, n + 1)
<1> DEFINE G == [s \in SUBSET S |-> IF s = {} THEN 0 ELSE f[one(s)] + F[s \ {one(s)}]]
<1>1. G \in [SUBSET S -> Nat]
  <2>1. SUFFICES ASSUME NEW s \in SUBSET S, s # {} PROVE f[one(s)] + F[s \ {one(s)}] \in Nat
    OBVIOUS
  <2>2. one(s) \in S /\ s \ {one(s)} \in SUBSET S
    BY <2>1 DEF one
  <2>3. f[one(s)] \in Nat /\ F[s \ {one(s)}] \in Nat
    BY <2>2
  <2> HIDE DEF one
  <2> QED BY <2>3
<1>2. ASSUME NEW s \in SUBSET S, Cardinality(s) <= n + 1
      PROVE  G[s] = IF s = {} THEN 0 ELSE f[one(s)] + G[s \ {one(s)}]
  <2>1. CASE s = {}
    BY <2>1
  <2>2. CASE s # {}
    <3>1. IsFiniteSet(s)
      BY FS_Subset
    <3> DEFINE r == s \ {one(s)}
    <3>2. r \in SUBSET S /\ Cardinality(r) <= n
      <4>1. Cardinality(s) \in Nat /\ Cardinality(r) = Cardinality(s) - 1
        BY <2>2, <3>1, TakeOne
      <4> QED BY <1>2, <4>1
    <3>3. F[r] = IF r = {} THEN 0 ELSE f[one(r)] + F[r \ {one(r)}]
      BY <3>2 DEF Solves
    <3>4. G[r] = F[r]
      BY <3>2, <3>3
    <3> QED BY <2>2, <3>4
  <2> QED BY <2>1, <2>2
<1> QED BY <1>1, <1>2 DEF Solves

LEMMA SolutionExists ==
  ASSUME NEW S, IsFiniteSet(S), NEW f \in [S -> Nat]
  PROVE  \E F \in [SUBSET S -> Nat] : Fold(F, f, S)
<1> DEFINE solved(n) == \E F \in [SUBSET S -> Nat] : Solves(F, f, S, n)
           bad == {n \in Nat : ~solved(n)}
<1>1. solved(0)
  <2> DEFINE Z == [s \in SUBSET S |-> 0]
  <2>1. ASSUME NEW s \in SUBSET S, Cardinality(s) <= 0 PROVE s = {}
    <3>1. IsFiniteSet(s)
      BY FS_Subset
    <3>2. SUFFICES ASSUME s # {} PROVE FALSE
      OBVIOUS
    <3>3. Cardinality(s) \in Nat \ {0}
      BY <3>1, <3>2, TakeOne
    <3> QED BY <2>1, <3>3, SMT
  <2>2. Z \in [SUBSET S -> Nat] /\ Solves(Z, f, S, 0)
    BY <2>1 DEF Solves
  <2> QED BY <2>2
<1>2. bad = {}
  <2>1. SUFFICES ASSUME bad # {} PROVE FALSE
    OBVIOUS
  <2>2. PICK n \in bad : \A m \in bad : n <= m
    <3>1. bad \in SUBSET Nat
      OBVIOUS
    <3> HIDE DEF bad
    <3> QED BY <2>1, <3>1, LeastElement
  <2>3. n \in Nat /\ n # 0 /\ n - 1 \in Nat /\ ~(n <= n - 1)
    BY <1>1, <2>2, SMT
  <2>4. solved(n - 1)
    BY <2>2, <2>3
  <2>5. solved((n - 1) + 1)
    BY <2>3, <2>4, SolveNext
  <2>6. (n - 1) + 1 = n
    BY <2>3, SMT
  <2> QED BY <2>2, <2>5, <2>6
<1>3. Cardinality(S) \in Nat /\ \A s \in SUBSET S : Cardinality(s) <= Cardinality(S)
  BY FS_CardinalityType, FS_Subset
<1>4. solved(Cardinality(S))
  BY <1>2, <1>3
<1> QED BY <1>3, <1>4 DEF Solves, Fold

\* A set of subsets of a finite set has one that loses nothing but leaves it.
LEMMA SmallestSubset ==
  ASSUME NEW S, IsFiniteSet(S), NEW B \in SUBSET SUBSET S, B # {}
  PROVE  \E s \in B : \A x \in s : s \ {x} \notin B
<1> DEFINE sizes_of == {Cardinality(s) : s \in B}
<1>1. \A s \in B : IsFiniteSet(s) /\ Cardinality(s) \in Nat
  BY FS_Subset, FS_CardinalityType
<1>2. sizes_of \in SUBSET Nat /\ sizes_of # {}
  BY <1>1
<1>3. PICK n \in sizes_of : \A m \in sizes_of : n <= m
  <2> HIDE DEF sizes_of
  <2> QED BY <1>2, LeastElement
<1>4. PICK s \in B : Cardinality(s) = n
  BY <1>3
<1>5. ASSUME NEW x \in s, s \ {x} \in B PROVE FALSE
  <2>1. Cardinality(s \ {x}) = Cardinality(s) - 1
    BY <1>1, <1>5, FS_RemoveElement
  <2>2. n <= Cardinality(s \ {x}) /\ n \in Nat
    BY <1>1, <1>3, <1>5
  <2> QED BY <1>4, <2>1, <2>2, SMT
<1> QED BY <1>5

LEMMA FoldIsNat ==
  ASSUME NEW S, IsFiniteSet(S), NEW f \in [S -> Nat], NEW F, Fold(F, f, S)
  PROVE  \A s \in SUBSET S : F[s] \in Nat
<1> DEFINE B == {s \in SUBSET S : F[s] \notin Nat}
<1>1. SUFFICES ASSUME B # {} PROVE FALSE
  OBVIOUS
<1>2. PICK s \in B : \A x \in s : s \ {x} \notin B
  <2>1. B \in SUBSET SUBSET S
    OBVIOUS
  <2> HIDE DEF B
  <2> QED BY <1>1, <2>1, SmallestSubset
<1>3. CASE s = {}
  <2>1. F[s] = 0
    BY <1>2, <1>3 DEF Fold
  <2> QED BY <1>2, <2>1
<1>4. CASE s # {}
  <2>1. one(s) \in s
    BY <1>4 DEF one
  <2>2. s \ {one(s)} \in SUBSET S /\ F[s \ {one(s)}] \in Nat /\ f[one(s)] \in Nat
    BY <1>2, <2>1
  <2>3. F[s] = f[one(s)] + F[s \ {one(s)}]
    BY <1>2, <1>4 DEF Fold
  <2>4. F[s] \in Nat
    BY <2>2, <2>3
  <2> QED BY <1>2, <2>4
<1> QED BY <1>3, <1>4

\* The sum is such a fold, of the set and all its subsets.
LEMMA SumIsFold ==
  ASSUME NEW S, IsFiniteSet(S), NEW f \in [S -> Nat]
  PROVE  \E F : SumFunction(f) = F[S] /\ Fold(F, f, S)
<1> DEFINE eqn(F) == F = [s \in SUBSET S |-> IF s = {} THEN 0 ELSE f[one(s)] + F[s \ {one(s)}]]
           iter == CHOOSE F : eqn(F)
<1>1. SumFunction(f) = iter[S]
  <2>1. DOMAIN f = S
    OBVIOUS
  <2> QED BY <2>1, Zenon DEF SumFunction, SumFunctionOnSet, FoldFunctionOnSet, MapThenFoldSet, one
<1>2. \E F : eqn(F)
  <2>1. PICK F \in [SUBSET S -> Nat] : Fold(F, f, S)
    BY SolutionExists
  <2>2. F = [s \in SUBSET S |-> F[s]]
    OBVIOUS
  <2>3. \A s \in SUBSET S : F[s] = IF s = {} THEN 0 ELSE f[one(s)] + F[s \ {one(s)}]
    BY <2>1, Zenon DEF Fold
  <2> DEFINE G == [s \in SUBSET S |-> IF s = {} THEN 0 ELSE f[one(s)] + F[s \ {one(s)}]]
  <2>4. eqn(F)
    <3>1. \A s \in SUBSET S : F[s] = G[s]
      BY <2>3, Zenon
    <3>2. G = [s \in SUBSET S |-> G[s]]
      OBVIOUS
    <3> HIDE DEF G
    <3>3. F = G
      BY <2>2, <3>1, <3>2
    <3> QED BY <3>3, Zenon DEF G
  <2> QED BY <2>4
<1>3. eqn(iter)
  BY <1>2, Zenon
<1> HIDE DEF iter
<1>4. Fold(iter, f, S)
  BY <1>3, Zenon DEF Fold
<1> QED BY <1>1, <1>4

\* One sum of smaller terms is not larger, and equal only if all terms are.
LEMMA SumsEqual ==
  ASSUME NEW S, IsFiniteSet(S), NEW f \in [S -> Nat], NEW g \in [S -> Nat],
         \A x \in S : f[x] <= g[x], SumFunction(f) = SumFunction(g)
  PROVE  f = g
<1>1. PICK F : SumFunction(f) = F[S] /\ Fold(F, f, S)
  BY SumIsFold
<1>2. PICK G : SumFunction(g) = G[S] /\ Fold(G, g, S)
  BY SumIsFold
<1>3. \A s \in SUBSET S : F[s] \in Nat /\ G[s] \in Nat
  BY <1>1, <1>2, FoldIsNat
<1> DEFINE good(s) == F[s] <= G[s] /\ (F[s] = G[s] => \A x \in s : f[x] = g[x])
           B == {s \in SUBSET S : ~good(s)}
<1>4. B = {}
  <2>1. SUFFICES ASSUME B # {} PROVE FALSE
    OBVIOUS
  <2>2. PICK s \in B : \A x \in s : s \ {x} \notin B
    <3>1. B \in SUBSET SUBSET S
      OBVIOUS
    <3> HIDE DEF B
    <3> QED BY <2>1, <3>1, SmallestSubset
  <2>3. CASE s = {}
    <3>1. F[s] = 0 /\ G[s] = 0
      BY <1>1, <1>2, <2>3 DEF Fold
    <3> QED BY <2>2, <2>3, <3>1
  <2>4. CASE s # {}
    <3> DEFINE x == one(s)
               t == s \ {x}
    <3>1. x \in s /\ s \in SUBSET S /\ t \in SUBSET S
      BY <2>2, <2>4 DEF one
    <3>2. F[s] = f[x] + F[t] /\ G[s] = g[x] + G[t]
      BY <1>1, <1>2, <2>4, <3>1 DEF Fold
    <3>3. good(t)
      BY <2>2, <3>1
    <3>4. f[x] \in Nat /\ g[x] \in Nat /\ f[x] <= g[x] /\ F[t] \in Nat /\ G[t] \in Nat
      BY <1>3, <3>1
    <3>5. F[s] <= G[s]
      BY <3>2, <3>3, <3>4, SMT
    <3>6. ASSUME F[s] = G[s] PROVE \A y \in s : f[y] = g[y]
      <4>1. f[x] = g[x] /\ F[t] = G[t]
        BY <3>2, <3>3, <3>4, <3>6, SMT
      <4>2. \A y \in t : f[y] = g[y]
        BY <3>3, <4>1
      <4> QED BY <4>1, <4>2
    <3>7. good(s)
      BY <3>5, <3>6
    <3> QED BY <2>2, <3>7
  <2> QED BY <2>3, <2>4
<1>5. S \in SUBSET S /\ good(S)
  BY <1>4
<1>6. \A x \in S : f[x] = g[x]
  BY <1>1, <1>2, <1>5
<1> QED BY <1>6

-----------------------------------------------------------------------------
(* Segments.  The segments of a partition share out its offsets.             *)

\* A segment's offsets, when there are offsets for it.
LEMMA PlacedFinite ==
  ASSUME NEW end \in Nat, NEW F \in SUBSET (0..end), NEW b \in F
  PROVE  /\ placed(F, b, end) \in SUBSET (0..(end - 1)) /\ IsFiniteSet(placed(F, b, end))
         /\ \A c \in F : c # b => placed(F, b, end) \cap placed(F, c, end) = {}
<1>1. placed(F, b, end) \in SUBSET (0..(end - 1))
  BY SMT DEF placed
<1>2. IsFiniteSet(0..(end - 1))
  BY FS_Interval, SMT
<1>3. ASSUME NEW c \in F, c # b, NEW o \in placed(F, b, end), o \in placed(F, c, end) PROVE FALSE
  <2>1. b <= o /\ c <= o /\ c <= b /\ b <= c
    BY <1>3 DEF placed
  <2>2. b \in Nat /\ c \in Nat
    OBVIOUS
  <2> QED BY <1>3, <2>1, <2>2, SMT
<1> QED BY <1>1, <1>2, <1>3, FS_Subset

\* The last segment runs to the end.
LEMMA LastPlaced ==
  ASSUME NEW end \in Nat, NEW F \in SUBSET (0..end), F # {}
  PROVE  /\ Max(F) \in F /\ Max(F) \in Nat /\ Max(F) <= end /\ \A c \in F : c <= Max(F)
         /\ placed(F, Max(F), end) = Max(F)..(end - 1)
         /\ Cardinality(placed(F, Max(F), end)) = end - Max(F)
<1>1. F \in SUBSET Nat /\ \A c \in F : c <= end
  OBVIOUS
<1>2. Max(F) \in F /\ Max(F) \in Nat /\ \A c \in F : c <= Max(F)
  BY <1>1, MaxOfSet
<1>3. Max(F) <= end
  BY <1>1, <1>2
<1>4. placed(F, Max(F), end) = Max(F)..(end - 1)
  BY <1>2 DEF placed
<1>5. Cardinality(Max(F)..(end - 1)) = end - Max(F)
  <2>1. Max(F) \in Int /\ end - 1 \in Int
    BY <1>2
  <2>2. Cardinality(Max(F)..(end - 1)) = IF Max(F) > end - 1 THEN 0 ELSE end - 1 - Max(F) + 1
    BY <2>1, FS_Interval
  <2> QED BY <1>2, <1>3, <2>2, SMT
<1> QED BY <1>2, <1>3, <1>4, <1>5

\* The sizes of the segments add up to the offsets from the first one on.
LEMMA SizesAddUp ==
  ASSUME NEW end \in Nat, NEW F \in SUBSET (0..end), F # {},
         NEW bytes, bytes = [b \in F |-> bytes[b]],
         \A b \in F : bytes[b] = Cardinality(placed(F, b, end))
  PROVE  SumFunction(bytes) = end - Min(F)
<1>1. IsFiniteSet(F)
  <2>1. IsFiniteSet(0..end)
    BY FS_Interval, SMT
  <2> QED BY <2>1, FS_Subset
<1>2. bytes \in [F -> Nat]
  <2>1. \A b \in F : bytes[b] \in Nat
    BY PlacedFinite, FS_CardinalityType
  <2> QED BY <2>1
<1>3. PICK S : SumFunction(bytes) = S[F] /\ Fold(S, bytes, F)
  BY <1>1, <1>2, SumIsFold
<1> DEFINE cover(s) == {o \in 0..(end - 1) : \E b \in s : o \in placed(F, b, end)}
           B == {s \in SUBSET F : S[s] # Cardinality(cover(s))}
<1>4. B = {}
  <2>1. SUFFICES ASSUME B # {} PROVE FALSE
    OBVIOUS
  <2>2. PICK s \in B : \A x \in s : s \ {x} \notin B
    <3>1. B \in SUBSET SUBSET F
      OBVIOUS
    <3> HIDE DEF B
    <3> QED BY <1>1, <2>1, <3>1, SmallestSubset
  <2>3. CASE s = {}
    <3>1. cover(s) = {}
      BY <2>3
    <3>2. S[s] = 0
      BY <1>3, <2>3 DEF Fold
    <3> QED BY <2>2, <3>1, <3>2, FS_EmptySet
  <2>4. CASE s # {}
    <3> DEFINE x == one(s)
               t == s \ {x}
    <3>1. x \in s /\ x \in F /\ t \in SUBSET F
      BY <2>2, <2>4 DEF one
    <3>2. S[s] = bytes[x] + S[t]
      BY <1>3, <2>2, <2>4 DEF Fold
    <3>3. S[t] = Cardinality(cover(t)) /\ bytes[x] = Cardinality(placed(F, x, end))
      BY <2>2, <3>1
    <3>4. /\ placed(F, x, end) \in SUBSET (0..(end - 1)) /\ IsFiniteSet(placed(F, x, end))
          /\ \A c \in F : c # x => placed(F, x, end) \cap placed(F, c, end) = {}
      BY <3>1, PlacedFinite
    <3>5. IsFiniteSet(cover(t))
      <4>1. IsFiniteSet(0..(end - 1))
        <5>1. 0 \in Int /\ end - 1 \in Int
          BY SMT
        <5> QED BY <5>1, FS_Interval
      <4>2. cover(t) \in SUBSET (0..(end - 1))
        OBVIOUS
      <4> HIDE DEF cover, x, t
      <4> QED BY <4>1, <4>2, FS_Subset
    <3>6. cover(s) = placed(F, x, end) \cup cover(t)
      BY <3>1, <3>4
    <3>7. placed(F, x, end) \cap cover(t) = {}
      BY <3>1, <3>4
    <3>8. Cardinality(cover(s)) = Cardinality(placed(F, x, end)) + Cardinality(cover(t))
      <4> HIDE DEF cover, x, t
      <4>1. Cardinality(placed(F, x, end) \cap cover(t)) = 0
        BY <3>7, FS_EmptySet
      <4>2. Cardinality(cover(s)) = Cardinality(placed(F, x, end)) + Cardinality(cover(t))
                                    - Cardinality(placed(F, x, end) \cap cover(t))
        BY <3>4, <3>5, <3>6, FS_Union
      <4>3. Cardinality(placed(F, x, end)) \in Nat /\ Cardinality(cover(t)) \in Nat
        BY <3>4, <3>5, FS_CardinalityType
      <4> QED BY <4>1, <4>2, <4>3, SMT
    <3> QED BY <2>2, <3>2, <3>3, <3>8
  <2> QED BY <2>3, <2>4
<1>5. S[F] = Cardinality(cover(F))
  BY <1>4
<1>6. F \in SUBSET Nat /\ Min(F) \in F /\ Min(F) \in Nat /\ Min(F) <= end /\ \A c \in F : Min(F) <= c
  <2>1. F \in SUBSET Nat
    OBVIOUS
  <2>2. Min(F) \in F /\ Min(F) \in Nat /\ \A c \in F : Min(F) <= c
    BY <2>1, MinOfSet
  <2> QED BY <2>1, <2>2
<1>7. cover(F) = Min(F)..(end - 1)
  <2>1. ASSUME NEW o \in Min(F)..(end - 1) PROVE o \in cover(F)
    <3> DEFINE below == {c \in F : c <= o}
    <3>1. below \in SUBSET Nat /\ below # {} /\ o \in Nat /\ \A c \in below : c <= o
      BY <1>6
    <3>2. Max(below) \in below /\ \A c \in below : c <= Max(below)
      BY <3>1, MaxOfSet
    <3>3. o \in placed(F, Max(below), end)
      BY <3>1, <3>2 DEF placed
    <3> QED BY <1>6, <3>2, <3>3
  <2>2. ASSUME NEW o \in cover(F) PROVE o \in Min(F)..(end - 1)
    <3>1. PICK b \in F : o \in placed(F, b, end)
      BY <2>2
    <3>2. o \in b..(end - 1) /\ Min(F) <= b
      BY <1>6, <3>1 DEF placed
    <3> QED BY <1>6, <3>2, SMT
  <2> QED BY <2>1, <2>2
<1>8. Cardinality(Min(F)..(end - 1)) = end - Min(F)
  <2>1. Min(F) \in Int /\ end - 1 \in Int
    BY <1>6
  <2>2. Cardinality(Min(F)..(end - 1)) = IF Min(F) > end - 1 THEN 0 ELSE end - 1 - Min(F) + 1
    BY <2>1, FS_Interval
  <2> QED BY <1>6, <2>2, SMT
<1> QED BY <1>3, <1>5, <1>7, <1>8, Zenon
-----------------------------------------------------------------------------
(* One partition: what was read of it and how its log goes on.               *)

\* How the files B and the end n of a partition may become B2 and n2.
Later(B, n, B2, n2, keep) ==
  /\ n <= n2 /\ Min(B) <= Min(B2)
  /\ keep => B \subseteq B2 /\ \A c \in B2 \ B : n <= c /\ c < n2

\* What was read stays true however the log goes on.
LEMMA ReadStays ==
  ASSUME NEW n \in Nat, NEW n2 \in Nat, NEW B, NEW B2, NEW keep \in BOOLEAN,
         LogInv(B, n, keep), LogInv(B2, n2, keep), Later(B, n, B2, n2, keep)
  PROVE  /\ \A from, to \in Nat : \A bytes :
              ReadInv(B, n, keep, from, to, bytes) => ReadInv(B2, n2, keep, from, to, bytes)
         /\ \A mk \in Marks : MarksInv(B, n, mk) => MarksInv(B2, n2, mk)
         /\ \A mk \in Marks, pos \in Nat, done \in BOOLEAN : \A seen :
              MarksInv(B, n, mk) /\ ScanInv(B, n, mk, pos, seen, done) => ScanInv(B2, n2, mk, pos, seen, done)
<1>1. Min(B) \in Nat /\ Min(B2) \in Nat /\ n <= n2 /\ Min(B) <= Min(B2)
  <2>1. B \in SUBSET Nat /\ B # {} /\ B2 \in SUBSET Nat /\ B2 # {}
    BY DEF LogInv
  <2> QED BY <2>1, MinOfSet DEF Later
<1>2. ASSUME NEW from \in Nat, NEW to \in Nat, NEW bytes, ReadInv(B, n, keep, from, to, bytes)
      PROVE  ReadInv(B2, n2, keep, from, to, bytes)
  <2> DEFINE F == DOMAIN bytes
             end == files_end(bytes)
  <2>1. /\ F # {} /\ F \subseteq 0..end /\ end \in Nat
        /\ bytes = [b \in F |-> Cardinality(placed(F, b, end))]
        /\ from <= Min(F) /\ Min(F) <= Min(B)
        /\ to <= end /\ end <= n
        /\ keep => F \subseteq B /\ \A c \in B \ F : end <= c /\ c < n
    BY <1>2 DEF ReadInv
  <2> HIDE DEF F, end
  <2>2. Min(F) \in Nat
    <3>1. F \in SUBSET Nat
      BY <2>1
    <3> QED BY <2>1, <3>1, MinOfSet
  <2>3. Min(F) <= Min(B2) /\ end <= n2
    BY <1>1, <2>1, <2>2, SMT
  <2>4. ASSUME keep PROVE F \subseteq B2 /\ \A c \in B2 \ F : end <= c /\ c < n2
    <3>1. F \subseteq B /\ (\A c \in B \ F : end <= c /\ c < n) /\ B \subseteq B2
          /\ \A c \in B2 \ B : n <= c /\ c < n2
      BY <2>1, <2>4 DEF Later
    <3>2. \A c \in B2 : c \in Nat
      BY DEF LogInv
    <3> QED BY <1>1, <2>1, <3>1, <3>2, SMT
  <2>5. /\ F # {} /\ F \subseteq 0..end /\ end \in Nat
        /\ bytes = [b \in F |-> Cardinality(placed(F, b, end))]
        /\ from <= Min(F) /\ Min(F) <= Min(B2)
        /\ to <= end /\ end <= n2
        /\ keep => F \subseteq B2 /\ \A c \in B2 \ F : end <= c /\ c < n2
    BY <2>1, <2>3, <2>4
  <2> QED BY <2>5, Zenon DEF ReadInv, F, end
<1>3. \A mk \in Marks : mk.low \in Nat /\ mk.high \in Nat
  BY DEF Marks
<1>4. \A mk \in Marks : MarksInv(B, n, mk) => MarksInv(B2, n2, mk)
  BY <1>1, <1>3, SMT DEF MarksInv
<1>5. ASSUME NEW mk \in Marks, NEW pos \in Nat, NEW done \in BOOLEAN, NEW seen,
             MarksInv(B, n, mk), ScanInv(B, n, mk, pos, seen, done)
      PROVE  ScanInv(B2, n2, mk, pos, seen, done)
  <2>1. mk.low <= pos /\ pos <= n2 /\ (done => mk.high <= pos \/ mk.high <= mk.low)
    BY <1>1, <1>3, <1>5, SMT DEF ScanInv
  <2>2. Min(B2) = mk.low => Min(B) = mk.low
    BY <1>1, <1>3, <1>5, SMT DEF MarksInv
  <2> QED BY <1>5, <2>1, <2>2 DEF ScanInv
<1> QED BY <1>2, <1>4, <1>5

\* An append, in the last file or in a new one.
LEMMA AppendLater ==
  ASSUME NEW n \in Nat, NEW B, NEW keep \in BOOLEAN, LogInv(B, n, keep)
  PROVE  /\ LogInv(B, n + 1, keep) /\ Later(B, n, B, n + 1, keep)
         /\ LogInv(B \cup {n}, n + 1, keep) /\ Later(B, n, B \cup {n}, n + 1, keep)
<1>1. B \in SUBSET Nat /\ B # {} /\ (\A b \in B : b <= n) /\ (keep => 0 \in B)
  BY DEF LogInv
<1>2. Min(B) \in B /\ Min(B) \in Nat /\ \A b \in B : Min(B) <= b
  BY <1>1, MinOfSet
<1>3. Min(B \cup {n}) = Min(B)
  <2>1. B \cup {n} \in SUBSET Nat /\ B \cup {n} # {} /\ Min(B) \in B \cup {n}
    BY <1>1, <1>2
  <2>2. \A b \in B \cup {n} : Min(B) <= b
    BY <1>1, <1>2
  <2> HIDE DEF Min
  <2> QED BY <2>1, <2>2, MinOfSet
<1>4. LogInv(B, n + 1, keep) /\ LogInv(B \cup {n}, n + 1, keep)
  <2>1. \A b \in B \cup {n} : b \in 0..(n + 1)
    BY <1>1, SMT
  <2> QED BY <1>1, <2>1 DEF LogInv
<1>5. Later(B, n, B, n + 1, keep) /\ Later(B, n, B \cup {n}, n + 1, keep)
  <2>1. n <= n + 1 /\ n < n + 1 /\ n <= n /\ Min(B) <= Min(B)
    BY <1>2, SMT
  <2> QED BY <1>3, <2>1 DEF Later
<1> QED BY <1>4, <1>5

\* A deletion of the files below b.
LEMMA DeleteLater ==
  ASSUME NEW n \in Nat, NEW B, LogInv(B, n, FALSE), NEW b \in (B \ {Min(B)}) \cup {n}, NEW B2,
         B2 = {c \in B \cup {n} : c >= b /\ (c \in B \/ b = n)}
  PROVE  LogInv(B2, n, FALSE) /\ Later(B, n, B2, n, FALSE)
<1>1. B \in SUBSET Nat /\ B # {} /\ (\A c \in B : c <= n)
  BY DEF LogInv
<1>2. Min(B) \in B /\ Min(B) \in Nat /\ \A c \in B : Min(B) <= c
  BY <1>1, MinOfSet
<1>3. b \in Nat /\ Min(B) <= b
  BY <1>1, <1>2
<1>4. b \in B2 /\ B2 \in SUBSET Nat /\ B2 \subseteq 0..n
  <2>1. b \in B \cup {n} /\ b >= b /\ (b \in B \/ b = n)
    BY <1>3, SMT
  <2>2. b \in B2
    BY <2>1
  <2>3. \A c \in B2 : c \in Nat /\ c <= n
    BY <1>1, SMT
  <2> QED BY <2>2, <2>3
<1>5. Min(B2) \in B2
  BY <1>4, MinOfSet
<1>6. Min(B2) \in Nat /\ b <= Min(B2)
  BY <1>3, <1>4, <1>5, SMT
<1>7. Min(B) <= Min(B2)
  BY <1>2, <1>3, <1>6, SMT
<1>8. n <= n
  OBVIOUS
<1> QED BY <1>4, <1>7, <1>8 DEF LogInv, Later
-----------------------------------------------------------------------------
(* What producers and retention checks do to the topic.                      *)

\* Records that are there keep their timestamps.
Kept(p) == \A offs \in SUBSET (0..(high(p) - 1)) : summary(p, offs)' = summary(p, offs)

TopicGoesOn ==
  /\ stamp' \in [Partition -> Seq(Stamps)] /\ bases' \in [Partition -> SUBSET Nat]
  /\ retained' = retained
  /\ \A p \in Partition : /\ LogInv(bases'[p], high(p)', retained)
                          /\ Later(bases[p], high(p), bases'[p], high(p)', retained)
                          /\ Kept(p)

LEMMA SameLater ==
  ASSUME NEW n \in Nat, NEW B, NEW keep \in BOOLEAN, LogInv(B, n, keep)
  PROVE  Later(B, n, B, n, keep)
<1>1. Min(B) \in Nat
  <2>1. B \in SUBSET Nat /\ B # {}
    BY DEF LogInv
  <2> QED BY <2>1, MinOfSet
<1> QED BY <1>1 DEF Later

LEMMA TopicFacts ==
  ASSUME ShapeInv, TopicInv
  PROVE  /\ retained \in BOOLEAN
         /\ \A p \in Partition : /\ stamp[p] \in Seq(Stamps) /\ bases[p] \in SUBSET Nat /\ high(p) \in Nat
                                 /\ LogInv(bases[p], high(p), retained) /\ low(p) \in Nat /\ low(p) <= high(p)
                                 /\ low(p) \in bases[p]
<1>1. \A p \in Partition : stamp[p] \in Seq(Stamps) /\ bases[p] \in SUBSET Nat
  BY DEF ShapeInv
<1>2. \A p \in Partition : high(p) \in Nat
  BY <1>1, LenProperties DEF high
<1>3. retained \in BOOLEAN /\ \A p \in Partition : LogInv(bases[p], high(p), retained)
  BY DEF TopicInv
<1>4. ASSUME NEW p \in Partition PROVE low(p) \in Nat /\ low(p) <= high(p) /\ low(p) \in bases[p]
  <2>1. bases[p] # {} /\ bases[p] \subseteq 0..high(p)
    BY <1>3 DEF LogInv
  <2>2. Min(bases[p]) \in bases[p] /\ Min(bases[p]) \in Nat
    BY <1>1, <2>1, MinOfSet
  <2> QED BY <1>2, <2>1, <2>2 DEF low
<1> QED BY <1>1, <1>2, <1>3, <1>4

LEMMA AppendGoesOn ==
  ASSUME ShapeInv, TopicInv, NEW p \in Partition, Append1(p)
  PROVE  TopicGoesOn
<1>1. PICK ts \in Stamps : stamp' = [stamp EXCEPT ![p] = Append(@, ts)]
  BY DEF Append1
<1>2. retained' = retained /\ (bases' = bases \/ bases' = [bases EXCEPT ![p] = @ \cup {high(p)}])
  BY DEF Append1
<1>3. /\ stamp \in [Partition -> Seq(Stamps)] /\ bases \in [Partition -> SUBSET Nat]
  BY DEF ShapeInv
<1>4. retained \in BOOLEAN /\ \A q \in Partition : high(q) \in Nat /\ LogInv(bases[q], high(q), retained)
  BY TopicFacts
<1>5. stamp'[p] = Append(stamp[p], ts) /\ \A q \in Partition : q # p => stamp'[q] = stamp[q]
  BY <1>1, <1>3
<1>6. stamp' \in [Partition -> Seq(Stamps)]
  <2>1. Append(stamp[p], ts) \in Seq(Stamps)
    BY <1>3, AppendProperties
  <2> QED BY <1>1, <1>3, <2>1
<1>7. bases' \in [Partition -> SUBSET Nat]
  <2>1. bases[p] \cup {high(p)} \in SUBSET Nat
    BY <1>3, <1>4
  <2> QED BY <1>2, <1>3, <2>1
<1>8. high(p)' = high(p) + 1 /\ \A q \in Partition : q # p => high(q)' = high(q)
  <2>1. Len(Append(stamp[p], ts)) = Len(stamp[p]) + 1
    BY <1>3, AppendProperties
  <2> QED BY <1>5, <2>1 DEF high
<1>9. \A q \in Partition : q # p => bases'[q] = bases[q]
  BY <1>2, <1>3
<1>10. bases'[p] = bases[p] \/ bases'[p] = bases[p] \cup {high(p)}
  BY <1>2, <1>3
<1>11. ASSUME NEW q \in Partition
       PROVE  LogInv(bases'[q], high(q)', retained) /\ Later(bases[q], high(q), bases'[q], high(q)', retained)
  <2>1. CASE q = p
    <3>1. /\ LogInv(bases[p], high(p) + 1, retained) /\ Later(bases[p], high(p), bases[p], high(p) + 1, retained)
          /\ LogInv(bases[p] \cup {high(p)}, high(p) + 1, retained)
          /\ Later(bases[p], high(p), bases[p] \cup {high(p)}, high(p) + 1, retained)
      BY <1>4, AppendLater
    <3> QED BY <1>8, <1>10, <2>1, <3>1
  <2>2. CASE q # p
    <3>1. bases'[q] = bases[q] /\ high(q)' = high(q)
      BY <1>8, <1>9, <2>2
    <3>2. LogInv(bases[q], high(q), retained) /\ Later(bases[q], high(q), bases[q], high(q), retained)
      BY <1>4, SameLater
    <3> QED BY <3>1, <3>2
  <2> QED BY <2>1, <2>2
<1>12. ASSUME NEW q \in Partition PROVE Kept(q)
  <2>1. SUFFICES ASSUME NEW offs \in SUBSET (0..(high(q) - 1)) PROVE summary(q, offs)' = summary(q, offs)
    BY DEF Kept
  <2>2. \A o \in offs : stamp'[q][o + 1] = stamp[q][o + 1]
    <3>1. CASE q # p
      BY <1>5, <3>1
    <3>2. CASE q = p
      <4>1. \A i \in 1..Len(stamp[p]) : Append(stamp[p], ts)[i] = stamp[p][i]
        BY <1>3, AppendProperties
      <4>2. \A o \in offs : o + 1 \in 1..Len(stamp[p])
        <5>1. high(p) \in Nat /\ high(p) = Len(stamp[p])
          BY <1>4 DEF high
        <5>2. \A o \in offs : o \in 0..(high(p) - 1)
          BY <3>2
        <5> QED BY <5>1, <5>2, SMT
      <4> QED BY <1>5, <3>2, <4>1, <4>2
    <3> QED BY <3>1, <3>2
  <2>3. {stamp'[q][o + 1] : o \in offs} = {stamp[q][o + 1] : o \in offs}
    BY <2>2
  <2> QED BY <2>3 DEF summary, largest
<1> QED BY <1>2, <1>6, <1>7, <1>11, <1>12 DEF TopicGoesOn

LEMMA DeleteGoesOn ==
  ASSUME ShapeInv, TopicInv, NEW p \in Partition, DeleteOldest(p)
  PROVE  TopicGoesOn
<1>1. ~retained /\ stamp' = stamp /\ retained' = retained
  BY DEF DeleteOldest
<1>2. PICK b \in (bases[p] \ {low(p)}) \cup {high(p)} :
        bases' = [bases EXCEPT ![p] = {c \in @ \cup {high(p)} : c >= b /\ (c \in @ \/ b = high(p))}]
  BY DEF DeleteOldest
<1>3. /\ stamp \in [Partition -> Seq(Stamps)] /\ bases \in [Partition -> SUBSET Nat]
  BY DEF ShapeInv
<1>4. retained \in BOOLEAN /\ \A q \in Partition : high(q) \in Nat /\ LogInv(bases[q], high(q), retained)
  BY TopicFacts
<1> DEFINE B2 == {c \in bases[p] \cup {high(p)} : c >= b /\ (c \in bases[p] \/ b = high(p))}
<1>5. bases' = [bases EXCEPT ![p] = B2]
  BY <1>2
<1>6. B2 \in SUBSET Nat
  BY <1>3, <1>4
<1>7. /\ bases'[p] = B2 /\ bases' \in [Partition -> SUBSET Nat]
      /\ \A q \in Partition : q # p => bases'[q] = bases[q]
  <2> HIDE DEF B2
  <2> QED BY <1>3, <1>5, <1>6
<1>8. \A q \in Partition : high(q)' = high(q)
  BY <1>1 DEF high
<1>9. retained = FALSE
  BY <1>1, <1>4
<1>10. LogInv(B2, high(p), FALSE) /\ Later(bases[p], high(p), B2, high(p), FALSE)
  <2>1. high(p) \in Nat /\ LogInv(bases[p], high(p), FALSE)
    BY <1>4, <1>9
  <2>2. b \in (bases[p] \ {Min(bases[p])}) \cup {high(p)}
    BY <1>2 DEF low
  <2> HIDE DEF high
  <2> QED BY <2>1, <2>2, DeleteLater
<1>11. ASSUME NEW q \in Partition
       PROVE  LogInv(bases'[q], high(q)', retained) /\ Later(bases[q], high(q), bases'[q], high(q)', retained)
  <2> HIDE DEF B2
  <2>1. CASE q = p
    BY <1>7, <1>8, <1>9, <1>10, <2>1
  <2>2. CASE q # p
    <3>1. LogInv(bases[q], high(q), retained) /\ Later(bases[q], high(q), bases[q], high(q), retained)
      BY <1>4, SameLater
    <3> QED BY <1>7, <1>8, <2>2, <3>1
  <2> QED BY <2>1, <2>2
<1>12. ASSUME NEW q \in Partition PROVE Kept(q)
  BY <1>1 DEF Kept, summary, largest
<1> QED BY <1>1, <1>3, <1>7, <1>11, <1>12 DEF TopicGoesOn

\* Producers and retention checks break nothing of what phases have read.
LEMMA EnvironmentInv ==
  ASSUME BaselineInv, Environment
  PROVE  BaselineInv'
<1>1. ShapeInv /\ TopicInv /\ JobInv /\ FileInv
  BY DEF BaselineInv
<1>2. TopicGoesOn
  BY <1>1, AppendGoesOn, DeleteGoesOn DEF Environment
<1>3. baseline' = baseline /\ timings' = timings /\ job' = job
  BY DEF Environment
<1>4. retained' = retained /\ retained \in BOOLEAN
  BY <1>1, <1>2, TopicFacts DEF TopicGoesOn
<1>5. ASSUME NEW p \in Partition
      PROVE  /\ high(p) \in Nat /\ high(p)' \in Nat /\ high(p) <= high(p)'
             /\ LogInv(bases[p], high(p), retained) /\ LogInv(bases'[p], high(p)', retained)
             /\ Later(bases[p], high(p), bases'[p], high(p)', retained)
             /\ low(p) \in Nat /\ low(p)' \in Nat /\ low(p) <= low(p)' /\ low(p) <= high(p)
  <2>1. LogInv(bases[p], high(p), retained) /\ high(p) \in Nat /\ low(p) \in Nat /\ low(p) <= high(p)
    BY <1>1, TopicFacts
  <2>2. LogInv(bases'[p], high(p)', retained) /\ Later(bases[p], high(p), bases'[p], high(p)', retained)
    BY <1>2 DEF TopicGoesOn
  <2>3. high(p)' \in Nat
    <3>1. stamp'[p] \in Seq(Stamps)
      BY <1>2 DEF TopicGoesOn
    <3> QED BY <3>1, LenProperties DEF high
  <2>4. Min(bases'[p]) \in Nat
    <3>1. bases'[p] # {} /\ bases'[p] \subseteq 0..high(p)'
      BY <2>2 DEF LogInv
    <3>2. bases'[p] \in SUBSET Nat
      BY <3>1
    <3> QED BY <3>1, <3>2, MinOfSet
  <2>5. high(p) <= high(p)' /\ low(p) <= low(p)' /\ low(p)' \in Nat
    BY <2>2, <2>4 DEF Later, low
  <2> QED BY <2>1, <2>2, <2>3, <2>5
<1>6. ASSUME NEW p \in Partition
      PROVE  /\ \A from, to \in Nat : \A bytes :
                  ReadInv(bases[p], high(p), retained, from, to, bytes)
                    => ReadInv(bases'[p], high(p)', retained, from, to, bytes)
             /\ \A mk \in Marks : MarksInv(bases[p], high(p), mk) => MarksInv(bases'[p], high(p)', mk)
             /\ \A mk \in Marks, pos \in Nat, done \in BOOLEAN : \A seen :
                  MarksInv(bases[p], high(p), mk) /\ ScanInv(bases[p], high(p), mk, pos, seen, done)
                    => ScanInv(bases'[p], high(p)', mk, pos, seen, done)
  <2>1. high(p) \in Nat /\ high(p)' \in Nat /\ retained \in BOOLEAN
        /\ LogInv(bases[p], high(p), retained) /\ LogInv(bases'[p], high(p)', retained)
        /\ Later(bases[p], high(p), bases'[p], high(p)', retained)
    BY <1>4, <1>5
  <2> QED BY <2>1, ReadStays
<1>7. ShapeInv'
  <2>1. \A p \in Partition : job.seen[p] \subseteq 0..(high(p)' - 1)
    <3>1. SUFFICES ASSUME NEW p \in Partition, NEW o \in job.seen[p] PROVE o \in 0..(high(p)' - 1)
      OBVIOUS
    <3>2. o \in 0..(high(p) - 1)
      BY <1>1 DEF ShapeInv
    <3> QED BY <1>5, <3>2, SMT
  <2> QED BY <1>1, <1>2, <1>3, <2>1 DEF ShapeInv, TopicGoesOn
<1>8. TopicInv'
  BY <1>4, <1>5 DEF TopicInv
<1>9. \A p \in Partition : job.marks[p] \in Marks /\ job.marks[p].low \in Nat /\ job.marks[p].high \in Nat
                           /\ job.pos[p] \in Nat
  BY <1>1 DEF ShapeInv, Marks
<1>10. JobInv'
  <2>1. Before("marks")' = Before("marks") /\ Before("inventory")' = Before("inventory")
        /\ Before("again")' = Before("again") /\ \A pc : Before(pc) \subseteq Partition
    BY <1>3 DEF Before
  <2>2. /\ \/ job.phase = "none" /\ job.pc = "idle"
           \/ job.phase = "20" /\ job.pc \in {"marks", "inventory", "scan", "again", "write", "size"}
           \/ job.phase = "40" /\ job.pc \in {"marks", "compare"}
        /\ job.pc = "inventory" => \A p \in Partition \ Before("inventory") : job.seen[p] = {} /\ p \notin job.left
        /\ job.pc = "marks" => \A p \in Partition : job.seen[p] = {} /\ p \notin job.left
        /\ job.pc = "scan" => job.turn = 0
        /\ job.pc \in {"again", "write"} => job.left = {}
        /\ job.pc \in {"again", "write"} /\ job.ok =>
             \A p \in Before("again") : files_end(sizes(job.files[p])) = job.marks[p].high
    BY <1>1 DEF JobInv, PhaseInv, MarkedInv, ScannedInv, UnreadInv, AgainInv
  <2>3. ASSUME job.pc \notin {"idle", "size"}, NEW p \in Before("marks")
        PROVE  /\ MarksInv(bases'[p], high(p)', job.marks[p])
               /\ job.phase = "40" => \A f \in baseline : /\ Min(DOMAIN f[p].bytes) <= job.marks[p].low
                                                          /\ files_end(f[p].bytes) <= job.marks[p].high
    <3>1. /\ MarksInv(bases[p], high(p), job.marks[p])
          /\ job.phase = "40" => \A f \in baseline : /\ Min(DOMAIN f[p].bytes) <= job.marks[p].low
                                                     /\ files_end(f[p].bytes) <= job.marks[p].high
      BY <1>1, <2>3 DEF JobInv, PhaseInv, MarkedInv, ScannedInv, UnreadInv, AgainInv
    <3>2. p \in Partition
      BY <2>1
    <3> QED BY <1>6, <1>9, <3>1, <3>2
  <2>4. ASSUME job.pc \in {"inventory", "scan", "again", "write"}, NEW p \in Before("inventory")
        PROVE  /\ ReadInv(bases'[p], high(p)', retained, job.marks[p].low, job.marks[p].high, sizes(job.files[p]))
               /\ ScanInv(bases'[p], high(p)', job.marks[p], job.pos[p], job.seen[p], p \notin job.left)
    <3>1. p \in Partition /\ p \in Before("marks") /\ job.pc \notin {"idle", "size"}
      BY <2>4 DEF Before
    <3>2. /\ ReadInv(bases[p], high(p), retained, job.marks[p].low, job.marks[p].high, sizes(job.files[p]))
          /\ ScanInv(bases[p], high(p), job.marks[p], job.pos[p], job.seen[p], p \notin job.left)
          /\ MarksInv(bases[p], high(p), job.marks[p])
      BY <1>1, <2>4, <3>1 DEF JobInv, PhaseInv, MarkedInv, ScannedInv, UnreadInv, AgainInv
    <3>3. (p \notin job.left) \in BOOLEAN
      OBVIOUS
    <3> QED BY <1>6, <1>9, <3>1, <3>2, <3>3
  <2> QED BY <1>3, <1>4, <2>1, <2>2, <2>3, <2>4 DEF JobInv, PhaseInv, MarkedInv, ScannedInv, UnreadInv, AgainInv
<1>11. FileInv'
  <2>1. SUFFICES ASSUME NEW f \in baseline, NEW p \in Partition
        PROVE  /\ f[p].low \in Nat /\ f[p].high \in Nat
               /\ ReadInv(bases'[p], high(p)', retained, f[p].low, f[p].high, f[p].bytes)
               /\ low(p)' = f[p].low =>
                    f[p].segments = [b \in DOMAIN f[p].bytes |->
                                       summary(p, placed(DOMAIN f[p].bytes, b, f[p].high))']
               /\ job.pc = "size" => files_end(f[p].bytes) = f[p].high
    BY <1>3, <1>4 DEF FileInv
  <2>2. /\ f[p].low \in Nat /\ f[p].high \in Nat
        /\ ReadInv(bases[p], high(p), retained, f[p].low, f[p].high, f[p].bytes)
        /\ low(p) = f[p].low =>
             f[p].segments = [b \in DOMAIN f[p].bytes |-> summary(p, placed(DOMAIN f[p].bytes, b, f[p].high))]
        /\ job.pc = "size" => files_end(f[p].bytes) = f[p].high
    BY <1>1 DEF FileInv
  <2>3. ReadInv(bases'[p], high(p)', retained, f[p].low, f[p].high, f[p].bytes)
    BY <1>6, <2>2
  <2> DEFINE F == DOMAIN f[p].bytes
             end == files_end(f[p].bytes)
  <2>4. ASSUME low(p)' = f[p].low PROVE low(p) = f[p].low
    <3>1. /\ F # {} /\ F \subseteq 0..end /\ f[p].low <= Min(F) /\ Min(F) <= low(p)
      BY <2>2 DEF ReadInv, low
    <3>2. Min(F) \in Nat
      <4>1. F \in SUBSET Nat
        BY <3>1
      <4> HIDE DEF F
      <4> QED BY <3>1, <4>1, MinOfSet
    <3> QED BY <1>5, <2>2, <2>4, <3>1, <3>2
  <2>5. ASSUME NEW b \in F
        PROVE  summary(p, placed(F, b, f[p].high))' = summary(p, placed(F, b, f[p].high))
    <3>1. F \subseteq 0..end /\ end \in Nat /\ f[p].high <= end /\ end <= high(p)
      BY <2>2 DEF ReadInv
    <3>2. placed(F, b, f[p].high) \in SUBSET (0..(high(p) - 1))
      <4>1. SUFFICES ASSUME NEW o \in placed(F, b, f[p].high) PROVE o \in 0..(high(p) - 1)
        OBVIOUS
      <4>2. o \in b..(f[p].high - 1) /\ b \in Nat
        BY <3>1 DEF placed
      <4>3. f[p].high <= high(p) /\ high(p) \in Nat /\ f[p].high \in Nat
        BY <1>5, <2>2, <3>1, SMT
      <4> QED BY <4>2, <4>3, SMT
    <3> HIDE DEF F
    <3> QED BY <1>2, <3>2 DEF TopicGoesOn, Kept
  <2> QED BY <2>2, <2>3, <2>4, <2>5
<1> QED BY <1>7, <1>8, <1>10, <1>11 DEF BaselineInv
-----------------------------------------------------------------------------
(* What the phases do.                                                       *)

LEMMA NoJobShape ==
  /\ NoJob.turn \in Partition /\ NoJob.ok \in BOOLEAN /\ NoJob.left = {}
  /\ NoJob.marks \in [Partition -> Marks] /\ NoJob.pos \in [Partition -> Nat]
  /\ NoJob.files = [p \in Partition |-> NoJob.files[p]]
  /\ NoJob.seen \in [Partition -> SUBSET Nat] /\ \A p \in Partition : NoJob.seen[p] = {}
  /\ NoJob = [phase |-> "none", pc |-> "idle", turn |-> 0, ok |-> NoJob.ok,
              marks |-> NoJob.marks, files |-> NoJob.files, left |-> NoJob.left,
              pos |-> NoJob.pos, seen |-> NoJob.seen]
<1>1. 0 \in Partition
  BY BaselineAssumption DEF Partition
<1> QED BY <1>1 DEF NoJob, Marks

\* A phase that has read nothing.
Fresh(ph, pc) == [phase |-> ph, pc |-> pc, turn |-> 0, ok |-> NoJob.ok,
                  marks |-> NoJob.marks, files |-> NoJob.files, left |-> NoJob.left,
                  pos |-> NoJob.pos, seen |-> NoJob.seen]

LEMMA NoJobIsFresh ==
  ASSUME NEW ph, NEW pc, NEW x, x = [NoJob EXCEPT !.phase = ph, !.pc = pc]
  PROVE  x = Fresh(ph, pc)
BY DEF NoJob, Fresh

\* Between two phases, and when a phase begins, nothing has been read.
LEMMA FreshInv ==
  ASSUME BaselineInv, UNCHANGED topicVars, timings' \in {"NONE", "PASS", "FAIL"}, FileInv',
         NEW ph, NEW pc, job' = Fresh(ph, pc),
         \/ ph = "none" /\ pc = "idle"
         \/ ph = "20" /\ pc \in {"marks", "size"}
         \/ ph = "40" /\ pc = "marks"
  PROVE  BaselineInv'
<1>1. job' = [phase |-> ph, pc |-> pc, turn |-> 0, ok |-> NoJob.ok,
              marks |-> NoJob.marks, files |-> NoJob.files, left |-> NoJob.left,
              pos |-> NoJob.pos, seen |-> NoJob.seen]
  BY DEF Fresh
<1>2. /\ job'.phase = ph /\ job'.pc = pc /\ job'.turn = 0 /\ job'.left = {}
      /\ job'.ok = NoJob.ok /\ job'.marks = NoJob.marks /\ job'.files = NoJob.files /\ job'.pos = NoJob.pos
      /\ job'.seen = NoJob.seen
  BY <1>1, NoJobShape
<1>3. ShapeInv'
  <2>1. \A p \in Partition : job'.seen[p] = {}
    BY <1>2, NoJobShape
  <2>2. 0 \in Partition
    BY BaselineAssumption DEF Partition
  <2>3. /\ stamp' \in [Partition -> Seq(Stamps)] /\ bases' \in [Partition -> SUBSET Nat]
    BY DEF BaselineInv, ShapeInv, topicVars
  <2>4. /\ job'.turn \in Partition /\ job'.ok \in BOOLEAN /\ job'.left \subseteq Partition
        /\ job'.marks \in [Partition -> Marks] /\ job'.pos \in [Partition -> Nat]
        /\ job'.files = [p \in Partition |-> job'.files[p]]
        /\ job'.seen \in [Partition -> SUBSET Nat]
    BY <1>2, <2>2, NoJobShape
  <2> QED BY <1>1, <1>2, <2>1, <2>3, <2>4 DEF ShapeInv
<1>4. TopicInv'
  BY DEF BaselineInv, TopicInv, topicVars, high
<1>5. JobInv'
  <2>1. pc = "marks" => Before("marks")' = {}
    <3>1. \A p \in Partition : ~(p < 0)
      BY SMT DEF Partition
    <3> QED BY <1>2, <3>1 DEF Before
  <2>2. \A p \in Partition : job'.seen[p] = {} /\ p \notin job'.left
    BY <1>2, NoJobShape
  <2> QED BY <1>2, <2>1, <2>2 DEF JobInv, PhaseInv, MarkedInv, ScannedInv, UnreadInv, AgainInv
<1> QED BY <1>3, <1>4, <1>5 DEF BaselineInv

\* A step that changes neither the topic nor the file, and does not come to the
\* comparison with kafka-log-dirs.
LEMMA SameFile ==
  ASSUME BaselineInv, UNCHANGED topicVars, baseline' = baseline, job'.pc # "size" \/ job'.pc = job.pc
  PROVE  FileInv'
<1>1. /\ stamp' = stamp /\ bases' = bases /\ retained' = retained
  BY DEF topicVars
<1>2. \A p \in Partition : high(p)' = high(p) /\ low(p)' = low(p) /\ \A offs : summary(p, offs)' = summary(p, offs)
  BY <1>1 DEF high, low, summary, largest
<1>3. SUFFICES ASSUME NEW f \in baseline, NEW p \in Partition
      PROVE  /\ f[p].low \in Nat /\ f[p].high \in Nat
             /\ ReadInv(bases[p], high(p), retained, f[p].low, f[p].high, f[p].bytes)
             /\ low(p) = f[p].low =>
                  f[p].segments = [b \in DOMAIN f[p].bytes |-> summary(p, placed(DOMAIN f[p].bytes, b, f[p].high))]
             /\ job'.pc = "size" => files_end(f[p].bytes) = f[p].high
  BY <1>1, <1>2 DEF FileInv
<1> QED BY <1>3 DEF BaselineInv, FileInv

LEMMA EndInv ==
  ASSUME BaselineInv, UNCHANGED <<topicVars, baseline>>, job' = NoJob, timings' \in {"NONE", "PASS", "FAIL"}
  PROVE  BaselineInv'
<1>1. job' = Fresh("none", "idle")
  BY NoJobShape DEF Fresh
<1>2. job'.pc # "size"
  BY <1>1 DEF Fresh
<1>3. FileInv'
  BY <1>2, SameFile
<1> QED BY <1>1, <1>3, FreshInv

\* One turn of a loop over the partitions.
LEMMA LoopGoesOn ==
  ASSUME ShapeInv, NEW p \in Partition, NEW loop, NEW next, loop # next, job.pc = loop, job.turn = p,
         job'.turn = (p + 1) % Partitions, job'.pc = IF p + 1 = Partitions THEN next ELSE loop
  PROVE  /\ job'.turn \in Partition
         /\ \A q \in Before(loop)' : q \in Partition /\ (q = p \/ q \in Before(loop))
         /\ Before(next)' = IF p + 1 = Partitions THEN {} ELSE Partition
         /\ p + 1 = Partitions => job'.turn = 0
         /\ \A pc : pc # loop /\ pc # next => Before(pc)' = Partition
         /\ \A pc : pc # loop => Before(pc) = Partition
         /\ p \notin Before(loop) /\ p \in Before(loop)'
         /\ \A q \in Partition : q \notin Before(loop)' => q \notin Before(loop) /\ q # p
<1>1. Partitions \in Nat /\ Partitions > 0 /\ p \in Nat /\ p < Partitions
  BY BaselineAssumption, SMT DEF Partition
<1>2. job'.turn = IF p + 1 = Partitions THEN 0 ELSE p + 1
  <2>1. p + 1 = Partitions => (p + 1) % Partitions = 0
    BY <1>1, SMT
  <2>2. p + 1 # Partitions => (p + 1) % Partitions = p + 1
    BY <1>1, SMT
  <2> QED BY <2>1, <2>2
<1>3. \A q \in Partition : q \in Nat /\ q < Partitions /\ q + 1 <= Partitions
  BY <1>1, SMT DEF Partition
<1>4. job'.turn \in Partition
  BY <1>1, <1>2, SMT DEF Partition
<1>5. \A q \in Before(loop)' : q \in Partition /\ (q = p \/ q \in Before(loop))
  <2>1. SUFFICES ASSUME NEW q \in Partition, job'.pc = loop => q < job'.turn PROVE q = p \/ q < p
    BY DEF Before
  <2>2. CASE p + 1 = Partitions
    BY <1>1, <1>3, <2>2, SMT
  <2>3. CASE p + 1 # Partitions
    <3>1. q < p + 1
      BY <1>2, <2>1, <2>3
    <3> QED BY <1>1, <1>3, <3>1, SMT
  <2> QED BY <2>2, <2>3
<1>6. Before(next)' = IF p + 1 = Partitions THEN {} ELSE Partition
  <2>1. CASE p + 1 = Partitions
    <3>1. \A q \in Partition : ~(q < 0)
      BY <1>3, SMT
    <3> QED BY <1>2, <2>1, <3>1 DEF Before
  <2>2. CASE p + 1 # Partitions
    BY <2>2 DEF Before
  <2> QED BY <2>1, <2>2
<1>7. \A pc : pc # loop /\ pc # next => Before(pc)' = Partition
  BY DEF Before
<1>8. \A pc : pc # loop => Before(pc) = Partition
  BY DEF Before
<1>9. p \notin Before(loop) /\ p \in Before(loop)'
  <2>1. ~(p < p)
    BY <1>1, SMT
  <2>2. p + 1 # Partitions => p < job'.turn
    BY <1>1, <1>2, SMT
  <2> QED BY <2>1, <2>2 DEF Before
<1>10. ASSUME NEW q \in Partition, q \notin Before(loop)' PROVE q \notin Before(loop) /\ q # p
  <2>1. job'.pc = loop /\ ~(q < job'.turn)
    BY <1>10 DEF Before
  <2>2. p + 1 # Partitions /\ ~(q < p + 1)
    BY <1>2, <2>1
  <2>3. ~(q < p) /\ q # p
    BY <1>1, <1>3, <2>2, SMT
  <2> QED BY <2>3 DEF Before
<1> QED BY <1>2, <1>4, <1>5, <1>6, <1>7, <1>8, <1>9, <1>10

LEMMA QuietTopic ==
  ASSUME BaselineInv, UNCHANGED topicVars
  PROVE  /\ stamp' = stamp /\ bases' = bases /\ retained' = retained /\ TopicInv'
         /\ stamp \in [Partition -> Seq(Stamps)] /\ bases \in [Partition -> SUBSET Nat]
         /\ \A p \in Partition : high(p)' = high(p) /\ low(p)' = low(p)
<1>1. /\ stamp' = stamp /\ bases' = bases /\ retained' = retained
  BY DEF topicVars
<1>2. \A p \in Partition : high(p)' = high(p) /\ low(p)' = low(p)
  BY <1>1 DEF high, low
<1>3. /\ stamp \in [Partition -> Seq(Stamps)] /\ bases \in [Partition -> SUBSET Nat] /\ TopicInv
  BY DEF BaselineInv, ShapeInv
<1>4. TopicInv'
  BY <1>1, <1>2, <1>3 DEF TopicInv
<1> QED BY <1>1, <1>2, <1>3, <1>4

\* The job is a record, and so is what a turn of a loop makes of it.
LEMMA JobFields ==
  ASSUME ShapeInv
  PROVE  /\ job = [phase |-> job.phase, pc |-> job.pc, turn |-> job.turn, ok |-> job.ok,
                   marks |-> job.marks, files |-> job.files, left |-> job.left,
                   pos |-> job.pos, seen |-> job.seen]
         /\ \A p \in Partition : \A next :
              After(p, next) = [phase |-> job.phase, pc |-> IF p + 1 = Partitions THEN next ELSE job.pc,
                                turn |-> (p + 1) % Partitions, ok |-> job.ok,
                                marks |-> job.marks, files |-> job.files, left |-> job.left,
                                pos |-> job.pos, seen |-> job.seen]
<1>1. job = [phase |-> job.phase, pc |-> job.pc, turn |-> job.turn, ok |-> job.ok,
             marks |-> job.marks, files |-> job.files, left |-> job.left,
             pos |-> job.pos, seen |-> job.seen]
  BY DEF ShapeInv
<1>2. ASSUME NEW p \in Partition, NEW next, NEW x, x = After(p, next)
      PROVE  x = [phase |-> job.phase, pc |-> IF p + 1 = Partitions THEN next ELSE job.pc,
                  turn |-> (p + 1) % Partitions, ok |-> job.ok,
                  marks |-> job.marks, files |-> job.files, left |-> job.left,
                  pos |-> job.pos, seen |-> job.seen]
  BY <1>1, <1>2 DEF After
<1> QED BY <1>1, <1>2, Zenon

LEMMA ReadMarksInv ==
  ASSUME BaselineInv, NEW p \in Partition, ReadMarks(p)
  PROVE  BaselineInv'
<1>1. job.pc = "marks" /\ job.turn = p /\ UNCHANGED <<topicVars, baseline, timings, starts>>
  BY DEF ReadMarks
<1>2. ShapeInv /\ TopicInv /\ JobInv /\ FileInv
  BY DEF BaselineInv
<1>3. PICK next : /\ next = IF job.phase = "20" THEN "inventory" ELSE "compare"
                  /\ job' = [After(p, next) EXCEPT !.marks[p] = mark(p)]
  BY DEF ReadMarks
<1>4. /\ job'.phase = job.phase /\ job'.turn = (p + 1) % Partitions
      /\ job'.pc = (IF p + 1 = Partitions THEN next ELSE job.pc)
      /\ job'.ok = job.ok /\ job'.marks = [job.marks EXCEPT ![p] = mark(p)]
      /\ job'.files = job.files /\ job'.left = job.left /\ job'.pos = job.pos /\ job'.seen = job.seen
      /\ job' = [phase |-> job'.phase, pc |-> job'.pc, turn |-> job'.turn, ok |-> job'.ok,
                 marks |-> job'.marks, files |-> job'.files, left |-> job'.left,
                 pos |-> job'.pos, seen |-> job'.seen]
  BY <1>2, <1>3, JobFields
<1>5. /\ stamp' = stamp /\ bases' = bases /\ retained' = retained /\ TopicInv'
      /\ \A q \in Partition : high(q)' = high(q) /\ low(q)' = low(q)
  BY <1>1, QuietTopic
<1>6. /\ job'.turn \in Partition
      /\ \A q \in Before("marks")' : q \in Partition /\ (q = p \/ q \in Before("marks"))
      /\ Before(next)' = (IF p + 1 = Partitions THEN {} ELSE Partition)
      /\ p + 1 = Partitions => Before("marks")' = Partition
  <2>1. next # "marks" /\ job'.pc = IF p + 1 = Partitions THEN next ELSE "marks"
    BY <1>1, <1>3, <1>4
  <2>2. p + 1 = Partitions => Before("marks")' = Partition
    BY <2>1 DEF Before
  <2> QED BY <1>1, <1>2, <1>4, <2>1, <2>2, LoopGoesOn
<1>7. mark(p) \in Marks /\ MarksInv(bases[p], high(p), mark(p))
  <2>1. low(p) \in Nat /\ high(p) \in Nat
    BY <1>2, TopicFacts
  <2>2. low(p) <= low(p) /\ high(p) <= high(p)
    BY <2>1
  <2>3. mark(p) \in Marks /\ mark(p).low = low(p) /\ mark(p).high = high(p)
    BY <2>1 DEF mark, Marks
  <2> QED BY <2>2, <2>3 DEF MarksInv, low
<1>8. job'.marks \in [Partition -> Marks] /\ job'.marks[p] = mark(p)
      /\ \A q \in Partition : q # p => job'.marks[q] = job.marks[q]
  BY <1>2, <1>4, <1>7 DEF ShapeInv
<1>9. ShapeInv'
  BY <1>1, <1>2, <1>4, <1>5, <1>6, <1>8 DEF ShapeInv
<1>10. job.phase \in {"20", "40"} /\ job'.pc \in {"marks", "inventory", "compare"}
       /\ (job.phase = "20" => job'.pc # "compare") /\ (job.phase = "40" => job'.pc # "inventory")
  BY <1>1, <1>2, <1>3, <1>4 DEF JobInv, PhaseInv, MarkedInv, ScannedInv, UnreadInv, AgainInv
<1>11. FileInv'
  BY <1>1, <1>10, SameFile
<1>12. JobInv'
  <2>1. ASSUME NEW q \in Before("marks")'
        PROVE  /\ MarksInv(bases[q], high(q), job'.marks[q])
               /\ job.phase = "40" => \A f \in baseline : /\ Min(DOMAIN f[q].bytes) <= job'.marks[q].low
                                                          /\ files_end(f[q].bytes) <= job'.marks[q].high
    <3>1. CASE q = p
      <4>1. \A f \in baseline : Min(DOMAIN f[p].bytes) <= low(p) /\ files_end(f[p].bytes) <= high(p)
        BY <1>2 DEF FileInv, ReadInv, low
      <4>2. mark(p).low = low(p) /\ mark(p).high = high(p)
        BY DEF mark
      <4> QED BY <1>7, <1>8, <3>1, <4>1, <4>2
    <3>2. CASE q # p
      <4>1. q \in Partition /\ q \in Before("marks")
        BY <1>6, <2>1, <3>2
      <4>2. /\ MarksInv(bases[q], high(q), job.marks[q])
            /\ job.phase = "40" => \A f \in baseline : /\ Min(DOMAIN f[q].bytes) <= job.marks[q].low
                                                       /\ files_end(f[q].bytes) <= job.marks[q].high
        BY <1>1, <1>2, <4>1 DEF JobInv, PhaseInv, MarkedInv, ScannedInv, UnreadInv, AgainInv
      <4> QED BY <1>8, <3>2, <4>1, <4>2
    <3> QED BY <3>1, <3>2
  <2>2. \A q \in Before("marks")' : q \in Partition
    BY <1>6
  <2>3. job'.pc = "inventory" => Before("inventory")' = {}
    BY <1>1, <1>3, <1>4, <1>6
  <2>4. \A q \in Partition : job'.seen[q] = {} /\ q \notin job'.left
    BY <1>1, <1>2, <1>4 DEF JobInv, PhaseInv, MarkedInv, ScannedInv, UnreadInv, AgainInv
  <2>5. \/ job'.phase = "20" /\ job'.pc \in {"marks", "inventory"}
        \/ job'.phase = "40" /\ job'.pc \in {"marks", "compare"}
    BY <1>4, <1>10
  <2>6. PhaseInv'
    BY <2>5 DEF PhaseInv
  <2>7. MarkedInv'
    BY <1>1, <1>4, <1>5, <2>1, <2>2 DEF MarkedInv
  <2>8. ScannedInv'
    BY <1>10, <2>3 DEF ScannedInv
  <2>9. UnreadInv'
    BY <1>10, <2>4 DEF UnreadInv
  <2>10. AgainInv'
    BY <1>10 DEF AgainInv
  <2> QED BY <2>6, <2>7, <2>8, <2>9, <2>10 DEF JobInv
<1> QED BY <1>5, <1>9, <1>11, <1>12 DEF BaselineInv

LEMMA StartInv ==
  ASSUME BaselineInv, NEW ph \in {"20", "40"}, StartPhase(ph)
  PROVE  BaselineInv'
<1>1. job' = [NoJob EXCEPT !.phase = ph, !.pc = "marks"] /\ UNCHANGED topicVars /\ baseline' = baseline
      /\ timings' = timings
  BY DEF StartPhase
<1>2. job' = Fresh(ph, "marks")
  BY <1>1, NoJobIsFresh
<1>3. job'.pc # "size"
  BY <1>2 DEF Fresh
<1>4. FileInv'
  BY <1>1, <1>3, SameFile
<1>5. timings' \in {"NONE", "PASS", "FAIL"}
  BY <1>1 DEF BaselineInv, ShapeInv
<1> QED BY <1>1, <1>2, <1>4, <1>5, FreshInv

\* The segment files of a partition, as they are.
LEMMA SegmentsRead ==
  ASSUME NEW n \in Nat, NEW B, NEW keep \in BOOLEAN, LogInv(B, n, keep), NEW bytes,
         bytes = [b \in B |-> Cardinality(placed(B, b, n))]
  PROVE  /\ files_end(bytes) = n
         /\ \A from, to \in Nat : from <= Min(B) /\ to <= n => ReadInv(B, n, keep, from, to, bytes)
<1>1. B \in SUBSET (0..n) /\ B # {} /\ DOMAIN bytes = B /\ B \in SUBSET Nat
  BY DEF LogInv
<1>2. Max(B) \in B /\ Max(B) \in Nat /\ Max(B) <= n /\ Cardinality(placed(B, Max(B), n)) = n - Max(B)
  BY <1>1, LastPlaced
<1>3. files_end(bytes) = n
  <2>1. bytes[Max(B)] = n - Max(B)
    BY <1>2
  <2> QED BY <1>1, <1>2, <2>1, SMT DEF files_end
<1>4. Min(B) \in Nat
  BY <1>1, MinOfSet
<1>5. Min(B) <= Min(B) /\ n <= n
  BY <1>4
<1> HIDE DEF Min
<1> QED BY <1>1, <1>3, <1>5, Zenon DEF ReadInv

LEMMA ReadInventoryInv ==
  ASSUME BaselineInv, NEW p \in Partition, ReadInventory(p)
  PROVE  BaselineInv'
<1>1. job.pc = "inventory" /\ job.turn = p /\ UNCHANGED <<topicVars, baseline, timings, starts>>
  BY DEF ReadInventory
<1>2. ShapeInv /\ TopicInv /\ JobInv /\ FileInv
  BY DEF BaselineInv
<1> DEFINE left == IF job.marks[p].low < job.marks[p].high THEN job.left \cup {p} ELSE job.left
<1>3. /\ job'.phase = job.phase /\ job'.turn = (p + 1) % Partitions
      /\ job'.pc = (IF p + 1 = Partitions THEN "scan" ELSE job.pc)
      /\ job'.ok = job.ok /\ job'.marks = job.marks /\ job'.files = [job.files EXCEPT ![p] = segments(p)]
      /\ job'.pos = [job.pos EXCEPT ![p] = job.marks[p].low] /\ job'.left = left /\ job'.seen = job.seen
      /\ job' = [phase |-> job'.phase, pc |-> job'.pc, turn |-> job'.turn, ok |-> job'.ok,
                 marks |-> job'.marks, files |-> job'.files, left |-> job'.left,
                 pos |-> job'.pos, seen |-> job'.seen]
  <2>1. PICK a : /\ a = After(p, "scan")
                 /\ job' = [a EXCEPT !.files[p] = segments(p), !.pos[p] = job.marks[p].low,
                                    !.left = IF job.marks[p].low < job.marks[p].high THEN @ \cup {p} ELSE @]
    BY DEF ReadInventory
  <2>2. a = [phase |-> job.phase, pc |-> IF p + 1 = Partitions THEN "scan" ELSE job.pc,
             turn |-> (p + 1) % Partitions, ok |-> job.ok,
             marks |-> job.marks, files |-> job.files, left |-> job.left,
             pos |-> job.pos, seen |-> job.seen]
    BY <1>2, <2>1, JobFields
  <2>3. /\ job'.phase = a.phase /\ job'.turn = a.turn /\ job'.pc = a.pc /\ job'.ok = a.ok /\ job'.marks = a.marks
        /\ job'.seen = a.seen
    BY <2>1, <2>2
  <2>4. job'.files = [a.files EXCEPT ![p] = segments(p)] /\ job'.pos = [a.pos EXCEPT ![p] = job.marks[p].low]
    BY <2>1, <2>2
  <2>5. job'.left = left
    <3>1. a.left = job.left
      BY <2>2
    <3>2. job'.left = IF job.marks[p].low < job.marks[p].high THEN a.left \cup {p} ELSE a.left
      <4>1. CASE job.marks[p].low < job.marks[p].high
        BY <2>1, <2>2, <4>1
      <4>2. CASE ~(job.marks[p].low < job.marks[p].high)
        BY <2>1, <2>2, <4>2
      <4> QED BY <4>1, <4>2
    <3> QED BY <3>1, <3>2
  <2>6. job' = [phase |-> job'.phase, pc |-> job'.pc, turn |-> job'.turn, ok |-> job'.ok,
                marks |-> job'.marks, files |-> job'.files, left |-> job'.left,
                pos |-> job'.pos, seen |-> job'.seen]
    BY <2>1, <2>2
  <2> QED BY <2>2, <2>3, <2>4, <2>5, <2>6
<1>4. /\ stamp' = stamp /\ bases' = bases /\ retained' = retained /\ TopicInv'
      /\ \A q \in Partition : high(q)' = high(q) /\ low(q)' = low(q)
  BY <1>1, QuietTopic
<1>5. /\ job'.turn \in Partition
      /\ \A q \in Before("inventory")' : q \in Partition /\ (q = p \/ q \in Before("inventory"))
      /\ \A q \in Partition : q \notin Before("inventory")' => q \notin Before("inventory") /\ q # p
      /\ p \notin Before("inventory")
      /\ Before("marks") = Partition /\ Before("marks")' = Partition
      /\ p + 1 = Partitions => job'.turn = 0
  <2>1. "inventory" # "scan" /\ "marks" # "inventory" /\ "marks" # "scan"
        /\ job'.pc = IF p + 1 = Partitions THEN "scan" ELSE "inventory"
    BY <1>1, <1>3
  <2> QED BY <1>1, <1>2, <1>3, <2>1, LoopGoesOn
<1>6. /\ job'.files[p] = segments(p) /\ job'.pos[p] = job.marks[p].low
      /\ \A q \in Partition : q # p => job'.files[q] = job.files[q] /\ job'.pos[q] = job.pos[q]
      /\ job'.files = [q \in Partition |-> job'.files[q]]
      /\ job'.pos \in [Partition -> Nat] /\ job'.left \subseteq Partition
      /\ \A q \in Partition : q # p => (q \in job'.left <=> q \in job.left)
  <2>1. DOMAIN job.files = Partition
    BY <1>2 DEF ShapeInv
  <2>2. job.marks[p].low \in Nat /\ job.pos \in [Partition -> Nat] /\ job.left \subseteq Partition
    BY <1>2 DEF ShapeInv, Marks
  <2> QED BY <1>3, <2>1, <2>2
<1>7. ShapeInv'
  BY <1>1, <1>2, <1>3, <1>4, <1>5, <1>6 DEF ShapeInv
<1>8. job'.phase = "20" /\ job'.pc \in {"inventory", "scan"}
  BY <1>1, <1>2, <1>3 DEF JobInv, PhaseInv
<1>9. FileInv'
  BY <1>1, <1>8, SameFile
<1>10. PhaseInv'
  BY <1>8 DEF PhaseInv
<1>11. MarkedInv'
  BY <1>1, <1>2, <1>3, <1>4, <1>5 DEF JobInv, MarkedInv
<1>12. ASSUME NEW q \in Before("inventory")'
       PROVE  /\ ReadInv(bases[q], high(q), retained, job.marks[q].low, job.marks[q].high, sizes(job'.files[q]))
              /\ ScanInv(bases[q], high(q), job.marks[q], job'.pos[q], job.seen[q], q \notin job'.left)
  <2>1. q \in Partition /\ MarksInv(bases[q], high(q), job.marks[q])
    BY <1>1, <1>2, <1>5, <1>12 DEF JobInv, MarkedInv
  <2>2. CASE q = p
    <3>1. /\ high(p) \in Nat /\ LogInv(bases[p], high(p), retained) /\ retained \in BOOLEAN
          /\ low(p) \in Nat /\ low(p) <= high(p)
      BY <1>2, TopicFacts
    <3>2. job.marks[p].low \in Nat /\ job.marks[p].high \in Nat
      BY <1>2 DEF ShapeInv, Marks
    <3>3. sizes(segments(p)) = [b \in bases[p] |-> Cardinality(placed(bases[p], b, high(p)))]
      BY DEF sizes, segments, summary, offsets, placed
    <3>4. job.marks[p].low <= low(p) /\ job.marks[p].high <= high(p)
      BY <2>1, <2>2 DEF MarksInv, low
    <3>5. ReadInv(bases[p], high(p), retained, job.marks[p].low, job.marks[p].high, sizes(segments(p)))
      <4>1. job.marks[p].low <= Min(bases[p])
        BY <3>4 DEF low
      <4> QED BY <3>1, <3>2, <3>3, <3>4, <4>1, SegmentsRead
    <3>6. job.seen[p] = {} /\ p \notin job.left
      BY <1>1, <1>2, <1>5 DEF JobInv, UnreadInv
    <3>7. ScanInv(bases[p], high(p), job.marks[p], job.marks[p].low, {}, p \notin job'.left)
      <4>1. {o \in job.marks[p].low..(job.marks[p].low - 1) : o < job.marks[p].high} = {}
        BY <3>2, SMT
      <4>2. p \notin job'.left => job.marks[p].high <= job.marks[p].low
        BY <1>3, <3>2
      <4>3. job.marks[p].low <= job.marks[p].low /\ job.marks[p].low <= high(p)
        BY <3>1, <3>2, <3>4, SMT
      <4> QED BY <4>1, <4>2, <4>3 DEF ScanInv
    <3> QED BY <1>6, <2>2, <3>5, <3>6, <3>7
  <2>3. CASE q # p
    <3>1. q \in Before("inventory")
      BY <1>5, <1>12, <2>3
    <3>2. /\ ReadInv(bases[q], high(q), retained, job.marks[q].low, job.marks[q].high, sizes(job.files[q]))
          /\ ScanInv(bases[q], high(q), job.marks[q], job.pos[q], job.seen[q], q \notin job.left)
      BY <1>1, <1>2, <3>1 DEF JobInv, ScannedInv
    <3>3. (q \notin job'.left) = (q \notin job.left)
      BY <1>6, <2>1, <2>3
    <3> QED BY <1>6, <2>1, <2>3, <3>2, <3>3
  <2> QED BY <2>2, <2>3
<1>13. ScannedInv'
  BY <1>3, <1>4, <1>5, <1>12 DEF ScannedInv
<1>14. UnreadInv'
  <2>1. \A q \in Partition \ Before("inventory")' : job'.seen[q] = {} /\ q \notin job'.left
    BY <1>1, <1>2, <1>3, <1>5, <1>6 DEF JobInv, UnreadInv
  <2>2. job'.pc = "scan" => job'.turn = 0
    BY <1>1, <1>3, <1>5
  <2> QED BY <1>8, <2>1, <2>2 DEF UnreadInv
<1>15. AgainInv'
  BY <1>8 DEF AgainInv
<1> QED BY <1>4, <1>7, <1>9, <1>10, <1>11, <1>13, <1>14, <1>15 DEF BaselineInv, JobInv

\* A step of the scan that changes pos, seen and left of one partition.
LEMMA ScanStepInv ==
  ASSUME BaselineInv, NEW p \in Partition, job.pc = "scan", p \in job.left,
         UNCHANGED <<topicVars, baseline, timings>>,
         NEW pos \in Nat, NEW seen \in SUBSET Nat, NEW left, left \subseteq job.left, job.left \ left \subseteq {p},
         job' = [phase |-> job.phase, pc |-> job.pc, turn |-> job.turn, ok |-> job.ok,
                 marks |-> job.marks, files |-> job.files, left |-> left,
                 pos |-> [job.pos EXCEPT ![p] = pos], seen |-> [job.seen EXCEPT ![p] = seen]],
         seen \subseteq 0..(high(p) - 1),
         MarksInv(bases[p], high(p), job.marks[p]) =>
           ScanInv(bases[p], high(p), job.marks[p], pos, seen, p \notin left)
  PROVE  BaselineInv'
<1>1. ShapeInv /\ TopicInv /\ JobInv /\ FileInv
  BY DEF BaselineInv
<1>2. /\ stamp' = stamp /\ bases' = bases /\ retained' = retained /\ TopicInv'
      /\ baseline' = baseline /\ timings' = timings
      /\ \A q \in Partition : high(q)' = high(q) /\ low(q)' = low(q)
  BY QuietTopic
<1>3. /\ job'.phase = job.phase /\ job'.pc = "scan" /\ job'.turn = job.turn /\ job'.ok = job.ok
      /\ job'.marks = job.marks /\ job'.files = job.files /\ job'.left = left
      /\ job'.pos = [job.pos EXCEPT ![p] = pos] /\ job'.seen = [job.seen EXCEPT ![p] = seen]
      /\ job' = [phase |-> job'.phase, pc |-> job'.pc, turn |-> job'.turn, ok |-> job'.ok,
                 marks |-> job'.marks, files |-> job'.files, left |-> job'.left,
                 pos |-> job'.pos, seen |-> job'.seen]
  OBVIOUS
<1>4. /\ job'.pos \in [Partition -> Nat] /\ job'.seen \in [Partition -> SUBSET Nat]
      /\ job'.pos[p] = pos /\ job'.seen[p] = seen
      /\ \A q \in Partition : q # p => job'.pos[q] = job.pos[q] /\ job'.seen[q] = job.seen[q]
  <2>1. job.pos \in [Partition -> Nat] /\ job.seen \in [Partition -> SUBSET Nat]
    BY <1>1 DEF ShapeInv
  <2> QED BY <1>3, <2>1
<1>5. ShapeInv'
  BY <1>1, <1>2, <1>3, <1>4 DEF ShapeInv
<1>6. FileInv'
  BY <1>2, <1>3, SameFile
<1>7. Before("marks")' = Partition /\ Before("inventory")' = Partition
      /\ Before("marks") = Partition /\ Before("inventory") = Partition
  BY <1>3 DEF Before
<1>8. PhaseInv'
  BY <1>1, <1>3 DEF JobInv, PhaseInv
<1>9. MarkedInv'
  BY <1>1, <1>2, <1>3, <1>7 DEF JobInv, MarkedInv
<1>10. ASSUME NEW q \in Partition
       PROVE  /\ ReadInv(bases[q], high(q), retained, job.marks[q].low, job.marks[q].high, sizes(job.files[q]))
              /\ ScanInv(bases[q], high(q), job.marks[q], job'.pos[q], job'.seen[q], q \notin job'.left)
  <2>1. /\ ReadInv(bases[q], high(q), retained, job.marks[q].low, job.marks[q].high, sizes(job.files[q]))
        /\ ScanInv(bases[q], high(q), job.marks[q], job.pos[q], job.seen[q], q \notin job.left)
        /\ MarksInv(bases[q], high(q), job.marks[q])
    BY <1>1, <1>7 DEF JobInv, ScannedInv, MarkedInv
  <2>2. CASE q = p
    BY <1>3, <1>4, <2>1, <2>2
  <2>3. CASE q # p
    <3>1. (q \notin job'.left) = (q \notin job.left)
      BY <1>3, <2>3
    <3> QED BY <1>4, <2>1, <2>3, <3>1
  <2> QED BY <2>2, <2>3
<1>11. ScannedInv'
  BY <1>2, <1>3, <1>7, <1>10 DEF ScannedInv
<1>12. UnreadInv' /\ AgainInv'
  BY <1>1, <1>3 DEF JobInv, UnreadInv, AgainInv
<1> QED BY <1>2, <1>5, <1>6, <1>8, <1>9, <1>11, <1>12 DEF BaselineInv, JobInv

LEMMA FetchInv ==
  ASSUME BaselineInv, NEW p \in Partition, Fetch(p)
  PROVE  BaselineInv'
<1>1. job.pc = "scan" /\ p \in job.left /\ low(p) <= job.pos[p] /\ UNCHANGED <<topicVars, baseline, timings>>
  BY DEF Fetch
<1>2. ShapeInv /\ TopicInv /\ JobInv /\ FileInv
  BY DEF BaselineInv
<1>3. PICK o \in job.pos[p]..(high(p) - 1) :
        job' = [job EXCEPT !.pos[p] = o + 1,
                  !.seen[p] = @ \cup {q \in job.pos[p]..o : q < job.marks[p].high},
                  !.left = IF o + 1 >= job.marks[p].high THEN @ \ {p} ELSE @]
  BY DEF Fetch
<1> DEFINE seen == job.seen[p] \cup {q \in job.pos[p]..o : q < job.marks[p].high}
           left == IF o + 1 >= job.marks[p].high THEN job.left \ {p} ELSE job.left
<1>4. /\ job.pos[p] \in Nat /\ job.marks[p].low \in Nat /\ job.marks[p].high \in Nat /\ job.seen[p] \in SUBSET Nat
      /\ job.seen[p] \subseteq 0..(high(p) - 1)
  BY <1>2 DEF ShapeInv, Marks
<1>5. high(p) \in Nat /\ low(p) \in Nat
  BY <1>2, TopicFacts
<1>6. o \in Nat /\ o + 1 \in Nat /\ o < high(p) /\ job.pos[p] <= o
  BY <1>4, <1>5, SMT
<1>7. seen \in SUBSET Nat /\ seen \subseteq 0..(high(p) - 1)
  <2>1. \A q \in job.pos[p]..o : q \in Nat /\ q \in 0..(high(p) - 1)
    BY <1>4, <1>5, <1>6, SMT
  <2> QED BY <1>4, <2>1
<1>8. job' = [phase |-> job.phase, pc |-> job.pc, turn |-> job.turn, ok |-> job.ok,
              marks |-> job.marks, files |-> job.files, left |-> left,
              pos |-> [job.pos EXCEPT ![p] = o + 1], seen |-> [job.seen EXCEPT ![p] = seen]]
  <2> DEFINE more == {q \in job.pos[p]..o : q < job.marks[p].high}
  <2>1. ASSUME NEW phase, NEW pc, NEW turn, NEW ok, NEW marks, NEW files, NEW lf, NEW ps, NEW sn, NEW mr, NEW r, NEW x,
               r = [phase |-> phase, pc |-> pc, turn |-> turn, ok |-> ok, marks |-> marks, files |-> files,
                    left |-> lf, pos |-> ps, seen |-> sn],
               \/ x = [r EXCEPT !.pos[p] = o + 1, !.seen[p] = @ \cup mr, !.left = @ \ {p}]
               \/ x = [r EXCEPT !.pos[p] = o + 1, !.seen[p] = @ \cup mr, !.left = @]
        PROVE  /\ x = [phase |-> phase, pc |-> pc, turn |-> turn, ok |-> ok, marks |-> marks, files |-> files,
                       left |-> x.left, pos |-> [ps EXCEPT ![p] = o + 1], seen |-> [sn EXCEPT ![p] = @ \cup mr]]
               /\ x = [r EXCEPT !.pos[p] = o + 1, !.seen[p] = @ \cup mr, !.left = @ \ {p}] => x.left = lf \ {p}
               /\ x = [r EXCEPT !.pos[p] = o + 1, !.seen[p] = @ \cup mr, !.left = @] => x.left = lf
    BY <2>1
  <2>2. job = [phase |-> job.phase, pc |-> job.pc, turn |-> job.turn, ok |-> job.ok,
               marks |-> job.marks, files |-> job.files, left |-> job.left, pos |-> job.pos, seen |-> job.seen]
    BY <1>2, JobFields
  <2>3. CASE o + 1 >= job.marks[p].high
    <3>1. job' = [job EXCEPT !.pos[p] = o + 1, !.seen[p] = @ \cup more, !.left = @ \ {p}]
      BY <1>3, <2>3
    <3>2. left = job.left \ {p}
      BY <2>3
    <3> HIDE DEF more, left
    <3>3. /\ job' = [phase |-> job.phase, pc |-> job.pc, turn |-> job.turn, ok |-> job.ok, marks |-> job.marks,
                     files |-> job.files, left |-> job'.left, pos |-> [job.pos EXCEPT ![p] = o + 1],
                     seen |-> [job.seen EXCEPT ![p] = @ \cup more]]
          /\ job'.left = job.left \ {p}
      BY <2>1, <2>2, <3>1, Zenon
    <3> QED BY <3>2, <3>3, Zenon DEF more
  <2>4. CASE ~(o + 1 >= job.marks[p].high)
    <3>1. job' = [job EXCEPT !.pos[p] = o + 1, !.seen[p] = @ \cup more, !.left = @]
      BY <1>3, <2>4
    <3>2. left = job.left
      BY <2>4
    <3> HIDE DEF more, left
    <3>3. /\ job' = [phase |-> job.phase, pc |-> job.pc, turn |-> job.turn, ok |-> job.ok, marks |-> job.marks,
                     files |-> job.files, left |-> job'.left, pos |-> [job.pos EXCEPT ![p] = o + 1],
                     seen |-> [job.seen EXCEPT ![p] = @ \cup more]]
          /\ job'.left = job.left
      BY <2>1, <2>2, <3>1, Zenon
    <3> QED BY <3>2, <3>3, Zenon DEF more
  <2> QED BY <2>3, <2>4
<1>9. ASSUME MarksInv(bases[p], high(p), job.marks[p])
      PROVE  ScanInv(bases[p], high(p), job.marks[p], o + 1, seen, p \notin left)
  <2>1. ScanInv(bases[p], high(p), job.marks[p], job.pos[p], job.seen[p], p \notin job.left)
    BY <1>1, <1>2 DEF JobInv, ScannedInv, Before
  <2>2. job.marks[p].low <= job.pos[p]
    BY <2>1 DEF ScanInv
  <2>3. job.marks[p].low <= o + 1 /\ o + 1 <= high(p)
    BY <1>4, <1>5, <1>6, <2>2, SMT
  <2>4. p \notin left => job.marks[p].high <= o + 1
    BY <1>1, <1>4, <1>6
  <2>5. ASSUME Min(bases[p]) = job.marks[p].low
        PROVE  seen = {q \in job.marks[p].low..(o + 1 - 1) : q < job.marks[p].high}
    <3>1. job.seen[p] = {q \in job.marks[p].low..(job.pos[p] - 1) : q < job.marks[p].high}
      BY <2>1, <2>5 DEF ScanInv
    <3>2. \A q : q \in job.marks[p].low..(o + 1 - 1)
                   <=> q \in job.marks[p].low..(job.pos[p] - 1) \/ q \in job.pos[p]..o
      BY <1>4, <1>6, <2>2, SMT
    <3> QED BY <3>1, <3>2
  <2> QED BY <2>3, <2>4, <2>5 DEF ScanInv
<1>10. left \subseteq job.left /\ job.left \ left \subseteq {p}
  OBVIOUS
<1> HIDE DEF seen, left
<1> QED BY <1>1, <1>6, <1>7, <1>8, <1>9, <1>10, ScanStepInv

LEMMA OutOfRangeInv ==
  ASSUME BaselineInv, NEW p \in Partition, OutOfRange(p)
  PROVE  BaselineInv'
<1>1. job.pc = "scan" /\ p \in job.left /\ job.pos[p] < low(p) /\ UNCHANGED <<topicVars, baseline, timings>>
      /\ job' = [job EXCEPT !.pos[p] = high(p)]
  BY DEF OutOfRange
<1>2. ShapeInv /\ TopicInv /\ JobInv /\ FileInv
  BY DEF BaselineInv
<1>3. /\ job.pos[p] \in Nat /\ job.marks[p].low \in Nat /\ job.marks[p].high \in Nat
      /\ job.seen[p] \in SUBSET Nat /\ job.seen[p] \subseteq 0..(high(p) - 1)
      /\ job.seen \in [Partition -> SUBSET Nat]
  BY <1>2 DEF ShapeInv, Marks
<1>4. high(p) \in Nat /\ low(p) \in Nat /\ low(p) <= high(p)
  BY <1>2, TopicFacts
<1>5. job' = [phase |-> job.phase, pc |-> job.pc, turn |-> job.turn, ok |-> job.ok,
              marks |-> job.marks, files |-> job.files, left |-> job.left,
              pos |-> [job.pos EXCEPT ![p] = high(p)], seen |-> job.seen]
  <2>1. PICK a : a = job /\ a = [phase |-> job.phase, pc |-> job.pc, turn |-> job.turn, ok |-> job.ok,
                                 marks |-> job.marks, files |-> job.files, left |-> job.left,
                                 pos |-> job.pos, seen |-> job.seen]
    BY <1>2, JobFields
  <2> QED BY <1>1, <2>1
<1>6. job.seen = [job.seen EXCEPT ![p] = job.seen[p]]
  BY <1>3
<1>7. ASSUME MarksInv(bases[p], high(p), job.marks[p])
      PROVE  ScanInv(bases[p], high(p), job.marks[p], high(p), job.seen[p], p \notin job.left)
  <2>1. ScanInv(bases[p], high(p), job.marks[p], job.pos[p], job.seen[p], p \notin job.left)
    BY <1>1, <1>2 DEF JobInv, ScannedInv, Before
  <2>2. job.marks[p].low <= job.pos[p]
    BY <2>1 DEF ScanInv
  <2>3. job.marks[p].low <= high(p) /\ high(p) <= high(p)
    BY <1>1, <1>3, <1>4, <2>2, SMT
  <2>4. Min(bases[p]) # job.marks[p].low
    <3>1. low(p) # job.marks[p].low
      BY <1>1, <1>3, <1>4, <2>2, SMT
    <3> QED BY <3>1 DEF low
  <2> QED BY <1>1, <2>3, <2>4 DEF ScanInv
<1>8. job' = [phase |-> job.phase, pc |-> job.pc, turn |-> job.turn, ok |-> job.ok,
              marks |-> job.marks, files |-> job.files, left |-> job.left,
              pos |-> [job.pos EXCEPT ![p] = high(p)], seen |-> [job.seen EXCEPT ![p] = job.seen[p]]]
  BY <1>5, <1>6
<1>9. job.left \subseteq job.left /\ job.left \ job.left \subseteq {p}
  OBVIOUS
<1> QED BY <1>1, <1>3, <1>4, <1>7, <1>8, <1>9, ScanStepInv

LEMMA ScanDoneInv ==
  ASSUME BaselineInv, ScanDone
  PROVE  BaselineInv'
<1>1. job.pc = "scan" /\ job.left = {} /\ UNCHANGED <<topicVars, baseline, timings>>
      /\ job' = [job EXCEPT !.pc = "again"]
  BY DEF ScanDone
<1>2. ShapeInv /\ TopicInv /\ JobInv /\ FileInv
  BY DEF BaselineInv
<1>3. /\ job'.phase = job.phase /\ job'.pc = "again" /\ job'.turn = job.turn /\ job'.ok = job.ok
      /\ job'.marks = job.marks /\ job'.files = job.files /\ job'.left = {}
      /\ job'.pos = job.pos /\ job'.seen = job.seen
      /\ job' = [phase |-> job'.phase, pc |-> job'.pc, turn |-> job'.turn, ok |-> job'.ok,
                 marks |-> job'.marks, files |-> job'.files, left |-> job'.left,
                 pos |-> job'.pos, seen |-> job'.seen]
  BY <1>1, <1>2, JobFields
<1>4. /\ stamp' = stamp /\ bases' = bases /\ retained' = retained /\ TopicInv'
      /\ baseline' = baseline /\ timings' = timings
      /\ \A q \in Partition : high(q)' = high(q) /\ low(q)' = low(q)
  BY <1>1, QuietTopic
<1>5. ShapeInv'
  BY <1>2, <1>3, <1>4 DEF ShapeInv
<1>6. FileInv'
  BY <1>1, <1>3, SameFile
<1>7. Before("again")' = {}
  <2>1. \A p \in Partition : ~(p < 0)
    BY SMT DEF Partition
  <2>2. job'.turn = 0
    BY <1>1, <1>2, <1>3 DEF JobInv, UnreadInv
  <2> QED BY <1>3, <2>1, <2>2 DEF Before
<1>8. /\ Before("marks") = Partition /\ Before("inventory") = Partition
      /\ Before("marks")' = Partition /\ Before("inventory")' = Partition
  BY <1>1, <1>3 DEF Before
<1>9. PhaseInv'
  BY <1>1, <1>2, <1>3 DEF JobInv, PhaseInv
<1>10. MarkedInv'
  BY <1>1, <1>2, <1>3, <1>4, <1>8 DEF JobInv, MarkedInv
<1>11. ScannedInv'
  BY <1>1, <1>2, <1>3, <1>4, <1>8 DEF JobInv, ScannedInv
<1>12. UnreadInv'
  BY <1>3 DEF UnreadInv
<1>13. AgainInv'
  BY <1>1, <1>2, <1>3, <1>7 DEF JobInv, UnreadInv, AgainInv
<1> QED BY <1>4, <1>5, <1>6, <1>9, <1>10, <1>11, <1>12, <1>13 DEF BaselineInv, JobInv

LEMMA ReadAgainInv ==
  ASSUME BaselineInv, NEW p \in Partition, ReadAgain(p)
  PROVE  BaselineInv'
<1>1. job.pc = "again" /\ job.turn = p /\ UNCHANGED <<topicVars, baseline, timings>>
      /\ job' = [After(p, "write") EXCEPT !.ok = @ /\ mark(p) = job.marks[p]]
  BY DEF ReadAgain
<1>2. ShapeInv /\ TopicInv /\ JobInv /\ FileInv
  BY DEF BaselineInv
<1>3. /\ job'.phase = job.phase /\ job'.turn = (p + 1) % Partitions
      /\ job'.pc = (IF p + 1 = Partitions THEN "write" ELSE job.pc)
      /\ job'.marks = job.marks /\ job'.files = job.files /\ job'.left = job.left
      /\ job'.pos = job.pos /\ job'.seen = job.seen
      /\ job'.ok = (job.ok /\ mark(p) = job.marks[p])
      /\ job' = [phase |-> job'.phase, pc |-> job'.pc, turn |-> job'.turn, ok |-> job'.ok,
                 marks |-> job'.marks, files |-> job'.files, left |-> job'.left,
                 pos |-> job'.pos, seen |-> job'.seen]
  BY <1>1, <1>2, JobFields
<1>4. /\ stamp' = stamp /\ bases' = bases /\ retained' = retained /\ TopicInv'
      /\ baseline' = baseline /\ timings' = timings
      /\ \A q \in Partition : high(q)' = high(q) /\ low(q)' = low(q)
  BY <1>1, QuietTopic
<1>5. /\ job'.turn \in Partition
      /\ \A q \in Before("again")' : q \in Partition /\ (q = p \/ q \in Before("again"))
      /\ Before("write")' = (IF p + 1 = Partitions THEN {} ELSE Partition)
      /\ Before("marks") = Partition /\ Before("marks")' = Partition
      /\ Before("inventory") = Partition /\ Before("inventory")' = Partition
  <2>1. /\ "again" # "write" /\ "marks" # "again" /\ "marks" # "write" /\ "inventory" # "again"
        /\ "inventory" # "write" /\ job'.pc = IF p + 1 = Partitions THEN "write" ELSE "again"
    BY <1>1, <1>3
  <2>0. /\ "again" # "write" /\ job.pc = "again" /\ job.turn = p
        /\ job'.turn = (p + 1) % Partitions /\ job'.pc = IF p + 1 = Partitions THEN "write" ELSE "again"
    BY <1>1, <1>3, <2>1, Zenon
  <2>2. /\ job'.turn \in Partition
        /\ \A q \in Before("again")' : q \in Partition /\ (q = p \/ q \in Before("again"))
    BY <1>2, <2>0, LoopGoesOn
  <2>3. Before("write")' = (IF p + 1 = Partitions THEN {} ELSE Partition)
    BY <1>2, <2>0, LoopGoesOn
  <2>4. /\ Before("marks") = Partition /\ Before("marks")' = Partition
        /\ Before("inventory") = Partition /\ Before("inventory")' = Partition
    BY <1>1, <2>1 DEF Before
  <2> QED BY <2>2, <2>3, <2>4
<1>6. job'.pc \in {"again", "write"} /\ job'.phase = "20" /\ job'.left = {}
  BY <1>1, <1>2, <1>3 DEF JobInv, PhaseInv, UnreadInv
<1>7. ShapeInv'
  <2>1. job'.ok \in BOOLEAN
    BY <1>3
  <2> QED BY <1>2, <1>3, <1>4, <1>5, <2>1 DEF ShapeInv
<1>8. FileInv'
  BY <1>1, <1>6, SameFile
<1>9. PhaseInv'
  BY <1>6 DEF PhaseInv
<1>10. MarkedInv'
  BY <1>1, <1>2, <1>3, <1>4, <1>5 DEF JobInv, MarkedInv
<1>11. ScannedInv'
  BY <1>1, <1>2, <1>3, <1>4, <1>5 DEF JobInv, ScannedInv
<1>12. UnreadInv'
  BY <1>6 DEF UnreadInv
<1>13. AgainInv'
  <2>1. SUFFICES ASSUME job'.ok, NEW q \in Before("again")'
        PROVE  files_end(sizes(job.files[q])) = job.marks[q].high
    BY <1>3 DEF AgainInv
  <2>2. CASE q = p
    <3>1. ReadInv(bases[p], high(p), retained, job.marks[p].low, job.marks[p].high, sizes(job.files[p]))
      BY <1>1, <1>2, <1>5 DEF JobInv, ScannedInv
    <3>2. job.marks[p].high <= files_end(sizes(job.files[p])) /\ files_end(sizes(job.files[p])) <= high(p)
          /\ files_end(sizes(job.files[p])) \in Nat
      BY <3>1 DEF ReadInv
    <3>3. job.marks[p].high = high(p)
      <4>1. mark(p) = job.marks[p]
        BY <1>3, <2>1
      <4> QED BY <4>1 DEF mark
    <3>4. high(p) \in Nat
      BY <1>2, TopicFacts
    <3> QED BY <2>2, <3>2, <3>3, <3>4, SMT
  <2>3. CASE q # p
    BY <1>1, <1>2, <1>3, <1>5, <2>1, <2>3 DEF JobInv, AgainInv
  <2> QED BY <2>2, <2>3
<1> QED BY <1>4, <1>7, <1>8, <1>9, <1>10, <1>11, <1>12, <1>13 DEF BaselineInv, JobInv

\* What belongs to the segment at b of the offsets that were seen.
shared(seen, F, b) == {o \in seen : \/ b <= o /\ \A c \in F : c <= o => c <= b
                                    \/ o < b /\ \A c \in F : b <= c}

\* Records that were read from the first one of a log that still starts there,
\* and on to the end, are shared out to the segments as they are.
\* Of a log that still starts where it was read from, all was seen.
Whole(B, n, keep, mk, pos, seen, bytes) ==
  /\ mk \in Marks /\ pos \in Nat
  /\ ReadInv(B, n, keep, mk.low, mk.high, bytes) /\ ScanInv(B, n, mk, pos, seen, TRUE)
  /\ Min(B) = mk.low

LEMMA WholeScan ==
  ASSUME NEW n, NEW B, NEW keep, NEW mk, NEW pos, NEW seen, NEW bytes,
         Whole(B, n, keep, mk, pos, seen, bytes), NEW b \in DOMAIN bytes
  PROVE  shared(seen, DOMAIN bytes, b) = placed(DOMAIN bytes, b, mk.high)
<1> mk \in Marks /\ pos \in Nat /\ ReadInv(B, n, keep, mk.low, mk.high, bytes)
    /\ ScanInv(B, n, mk, pos, seen, TRUE) /\ Min(B) = mk.low
  BY DEF Whole
<1> DEFINE F == DOMAIN bytes
<1>1. /\ F # {} /\ F \in SUBSET Nat /\ mk.low <= Min(F) /\ Min(F) <= mk.low
  BY DEF ReadInv
<1>2. mk.low \in Nat /\ mk.high \in Nat
  BY DEF Marks
<1>3. /\ seen = {o \in mk.low..(pos - 1) : o < mk.high}
      /\ mk.high <= pos \/ mk.high <= mk.low
  BY DEF ScanInv
<1>4. Min(F) \in F /\ Min(F) \in Nat /\ \A c \in F : Min(F) <= c
  <2> HIDE DEF F
  <2> QED BY <1>1, MinOfSet
<1>5. Min(F) = mk.low
  BY <1>1, <1>2, <1>4, SMT
<1>6. \A o : o \in seen <=> o \in mk.low..(mk.high - 1)
  BY <1>2, <1>3, SMT
<1>7. b \in Nat /\ mk.low <= b
  BY <1>1, <1>4, <1>5
<1>8. \A o \in seen : ~(o < b /\ \A c \in F : b <= c)
  <2>1. SUFFICES ASSUME NEW o \in seen, o < b, \A c \in F : b <= c PROVE FALSE
    OBVIOUS
  <2>2. b <= Min(F) /\ o \in Int /\ mk.low <= o
    BY <1>2, <1>4, <1>6, <2>1
  <2> QED BY <1>2, <1>5, <1>7, <2>1, <2>2, SMT
<1>9. \A o : b <= o => (o \in seen <=> o \in b..(mk.high - 1)) \/ o \notin Int
  BY <1>2, <1>6, <1>7, SMT
<1>10. \A o : o \in seen \/ o \in b..(mk.high - 1) => o \in Int
  BY <1>2, <1>6, <1>7
<1>11. \A o \in b..(mk.high - 1) : b <= o
  BY <1>2, <1>7
<1> QED BY <1>8, <1>9, <1>10, <1>11 DEF placed, shared

LEMMA WriteInv ==
  ASSUME BaselineInv, WriteBaseline
  PROVE  BaselineInv'
<1> DEFINE f == [p \in Partition |-> scanned(p)]
           passed == job.ok /\ \A p \in Partition : /\ count_equals_offsets(p) /\ contiguous_offsets(p)
                                                    /\ segment_max_ts_matches_timeindex(p) /\ segment_counts(p)
<1>1. job.pc = "write" /\ baseline' = {f} /\ UNCHANGED topicVars
      /\ IF passed THEN job' = [NoJob EXCEPT !.phase = "20", !.pc = "size"] /\ UNCHANGED timings
                   ELSE End("FAIL")
  BY DEF WriteBaseline
<1>2. ShapeInv /\ TopicInv /\ JobInv /\ FileInv
  BY DEF BaselineInv
<1>3. /\ stamp' = stamp /\ bases' = bases /\ retained' = retained
      /\ \A q \in Partition : high(q)' = high(q) /\ low(q)' = low(q)
  BY <1>1, QuietTopic
<1>4. timings \in {"NONE", "PASS", "FAIL"} /\ timings' \in {"NONE", "PASS", "FAIL"}
  BY <1>1, <1>2 DEF ShapeInv, End
<1>5. \/ job.ok /\ job' = Fresh("20", "size") /\ job'.pc = "size"
      \/ job' = Fresh("none", "idle") /\ job'.pc = "idle"
  <2>1. CASE passed
    <3>1. job' = Fresh("20", "size")
      BY <1>1, <2>1, NoJobIsFresh
    <3> QED BY <2>1, <3>1 DEF Fresh
  <2>2. CASE ~passed
    <3>1. job' = Fresh("none", "idle")
      BY <1>1, <2>2, NoJobShape DEF End, Fresh
    <3> QED BY <3>1 DEF Fresh
  <2> QED BY <2>1, <2>2
<1>6. FileInv'
  <2>1. SUFFICES ASSUME NEW p \in Partition
        PROVE  /\ f[p].low \in Nat /\ f[p].high \in Nat
               /\ ReadInv(bases[p], high(p), retained, f[p].low, f[p].high, f[p].bytes)
               /\ low(p) = f[p].low =>
                    f[p].segments = [b \in DOMAIN f[p].bytes |->
                                       summary(p, placed(DOMAIN f[p].bytes, b, f[p].high))]
               /\ job'.pc = "size" => files_end(f[p].bytes) = f[p].high
    <3>1. \A p \in Partition : \A offs : summary(p, offs)' = summary(p, offs)
      BY <1>3 DEF summary, largest
    <3> HIDE DEF f
    <3> QED BY <1>1, <1>3, <2>1, <3>1 DEF FileInv
  <2>2. /\ f[p].low = job.marks[p].low /\ f[p].high = job.marks[p].high
        /\ f[p].bytes = sizes(job.files[p])
        /\ f[p].segments = [b \in DOMAIN job.files[p] |-> summary(p, belongs(p, b))]
    BY DEF scanned, sizes
  <2> HIDE DEF f
  <2>3. /\ ReadInv(bases[p], high(p), retained, job.marks[p].low, job.marks[p].high, sizes(job.files[p]))
        /\ ScanInv(bases[p], high(p), job.marks[p], job.pos[p], job.seen[p], p \notin job.left)
    BY <1>1, <1>2 DEF JobInv, ScannedInv, Before
  <2>4. p \notin job.left
    BY <1>1, <1>2 DEF JobInv, UnreadInv
  <2>5. /\ job.marks[p] \in Marks /\ job.marks[p].low \in Nat /\ job.marks[p].high \in Nat /\ job.pos[p] \in Nat
    BY <1>2 DEF ShapeInv, Marks
  <2>6. DOMAIN sizes(job.files[p]) = DOMAIN job.files[p]
    BY DEF sizes
  <2>7. ASSUME low(p) = job.marks[p].low, NEW b \in DOMAIN job.files[p]
        PROVE  belongs(p, b) = placed(DOMAIN job.files[p], b, job.marks[p].high)
    <3>1. high(p) \in Nat /\ retained \in BOOLEAN
      BY <1>2, TopicFacts
    <3>2. Min(bases[p]) = job.marks[p].low
      BY <2>7 DEF low
    <3>3. ScanInv(bases[p], high(p), job.marks[p], job.pos[p], job.seen[p], TRUE)
      BY <2>3, <2>4 DEF ScanInv
    <3>4. b \in DOMAIN sizes(job.files[p])
      BY <2>6, <2>7
    <3>5. shared(job.seen[p], DOMAIN sizes(job.files[p]), b)
            = placed(DOMAIN sizes(job.files[p]), b, job.marks[p].high)
      <4>1. ReadInv(bases[p], high(p), retained, job.marks[p].low, job.marks[p].high, sizes(job.files[p]))
        BY <2>3
      <4>2. job.marks[p] \in Marks /\ job.pos[p] \in Nat
        BY <2>5
      <4>3. Whole(bases[p], high(p), retained, job.marks[p], job.pos[p], job.seen[p], sizes(job.files[p]))
        BY <3>2, <3>3, <4>1, <4>2 DEF Whole
      <4> QED BY <3>4, <4>3, WholeScan
    <3> QED BY <2>6, <3>5 DEF belongs, shared
  <2>8. low(p) = job.marks[p].low =>
          [b \in DOMAIN job.files[p] |-> summary(p, belongs(p, b))]
            = [b \in DOMAIN job.files[p] |-> summary(p, placed(DOMAIN job.files[p], b, job.marks[p].high))]
    BY <2>7
  <2>9. job'.pc = "size" => files_end(sizes(job.files[p])) = job.marks[p].high
    <3>1. SUFFICES ASSUME job'.pc = "size" PROVE files_end(sizes(job.files[p])) = job.marks[p].high
      OBVIOUS
    <3>2. job.ok /\ p \in Before("again")
      BY <1>1, <1>5, <3>1 DEF Before
    <3> QED BY <1>1, <1>2, <3>2 DEF JobInv, AgainInv
  <2> QED BY <2>2, <2>3, <2>5, <2>6, <2>8, <2>9
<1> HIDE DEF f, passed
<1> QED BY <1>1, <1>4, <1>5, <1>6, FreshInv

LEMMA CompareInv ==
  ASSUME BaselineInv, NEW p \in Partition, Compare(p)
  PROVE  BaselineInv'
<1>1. job.pc = "compare" /\ job.turn = p /\ UNCHANGED <<topicVars, baseline>>
  BY DEF Compare
<1>2. ShapeInv /\ TopicInv /\ JobInv /\ FileInv
  BY DEF BaselineInv
<1>3. \/ End("FAIL")
      \/ p + 1 < Partitions /\ job' = After(p, "idle") /\ timings' = timings
  BY DEF Compare
<1>4. CASE End("FAIL")
  <2>1. job' = NoJob /\ timings' \in {"NONE", "PASS", "FAIL"}
    BY <1>2, <1>4 DEF End, ShapeInv
  <2> QED BY <1>1, <2>1, EndInv
<1>5. CASE p + 1 < Partitions /\ job' = After(p, "idle") /\ timings' = timings
  <2>1. p \in Nat /\ Partitions \in Nat /\ p + 1 # Partitions
    BY <1>5, BaselineAssumption, SMT DEF Partition
  <2>2. job' = [phase |-> job.phase, pc |-> job.pc, turn |-> (p + 1) % Partitions, ok |-> job.ok,
                marks |-> job.marks, files |-> job.files, left |-> job.left,
                pos |-> job.pos, seen |-> job.seen]
    BY <1>2, <1>5, <2>1, JobFields
  <2>3. /\ job'.phase = job.phase /\ job'.pc = job.pc /\ job'.turn = (p + 1) % Partitions /\ job'.ok = job.ok
        /\ job'.marks = job.marks /\ job'.files = job.files /\ job'.left = job.left
        /\ job'.pos = job.pos /\ job'.seen = job.seen
        /\ job' = [phase |-> job'.phase, pc |-> job'.pc, turn |-> job'.turn, ok |-> job'.ok,
                   marks |-> job'.marks, files |-> job'.files, left |-> job'.left,
                   pos |-> job'.pos, seen |-> job'.seen]
    BY <2>2
  <2>4. /\ stamp' = stamp /\ bases' = bases /\ retained' = retained /\ TopicInv'
        /\ baseline' = baseline /\ timings' = timings
        /\ \A q \in Partition : high(q)' = high(q) /\ low(q)' = low(q)
    BY <1>1, <1>5, QuietTopic
  <2>5. job'.turn \in Partition
    <3>1. p + 1 \in 0..(Partitions - 1) /\ Partitions > 0
      BY <1>5, <2>1, SMT
    <3>2. (p + 1) % Partitions = p + 1
      BY <2>1, <3>1, SMT
    <3> QED BY <2>3, <3>1, <3>2 DEF Partition
  <2>6. Before("marks") = Partition /\ Before("marks")' = Partition
    BY <1>1, <2>3 DEF Before
  <2>7. ShapeInv'
    BY <1>2, <2>3, <2>4, <2>5 DEF ShapeInv
  <2>8. FileInv'
    BY <1>1, <2>3, SameFile
  <2>9. PhaseInv'
    BY <1>2, <2>3 DEF JobInv, PhaseInv
  <2>10. MarkedInv'
    BY <1>1, <1>2, <2>3, <2>4, <2>6 DEF JobInv, MarkedInv
  <2>11. ScannedInv' /\ UnreadInv' /\ AgainInv'
    BY <1>1, <2>3 DEF ScannedInv, UnreadInv, AgainInv
  <2> QED BY <2>4, <2>7, <2>8, <2>9, <2>10, <2>11 DEF BaselineInv, JobInv
<1> QED BY <1>3, <1>4, <1>5

LEMMA EndsInv ==
  ASSUME BaselineInv, BrokerSize \/ Raise \/ Crash
  PROVE  BaselineInv'
<1>1. job' = NoJob /\ UNCHANGED <<topicVars, baseline>> /\ timings' \in {timings, "PASS", "FAIL"}
  BY DEF BrokerSize, Raise, Crash, End
<1>2. timings' \in {"NONE", "PASS", "FAIL"}
  BY <1>1 DEF BaselineInv, ShapeInv
<1> QED BY <1>1, <1>2, EndInv

-----------------------------------------------------------------------------
(* The invariant. *)

LEMMA InitBaselineInv == Init => BaselineInv
<1>1. SUFFICES ASSUME Init PROVE BaselineInv
  OBVIOUS
<1>2. PICK ts \in Stamps : stamp = [p \in Partition |-> [i \in 1..Seeded |-> ts]]
  BY <1>1 DEF Init
<1>3. /\ bases \in [Partition -> {{0} \cup rolled : rolled \in SUBSET (1..(Seeded - 1))}]
      /\ retained \in BOOLEAN /\ baseline = {} /\ timings = "NONE" /\ job = NoJob
  BY <1>1 DEF Init
<1>4. Seeded \in Nat /\ Seeded > 0
  BY BaselineAssumption, SMT
<1>5. [i \in 1..Seeded |-> ts] \in Seq(Stamps) /\ Len([i \in 1..Seeded |-> ts]) = Seeded
  BY <1>4
<1>6. stamp \in [Partition -> Seq(Stamps)] /\ \A p \in Partition : high(p) = Seeded
  BY <1>2, <1>5 DEF high
<1>7. \A p \in Partition : /\ bases[p] \in SUBSET Nat /\ 0 \in bases[p] /\ bases[p] \subseteq 0..Seeded
  <2>1. SUFFICES ASSUME NEW p \in Partition
        PROVE  /\ bases[p] \in SUBSET Nat /\ 0 \in bases[p] /\ bases[p] \subseteq 0..Seeded
    OBVIOUS
  <2>2. PICK rolled \in SUBSET (1..(Seeded - 1)) : bases[p] = {0} \cup rolled
    BY <1>3
  <2>3. \A b \in rolled : b \in Nat /\ b \in 0..Seeded
    BY <1>4, SMT
  <2> QED BY <1>4, <2>2, <2>3
<1>8. bases \in [Partition -> SUBSET Nat]
  BY <1>3, <1>7
<1>9. TopicInv
  BY <1>3, <1>6, <1>7 DEF TopicInv, LogInv
<1>10. job = Fresh("none", "idle")
  BY <1>3, NoJobShape DEF Fresh
<1>11. /\ job.phase = "none" /\ job.pc = "idle" /\ \A p \in Partition : job.seen[p] = {}
  BY <1>3, NoJobShape
<1>12. ShapeInv
  <2>1. /\ job.turn \in Partition /\ job.ok \in BOOLEAN /\ job.left \subseteq Partition
        /\ job.marks \in [Partition -> Marks] /\ job.pos \in [Partition -> Nat]
        /\ job.files = [p \in Partition |-> job.files[p]]
        /\ job.seen \in [Partition -> SUBSET Nat]
    BY <1>3, NoJobShape
  <2>2. job = [phase |-> job.phase, pc |-> job.pc, turn |-> job.turn, ok |-> job.ok,
               marks |-> job.marks, files |-> job.files, left |-> job.left,
               pos |-> job.pos, seen |-> job.seen]
    BY <1>10 DEF Fresh
  <2> QED BY <1>3, <1>6, <1>8, <1>11, <2>1, <2>2 DEF ShapeInv
<1>13. JobInv
  BY <1>11 DEF JobInv, PhaseInv, MarkedInv, ScannedInv, UnreadInv, AgainInv
<1>14. FileInv
  BY <1>3 DEF FileInv
<1> QED BY <1>9, <1>12, <1>13, <1>14 DEF BaselineInv

LEMMA StutterBaselineInv ==
  ASSUME BaselineInv, UNCHANGED vars
  PROVE  BaselineInv'
<1>1. /\ stamp' = stamp /\ bases' = bases /\ retained' = retained /\ baseline' = baseline
      /\ timings' = timings /\ job' = job
  BY DEF vars, topicVars
<1>2. TopicInv' /\ FileInv' /\ \A p \in Partition : high(p)' = high(p)
  BY <1>1, QuietTopic, SameFile DEF topicVars
<1>3. /\ Before("marks")' = Before("marks") /\ Before("inventory")' = Before("inventory")
      /\ Before("again")' = Before("again") /\ \A pc : Before(pc) \subseteq Partition
  BY <1>1 DEF Before
<1>4. ShapeInv'
  BY <1>1, <1>2 DEF BaselineInv, ShapeInv
<1>5. PhaseInv' /\ UnreadInv' /\ AgainInv'
  BY <1>1, <1>3 DEF BaselineInv, JobInv, PhaseInv, UnreadInv, AgainInv
<1>6. MarkedInv'
  BY <1>1, <1>2, <1>3 DEF BaselineInv, JobInv, MarkedInv
<1>7. ScannedInv'
  BY <1>1, <1>2, <1>3 DEF BaselineInv, JobInv, ScannedInv
<1> QED BY <1>2, <1>4, <1>5, <1>6, <1>7 DEF BaselineInv, JobInv

LEMMA StepBaselineInv == BaselineInv /\ [Next]_vars => BaselineInv'
<1>1. SUFFICES ASSUME BaselineInv, [Next]_vars PROVE BaselineInv'
  OBVIOUS
<1>2. CASE Environment
  BY <1>1, <1>2, EnvironmentInv
<1>3. ASSUME NEW ph \in {"20", "40"}, StartPhase(ph) PROVE BaselineInv'
  BY <1>1, <1>3, StartInv
<1>4. ASSUME NEW p \in Partition, Scan(p) PROVE BaselineInv'
  <2>1. CASE ReadMarks(p)
    BY <1>1, <2>1, ReadMarksInv
  <2>2. CASE ReadInventory(p)
    BY <1>1, <2>2, ReadInventoryInv
  <2>3. CASE Fetch(p)
    BY <1>1, <2>3, FetchInv
  <2>4. CASE OutOfRange(p)
    BY <1>1, <2>4, OutOfRangeInv
  <2>5. CASE ReadAgain(p)
    BY <1>1, <2>5, ReadAgainInv
  <2>6. CASE Compare(p)
    BY <1>1, <2>6, CompareInv
  <2> QED BY <1>4, <2>1, <2>2, <2>3, <2>4, <2>5, <2>6 DEF Scan
<1>5. CASE ScanDone
  BY <1>1, <1>5, ScanDoneInv
<1>6. CASE WriteBaseline
  BY <1>1, <1>6, WriteInv
<1>7. CASE BrokerSize \/ Raise \/ Crash
  BY <1>1, <1>7, EndsInv
<1>8. CASE UNCHANGED vars
  BY <1>1, <1>8, StutterBaselineInv
<1> QED BY <1>1, <1>2, <1>3, <1>4, <1>5, <1>6, <1>7, <1>8 DEF Next

\* Whatever producers, retention checks, readings and kills come in whatever
\* order, what phases 20 and 40 have read of the topic lies behind the topic and
\* the baseline file is exact wherever the log still starts as it says.
THEOREM BaselineInvariant == Spec => []BaselineInv
<1>1. Init => BaselineInv
  BY InitBaselineInv
<1>2. BaselineInv /\ [Next]_vars => BaselineInv'
  BY StepBaselineInv
<1> QED BY <1>1, <1>2, PTL DEF Spec

\* The types of the topic, of the verdict and of what phase 20 has read.
THEOREM BaselineTypes == Spec => []BaselineTypeOK
<1>1. BaselineInv => BaselineTypeOK
  BY DEF BaselineInv, ShapeInv, TopicInv, LogInv, BaselineTypeOK
<1> QED BY <1>1, BaselineInvariant, PTL

-----------------------------------------------------------------------------
(* What follows for the baseline.                                            *)

\* Segments as baseline/<topic>.json has them when the topic is as it says.
LEMMA ExactFile ==
  ASSUME BaselineInv, NEW f \in baseline, NEW p \in Partition,
         low(p) = f[p].low, high(p) = f[p].high, bases[p] = DOMAIN f[p].bytes
  PROVE  Exact(f, p)
<1>1. f[p].segments = [b \in bases[p] |-> summary(p, placed(bases[p], b, high(p)))]
  BY DEF BaselineInv, FileInv
<1>2. \A b : placed(bases[p], b, high(p)) = offsets(p, b)
  BY DEF placed, offsets
<1> QED BY <1>1, <1>2 DEF Exact, segments

\* What was read of a partition, as natural numbers.
LEMMA FileFacts ==
  ASSUME BaselineInv, NEW f \in baseline, NEW p \in Partition,
         NEW F, F = DOMAIN f[p].bytes, NEW end, end = files_end(f[p].bytes)
  PROVE  /\ F # {} /\ F \in SUBSET (0..end) /\ end \in Nat
         /\ f[p].bytes = [b \in F |-> Cardinality(placed(F, b, end))]
         /\ f[p].low \in Nat /\ f[p].high \in Nat /\ Min(F) \in F /\ Min(F) \in Nat
         /\ f[p].low <= Min(F) /\ Min(F) <= low(p) /\ f[p].high <= end /\ end <= high(p)
         /\ retained => F \subseteq bases[p] /\ \A c \in bases[p] \ F : end <= c /\ c < high(p)
         /\ SumFunction(f[p].bytes) = end - Min(F)
<1>1. /\ F # {} /\ F \subseteq 0..end /\ end \in Nat
      /\ f[p].bytes = [b \in F |-> Cardinality(placed(F, b, end))]
      /\ f[p].low \in Nat /\ f[p].high \in Nat
      /\ f[p].low <= Min(F) /\ Min(F) <= low(p) /\ f[p].high <= end /\ end <= high(p)
      /\ retained => F \subseteq bases[p] /\ \A c \in bases[p] \ F : end <= c /\ c < high(p)
  <2>1. /\ f[p].low \in Nat /\ f[p].high \in Nat
        /\ ReadInv(bases[p], high(p), retained, f[p].low, f[p].high, f[p].bytes)
    BY DEF BaselineInv, FileInv
  <2> QED BY <2>1, Zenon DEF ReadInv, low
<1>2. Min(F) \in F /\ Min(F) \in Nat
  <2>1. F \in SUBSET Nat
    BY <1>1
  <2> QED BY <1>1, <2>1, MinOfSet
<1>3. SumFunction(f[p].bytes) = end - Min(F)
  <2>1. f[p].bytes = [b \in F |-> f[p].bytes[b]] /\ \A b \in F : f[p].bytes[b] = Cardinality(placed(F, b, end))
    BY <1>1
  <2> QED BY <1>1, <2>1, SizesAddUp
<1> QED BY <1>1, <1>2, <1>3

\* A baseline that gets past the comparison of phase 40 on a partition
\* describes that partition exactly, for any number of partitions, records and
\* timestamps and any interleaving of readings, appends, deletions and kills.
THEOREM AcceptedExact == Spec => []AcceptedIsExact
<1>1. ASSUME BaselineInv, NEW p \in Partition, job.pc = "compare", job.turn = p,
             NEW f \in baseline, same(f, p)
      PROVE  Exact(f, p)
  <2> DEFINE F == DOMAIN f[p].bytes
             end == files_end(f[p].bytes)
  <2>1. /\ F # {} /\ F \in SUBSET (0..end) /\ end \in Nat
        /\ f[p].bytes = [b \in F |-> Cardinality(placed(F, b, end))]
        /\ f[p].low \in Nat /\ f[p].high \in Nat /\ Min(F) \in F /\ Min(F) \in Nat
        /\ f[p].low <= Min(F) /\ Min(F) <= low(p) /\ f[p].high <= end /\ end <= high(p)
    <3> HIDE DEF F, end
    <3> QED BY <1>1, FileFacts DEF F, end
  <2>2. high(p) \in Nat /\ LogInv(bases[p], high(p), retained)
    BY <1>1, TopicFacts DEF BaselineInv
  <2>3. /\ [b \in bases[p] |-> segments(p)[b].count] = f[p].bytes
        /\ job.marks[p].low = f[p].low /\ job.marks[p].high = f[p].high
    BY <1>1 DEF same
  <2>4. bases[p] = F /\ \A b \in F : segments(p)[b].count = f[p].bytes[b]
    BY <2>3
  <2>5. Min(F) <= f[p].low /\ end <= f[p].high
    <3>1. job.phase = "40" /\ p \in Before("marks")
      BY <1>1 DEF BaselineInv, JobInv, PhaseInv, Before
    <3>2. Min(F) <= job.marks[p].low /\ end <= job.marks[p].high
      BY <1>1, <3>1 DEF BaselineInv, JobInv, MarkedInv
    <3> QED BY <2>3, <3>2
  <2>6. Min(F) = f[p].low /\ end = f[p].high
    BY <2>1, <2>5, SMT
  <2>7. low(p) = f[p].low
    BY <2>4, <2>6 DEF low
  <2>8. high(p) = end
    <3> DEFINE m == Max(F)
    <3>1. m \in F /\ m \in Nat /\ Cardinality(placed(F, m, end)) = end - m
      <4> HIDE DEF F, end
      <4> QED BY <2>1, LastPlaced
    <3>2. Cardinality(placed(F, m, high(p))) = high(p) - m
      <4>1. F \in SUBSET (0..high(p))
        BY <2>2, <2>4 DEF LogInv
      <4> HIDE DEF F, end
      <4> QED BY <2>1, <2>2, <4>1, LastPlaced
    <3>3. segments(p)[m].count = Cardinality(placed(F, m, high(p)))
      <4> HIDE DEF F, m
      <4> QED BY <2>4, <3>1 DEF segments, summary, offsets, placed
    <3>4. segments(p)[m].count = Cardinality(placed(F, m, end))
      <4> HIDE DEF F, m, end
      <4> QED BY <2>1, <2>4, <3>1
    <3> HIDE DEF F, m, end
    <3> QED BY <2>1, <2>2, <3>1, <3>2, <3>3, <3>4, SMT
  <2> QED BY <1>1, <2>4, <2>6, <2>7, <2>8, ExactFile
<1>2. BaselineInv => AcceptedIsExact
  BY <1>1 DEF AcceptedIsExact
<1> QED BY <1>2, BaselineInvariant, PTL

\* When phase 20 compares the sum of the file sizes with kafka-log-dirs and
\* they agree, and nothing has been deleted, every partition is still what was
\* read of it.
THEOREM PassedExact == Spec => []PassedIsExact
<1>1. ASSUME BaselineInv, job.pc = "size", retained, NEW f \in baseline, log_dir_sizes = file_bytes(f),
             NEW p \in Partition
      PROVE  Exact(f, p)
  <2>1. ASSUME NEW q \in Partition
        PROVE  /\ low(q) = 0 /\ f[q].low = 0 /\ f[q].high \in Nat /\ high(q) \in Nat /\ f[q].high <= high(q)
               /\ SumFunction(f[q].bytes) = f[q].high
               /\ f[q].high = high(q) => bases[q] = DOMAIN f[q].bytes
    <3> DEFINE F == DOMAIN f[q].bytes
               end == files_end(f[q].bytes)
    <3>1. /\ end \in Nat /\ F \in SUBSET (0..end)
          /\ f[q].low \in Nat /\ f[q].high \in Nat /\ Min(F) \in F /\ Min(F) \in Nat
          /\ f[q].low <= Min(F) /\ Min(F) <= low(q) /\ f[q].high <= end /\ end <= high(q)
          /\ F \subseteq bases[q] /\ \A c \in bases[q] \ F : end <= c /\ c < high(q)
          /\ SumFunction(f[q].bytes) = end - Min(F)
      <4>1. /\ F # {} /\ F \in SUBSET (0..end) /\ end \in Nat
            /\ f[q].bytes = [b \in F |-> Cardinality(placed(F, b, end))]
            /\ f[q].low \in Nat /\ f[q].high \in Nat /\ Min(F) \in F /\ Min(F) \in Nat
            /\ f[q].low <= Min(F) /\ Min(F) <= low(q) /\ f[q].high <= end /\ end <= high(q)
            /\ retained => F \subseteq bases[q] /\ \A c \in bases[q] \ F : end <= c /\ c < high(q)
            /\ SumFunction(f[q].bytes) = end - Min(F)
        <5> HIDE DEF F, end
        <5> QED BY <1>1, FileFacts DEF F, end
      <4> HIDE DEF F, end
      <4> QED BY <1>1, <4>1
    <3>2. /\ high(q) \in Nat /\ LogInv(bases[q], high(q), retained) /\ low(q) \in Nat
      BY <1>1, TopicFacts DEF BaselineInv
    <3>3. low(q) = 0
      <4>1. 0 \in bases[q] /\ bases[q] \in SUBSET Nat /\ bases[q] # {}
        BY <1>1, <3>2 DEF LogInv
      <4>2. low(q) <= 0
        BY <4>1, MinOfSet DEF low
      <4> QED BY <3>2, <4>2
    <3>4. end = f[q].high
      BY <1>1 DEF BaselineInv, FileInv
    <3> HIDE DEF F, end
    <3>5. f[q].low = 0 /\ Min(F) = 0 /\ SumFunction(f[q].bytes) = f[q].high
      BY <3>1, <3>3, <3>4, SMT
    <3>6. f[q].high = high(q) => bases[q] = F
      <4>1. SUFFICES ASSUME f[q].high = high(q), NEW c \in bases[q], c \notin F PROVE FALSE
        BY <3>1
      <4>2. high(q) <= c /\ c < high(q) /\ c \in Nat
        BY <3>1, <3>2, <3>4, <4>1 DEF LogInv
      <4> QED BY <3>2, <4>2, SMT
    <3> QED BY <3>1, <3>2, <3>3, <3>4, <3>5, <3>6 DEF F
  <2> DEFINE was == [q \in Partition |-> f[q].high]
             is == [q \in Partition |-> high(q)]
  <2>2. file_bytes(f) = SumFunction(was)
    <3>1. [q \in Partition |-> SumFunction(f[q].bytes)] = was
      BY <2>1
    <3> QED BY <3>1 DEF file_bytes
  <2>3. log_dir_sizes = SumFunction(is)
    <3>1. \A q \in Partition : high(q) - low(q) = high(q)
      BY <2>1
    <3>2. [q \in Partition |-> high(q) - low(q)] = is
      BY <3>1
    <3> QED BY <3>2 DEF log_dir_sizes
  <2>4. was = is
    <3>1. IsFiniteSet(Partition)
      <4>1. 0 \in Int /\ Partitions - 1 \in Int
        BY BaselineAssumption
      <4> QED BY <4>1, FS_Interval DEF Partition
    <3>2. was \in [Partition -> Nat] /\ is \in [Partition -> Nat] /\ \A q \in Partition : was[q] <= is[q]
      BY <2>1
    <3>3. SumFunction(was) = SumFunction(is)
      BY <1>1, <2>2, <2>3
    <3> HIDE DEF was, is
    <3> QED BY <3>1, <3>2, <3>3, SumsEqual
  <2>5. f[p].high = high(p)
    <3>1. was[p] = f[p].high /\ is[p] = high(p)
      OBVIOUS
    <3> QED BY <2>4, <3>1
  <2> QED BY <1>1, <2>1, <2>5, ExactFile
<1>2. BaselineInv => PassedIsExact
  BY <1>1 DEF PassedIsExact
<1> QED BY <1>2, BaselineInvariant, PTL
=============================================================================
