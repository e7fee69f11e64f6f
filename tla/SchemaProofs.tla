---------------------------- MODULE SchemaProofs ----------------------------
(***************************************************************************)
(* Proofs about SchemaImport for any schema IDs, any subjects and any      *)
(* number of commands, refused requests, lost replies and kills.           *)
(***************************************************************************)
EXTENDS SchemaImport, FiniteSetTheorems, FunctionTheorems, WellFoundedInduction, TLAPS

-----------------------------------------------------------------------------
(* Lemmas about registries. *)

\* A finite, nonempty set of integers has a largest element.
LEMMA MaxOfFinite ==
  ASSUME NEW S \in SUBSET Int, IsFiniteSet(S), S # {}
  PROVE  Max(S) \in S /\ \A x \in S : x <= Max(S)
<1>. DEFINE R == StrictSubsetOrdering(S)
            T == {U \in SUBSET S : U # {} /\ \A x \in U : \E y \in U : ~(y <= x)}
<1>1. T = {}
  <2>1. SUFFICES ASSUME T # {} PROVE FALSE
    OBVIOUS
  <2>2. IsWellFoundedOn(R, SUBSET S)
    BY FS_StrictSubsetOrderingWellFounded, FS_FiniteSubsetsOfFinite, Zenon
  <2>3. T \subseteq SUBSET S
    OBVIOUS
  <2>4. \E U \in T : \A V \in T : ~(<<V, U>> \in R)
    <3>. HIDE DEF R, T
    <3>. QED
      BY <2>1, <2>2, <2>3, WFMin, Zenon
  <2>5. PICK U \in T : \A V \in T : ~(<<V, U>> \in R)
    BY <2>4, Zenon
  <2>6. PICK u \in U : TRUE
    BY Zenon
  <2>7. PICK v \in U : ~(v <= u)
    BY Zenon
  <2>. DEFINE V == U \ {u}
  <2>8. V \in SUBSET S /\ v \in V /\ V # U
    BY <2>6, <2>7
  <2>9. <<V, U>> \in R
    BY <2>8, Zenon DEF StrictSubsetOrdering
  <2>10. PICK m \in V : \A y \in V : y <= m
    BY <2>5, <2>8, <2>9, Zenon
  <2>11. \A y \in U : y <= m
    BY <2>7, <2>8, <2>10
  <2>. QED
    BY <2>10, <2>11
<1>2. \E x \in S : \A y \in S : y <= x
  BY <1>1, Zenon
<1>3. \E x \in S : \A y \in S : x >= y
  BY <1>2
<1>4. Max(S) \in S /\ \A y \in S : Max(S) >= y
  BY <1>3, Zenon DEF Max
<1>. QED
  BY <1>4

\* The types and the uniqueness that TypeOK states of each registry.
RegistryOK(registry) ==
  /\ registry \subseteq [subject : Int, version : Nat, id : Nat, schema : Int]
  /\ \A e, f \in registry : e.subject = f.subject /\ e.version = f.version => e = f
  /\ \A e, f \in registry : e.id = f.id => e.schema = f.schema

\* The IDs and the versions of a finite registry are finite sets.
LEMMA FieldsAreFinite ==
  ASSUME NEW registry, RegistryOK(registry), IsFiniteSet(registry)
  PROVE  /\ IsFiniteSet({e.id : e \in registry})
         /\ IsFiniteSet({e.version : e \in registry})
<1>. DEFINE I == {e.id : e \in registry}
            V == {e.version : e \in registry}
            f == [e \in registry |-> e.id]
            g == [e \in registry |-> e.version]
<1>1. f \in Surjection(registry, I)
  BY Zenon DEF Surjection
<1>2. g \in Surjection(registry, V)
  BY Zenon DEF Surjection
<1>. HIDE DEF f, g, I, V
<1>3. IsFiniteSet(I) /\ IsFiniteSet(V)
  BY <1>1, <1>2, FS_Surjection, Zenon
<1>. QED
  BY <1>3 DEF I, V

\* The next ID and the next version are above all there are.
LEMMA NextIsNew ==
  ASSUME NEW registry, RegistryOK(registry), IsFiniteSet(registry), NEW s
  PROVE  /\ NextId(registry) \in Nat \ {0}
         /\ \A e \in registry : e.id < NextId(registry)
         /\ NextVersion(registry, s) \in Nat
         /\ \A e \in registry : e.subject = s => e.version < NextVersion(registry, s)
<1>. DEFINE I == {e.id : e \in registry}
            V == {e.version : e \in registry}
            W == versions_of(registry, s)
<1>1. \A e \in registry : e.id \in Nat /\ e.version \in Nat
  BY DEF RegistryOK
<1>2. I \in SUBSET Nat /\ W \in SUBSET Nat /\ W \in SUBSET V
  BY <1>1 DEF versions_of
<1>3. IsFiniteSet(I) /\ IsFiniteSet(W)
  BY <1>2, FieldsAreFinite, FS_Subset, Zenon
<1>4. \A e \in registry : e.id \in I /\ (e.subject = s => e.version \in W)
  BY DEF versions_of
<1>5. NextId(registry) = IF I = {} THEN 1 ELSE Max(I) + 1
  BY DEF NextId
<1>6. NextVersion(registry, s) = IF W = {} THEN 1 ELSE Max(W) + 1
  BY DEF NextVersion
<1>. HIDE DEF I, V, W
<1>7. I \in SUBSET Int /\ W \in SUBSET Int
  BY <1>2
<1>8. I # {} => Max(I) \in I /\ \A x \in I : x <= Max(I)
  BY <1>3, <1>7, MaxOfFinite, Zenon
<1>9. W # {} => Max(W) \in W /\ \A x \in W : x <= Max(W)
  BY <1>3, <1>7, MaxOfFinite, Zenon
<1>10. NextId(registry) \in Nat \ {0} /\ \A x \in I : x < NextId(registry)
  <2>1. CASE I = {}
    BY <1>5, <2>1
  <2>2. CASE I # {}
    <3>1. PICK m \in Nat : m = Max(I) /\ \A x \in I : x <= m
      BY <1>2, <1>8, <2>2, Zenon
    <3>2. NextId(registry) = m + 1
      BY <1>5, <2>2, <3>1
    <3>3. \A x \in I : x \in Nat /\ x <= m
      BY <1>2, <3>1
    <3>. QED
      BY <3>2, <3>3
  <2>. QED
    BY <2>1, <2>2
<1>11. NextVersion(registry, s) \in Nat /\ \A x \in W : x < NextVersion(registry, s)
  <2>1. CASE W = {}
    BY <1>6, <2>1
  <2>2. CASE W # {}
    <3>1. PICK m \in Nat : m = Max(W) /\ \A x \in W : x <= m
      BY <1>2, <1>9, <2>2, Zenon
    <3>2. NextVersion(registry, s) = m + 1
      BY <1>6, <2>2, <3>1
    <3>3. \A x \in W : x \in Nat /\ x <= m
      BY <1>2, <3>1
    <3>. QED
      BY <3>2, <3>3
  <2>. QED
    BY <2>1, <2>2
<1>. QED
  BY <1>4, <1>10, <1>11

\* What registering a schema in READWRITE mode does: the registry as it was
\* and at most one new entry, whose ID is new or had the schema already.
LEMMA RegisteredAdds ==
  ASSUME NEW registry, RegistryOK(registry), IsFiniteSet(registry),
         NEW s \in Int, NEW c \in Int
  PROVE  \/ /\ Registered(registry, s, c) = registry
            /\ \E e \in registry : e.schema = c
         \/ \E id \in Nat, v \in Nat :
              /\ Registered(registry, s, c) = registry \cup {Entry(s, v, id, c)}
              /\ \A e \in registry : e.subject = s => e.version < v
              /\ \/ \E e \in registry : e.schema = c /\ e.id = id
                 \/ /\ id = NextId(registry)
                    /\ \A e \in registry : e.schema # c
<1>. DEFINE known == {e.id : e \in {f \in registry : f.schema = c}}
            id == IF known = {} THEN NextId(registry) ELSE Max(known)
            v == NextVersion(registry, s)
            there == \E e \in registry : e.subject = s /\ e.schema = c
<1>1. Registered(registry, s, c) = IF there THEN registry ELSE registry \cup {Entry(s, v, id, c)}
  BY DEF Registered
<1>2. v \in Nat /\ NextId(registry) \in Nat /\ \A e \in registry : e.subject = s => e.version < v
  BY NextIsNew
<1>3. known # {} => \E e \in registry : e.schema = c /\ e.id = id
  <2>1. known \in SUBSET {e.id : e \in registry}
    OBVIOUS
  <2>2. IsFiniteSet(known)
    BY <2>1, FieldsAreFinite, FS_Subset, Zenon
  <2>3. known \in SUBSET Int
    BY DEF RegistryOK
  <2>4. known # {} => Max(known) \in known
    BY <2>2, <2>3, MaxOfFinite, Zenon
  <2>. QED
    BY <2>4
<1>4. known = {} => \A e \in registry : e.schema # c
  OBVIOUS
<1>5. id \in Nat
  BY <1>2, <1>3 DEF RegistryOK
<1>6. CASE there
  BY <1>1, <1>6
<1>7. CASE ~there
  <2>1. Registered(registry, s, c) = registry \cup {Entry(s, v, id, c)}
    BY <1>1, <1>7
  <2>2. \/ \E e \in registry : e.schema = c /\ e.id = id
        \/ id = NextId(registry) /\ \A e \in registry : e.schema # c
    BY <1>3, <1>4
  <2>. HIDE DEF id, v
  <2>. QED
    BY <1>2, <1>5, <2>1, <2>2, Zenon
<1>. QED
  BY <1>6, <1>7

LEMMA RegisteredIsOK ==
  ASSUME NEW registry, RegistryOK(registry), IsFiniteSet(registry),
         NEW s \in Int, NEW c \in Int
  PROVE  /\ RegistryOK(Registered(registry, s, c))
         /\ IsFiniteSet(Registered(registry, s, c))
<1>1. CASE Registered(registry, s, c) = registry
  BY <1>1
<1>2. ASSUME NEW id \in Nat, NEW v \in Nat,
             Registered(registry, s, c) = registry \cup {Entry(s, v, id, c)},
             \A e \in registry : e.subject = s => e.version < v,
             \/ \E e \in registry : e.schema = c /\ e.id = id
             \/ id = NextId(registry)
      PROVE  /\ RegistryOK(Registered(registry, s, c))
             /\ IsFiniteSet(Registered(registry, s, c))
  <2>. DEFINE n == Entry(s, v, id, c)
  <2>1. /\ n \in [subject : Int, version : Nat, id : Nat, schema : Int]
        /\ n.subject = s /\ n.version = v /\ n.id = id /\ n.schema = c
    BY DEF Entry
  <2>2. \A e \in registry : e.id = id => e.schema = c
    BY <1>2, NextIsNew DEF RegistryOK
  <2>3. \A e \in registry : ~(e.subject = s /\ e.version = v)
    BY <1>2 DEF RegistryOK
  <2>. HIDE DEF n
  <2>4. RegistryOK(registry \cup {n})
    BY <2>1, <2>2, <2>3 DEF RegistryOK
  <2>5. IsFiniteSet(registry \cup {n})
    BY FS_AddElement, Zenon
  <2>. QED
    BY <1>2, <2>4, <2>5 DEF n
<1>. QED
  BY <1>1, <1>2, RegisteredAdds

\* Whatever is registered, an ID that means something keeps its meaning.
LEMMA RegisteredKeepsIds ==
  ASSUME NEW registry, RegistryOK(registry), IsFiniteSet(registry),
         NEW s \in Int, NEW c \in Int, NEW i, schemas_ids(registry, i) # {}
  PROVE  schemas_ids(Registered(registry, s, c), i) = schemas_ids(registry, i)
<1>1. PICK f \in registry : f.id = i
  BY DEF schemas_ids
<1>2. ASSUME NEW id \in Nat, NEW v \in Nat,
             Registered(registry, s, c) = registry \cup {Entry(s, v, id, c)},
             \/ \E e \in registry : e.schema = c /\ e.id = id
             \/ id = NextId(registry)
      PROVE  schemas_ids(Registered(registry, s, c), i) = schemas_ids(registry, i)
  <2>1. id = i => \E e \in registry : e.schema = c /\ e.id = i
    BY <1>1, <1>2, NextIsNew
  <2>2. Entry(s, v, id, c).id = id /\ Entry(s, v, id, c).schema = c
    BY DEF Entry
  <2>. QED
    BY <1>2, <2>1, <2>2 DEF schemas_ids
<1>. QED
  BY <1>2, RegisteredAdds

-----------------------------------------------------------------------------
(* The two registries, step by step. *)

LEMMA MaxOfIds == Max(Ids) \in Ids /\ \A i \in Ids : i <= Max(Ids)
  BY SchemaAssumption, MaxOfFinite

LEMMA IdsArePositive ==
  /\ Max(Ids) \in Nat \ {0}
  /\ \A i \in Ids : i \in Nat /\ 0 < i /\ i <= Max(Ids)
<1>1. \A i \in Ids : i \in Nat /\ i # 0
  BY SchemaAssumption, Zenon
<1>2. \A i \in Ids : i <= Max(Ids)
  BY MaxOfIds, Zenon
<1>. QED
  BY <1>1, <1>2, MaxOfIds

\* Every step leaves each registry as it is, registers a schema there, or puts
\* an exported entry that fits into the target.
LEMMA StepTargets ==
  ASSUME TypeOK, SchemaInv, [Next]_vars
  PROVE  \/ target' = target
         \/ \E e \in todo : Puts(e) /\ target' = target \cup {e}
         \/ \E s \in Int, c \in Int : target' = Registered(target, s, c)
<1>1. CASE Post
  BY <1>1 DEF Post
<1>2. CASE RegisterUnrelated
  <2>1. \A k \in unseen : -k \in Int
    BY DEF TypeOK
  <2>. QED
    BY <1>2, <2>1 DEF RegisterUnrelated
<1>3. CASE RegisterNaively
  <2>1. \A e \in todo : e.subject \in Int /\ e.schema \in Int
    BY DEF TypeOK
  <2>. QED
    BY <1>3, <2>1 DEF RegisterNaively
<1>4. CASE ~(Post \/ RegisterUnrelated \/ RegisterNaively)
  BY <1>4 DEF Next, vars, registries, RegisterAtSource, Export, StartImport, Start, LookUp, LookedUp,
              PutImport, PutReadWrite, ImportGate, SchemaCheck, StartNaive, Kill
<1>. QED
  BY <1>1, <1>2, <1>3, <1>4

LEMMA StepSources ==
  ASSUME SchemaInv, [Next]_vars
  PROVE  \/ source' = source
         \/ \E s \in Subjects, i \in Ids : source' = Registered(source, s, i)
<1>1. CASE RegisterAtSource
  BY <1>1 DEF RegisterAtSource
<1>2. CASE ~RegisterAtSource
  BY <1>2 DEF Next, vars, registries, Export, StartImport, Start, LookUp, LookedUp, PutImport, Post,
              PutReadWrite, ImportGate, SchemaCheck, StartNaive, RegisterUnrelated, RegisterNaively, Kill
<1>. QED
  BY <1>1, <1>2

LEMMA RegistriesAreOK ==
  ASSUME TypeOK
  PROVE  RegistryOK(source) /\ RegistryOK(target)
  BY DEF TypeOK, RegistryOK

\* An entry that fits can be put.
LEMMA PutIsOK ==
  ASSUME NEW registry, RegistryOK(registry), IsFiniteSet(registry),
         NEW e \in [subject : Int, version : Nat, id : Nat, schema : Int],
         \A f \in registry : /\ f.subject = e.subject /\ f.version = e.version => f = e
                             /\ f.id = e.id => f.schema = e.schema
  PROVE  /\ RegistryOK(registry \cup {e}) /\ IsFiniteSet(registry \cup {e})
         /\ \A i : schemas_ids(registry, i) # {} => schemas_ids(registry \cup {e}, i) = schemas_ids(registry, i)
<1>1. RegistryOK(registry \cup {e})
  BY DEF RegistryOK
<1>2. IsFiniteSet(registry \cup {e})
  BY FS_AddElement, Zenon
<1>3. ASSUME NEW i, schemas_ids(registry, i) # {}
      PROVE  schemas_ids(registry \cup {e}, i) = schemas_ids(registry, i)
  <2>1. PICK f \in registry : f.id = i
    BY <1>3 DEF schemas_ids
  <2>2. e.id = i => f.schema = e.schema
    BY <2>1
  <2>. QED
    BY <2>1, <2>2 DEF schemas_ids
<1>. QED
  BY <1>1, <1>2, <1>3

LEMMA StepTargetOK ==
  ASSUME TypeOK, SchemaInv, [Next]_vars
  PROVE  /\ RegistryOK(target)' /\ IsFiniteSet(target)'
         /\ \A i : schemas_ids(target, i) # {} => schemas_ids(target', i) = schemas_ids(target, i)
<1>1. RegistryOK(target) /\ IsFiniteSet(target)
  BY RegistriesAreOK DEF SchemaInv
<1>2. CASE target' = target
  BY <1>1, <1>2 DEF RegistryOK
<1>3. ASSUME NEW e \in todo, Puts(e), target' = target \cup {e}
      PROVE  /\ RegistryOK(target') /\ IsFiniteSet(target')
             /\ \A i : schemas_ids(target, i) # {} => schemas_ids(target', i) = schemas_ids(target, i)
  <2>1. e \in [subject : Int, version : Nat, id : Nat, schema : Int]
    BY DEF TypeOK
  <2>2. \A f \in target : /\ f.subject = e.subject /\ f.version = e.version => f = e
                          /\ f.id = e.id => f.schema = e.schema
    BY <1>3 DEF Puts
  <2>3. /\ RegistryOK(target \cup {e}) /\ IsFiniteSet(target \cup {e})
        /\ \A i : schemas_ids(target, i) # {} => schemas_ids(target \cup {e}, i) = schemas_ids(target, i)
    BY <1>1, <2>1, <2>2, PutIsOK, Zenon
  <2>. QED
    BY <1>3, <2>3, Zenon
<1>4. ASSUME NEW s \in Int, NEW c \in Int, target' = Registered(target, s, c)
      PROVE  /\ RegistryOK(target') /\ IsFiniteSet(target')
             /\ \A i : schemas_ids(target, i) # {} => schemas_ids(target', i) = schemas_ids(target, i)
  BY <1>1, <1>4, RegisteredIsOK, RegisteredKeepsIds, Zenon
<1>. QED
  BY <1>2, <1>3, <1>4, StepTargets, Zenon

\* The source keeps what it has, and has each schema of the data under its ID.
LEMMA StepSource ==
  ASSUME TypeOK, SchemaInv, [Next]_vars
  PROVE  RegistryOK(source)' /\ SourceInv' /\ source \subseteq source'
<1>1. RegistryOK(source) /\ IsFiniteSet(source)
  BY RegistriesAreOK DEF SchemaInv, SourceInv
<1>2. CASE source' = source
  BY <1>1, <1>2 DEF RegistryOK, SchemaInv, SourceInv
<1>3. ASSUME NEW s \in Subjects, NEW i \in Ids, source' = Registered(source, s, i)
      PROVE  RegistryOK(source') /\ SourceInv' /\ source \subseteq source'
  <2>1. s \in Int /\ i \in Int
    BY SchemaAssumption
  <2>2. RegistryOK(source') /\ IsFiniteSet(source')
    BY <1>1, <1>3, <2>1, RegisteredIsOK, Zenon
  <2>3. \E e \in source : e.schema = i
    BY DEF SchemaInv, SourceInv
  <2>4. CASE source' = source
    BY <2>2, <2>4 DEF SchemaInv, SourceInv
  <2>5. ASSUME NEW id \in Nat, NEW v \in Nat,
               source' = source \cup {Entry(s, v, id, i)},
               \E e \in source : e.schema = i /\ e.id = id
        PROVE  SourceInv' /\ source \subseteq source'
    <3>. DEFINE n == Entry(s, v, id, i)
    <3>1. n.id = id /\ n.schema = i /\ n.subject = s
      BY DEF Entry
    <3>2. id = i
      BY <2>5 DEF SchemaInv, SourceInv
    <3>3. \A e \in source' : e.id = e.schema /\ e.id \in Ids /\ e.subject \in Subjects
      <4>. HIDE DEF n
      <4>. QED
        BY <2>5, <3>1, <3>2 DEF SchemaInv, SourceInv, n
    <3>4. \A j \in Ids : \E e \in source' : e.id = j
      BY <2>5 DEF SchemaInv, SourceInv
    <3>5. SourceInv'
      BY <2>2, <3>3, <3>4 DEF SourceInv
    <3>. QED
      BY <2>5, <3>5
  <2>6. \/ source' = source
        \/ \E id \in Nat, v \in Nat :
             /\ source' = source \cup {Entry(s, v, id, i)}
             /\ \E e \in source : e.schema = i /\ e.id = id
    <3>1. CASE Registered(source, s, i) = source
      BY <1>3, <3>1
    <3>2. ASSUME NEW id \in Nat, NEW v \in Nat,
                 Registered(source, s, i) = source \cup {Entry(s, v, id, i)},
                 \/ \E e \in source : e.schema = i /\ e.id = id
                 \/ \A e \in source : e.schema # i
          PROVE  /\ source' = source \cup {Entry(s, v, id, i)}
                 /\ \E e \in source : e.schema = i /\ e.id = id
      BY <1>3, <2>3, <3>2, Zenon
    <3>. QED
      BY <1>1, <2>1, <3>1, <3>2, RegisteredAdds
  <2>. QED
    BY <2>2, <2>4, <2>5, <2>6, Zenon
<1>. QED
  BY <1>2, <1>3, StepSources, Zenon

-----------------------------------------------------------------------------
(* Type correctness. *)

\* Only schema-check changes what was checked, and only IDs that both registries
\* know by the same schema get TRUE from it.
LEMMA StepChecked ==
  ASSUME [Next]_vars, checked' # checked
  PROVE  \E ids \in (SUBSET Ids) \ {{}}, ok \in BOOLEAN :
           checked' = {[ids |-> ids, ok |-> ok]} /\ (ok => check_ids(ids))
<1>1. CASE SchemaCheck
  <2>1. PICK ids \in (SUBSET Ids) \ {{}} :
          \/ checked' = {[ids |-> ids, ok |-> check_ids(ids)]}
          \/ checked' = {[ids |-> ids, ok |-> FALSE]}
    BY <1>1, Zenon DEF SchemaCheck
  <2>2. check_ids(ids) \in BOOLEAN
    BY DEF check_ids
  <2>. QED
    BY <2>1, <2>2
<1>2. CASE ~SchemaCheck
  BY <1>2 DEF Next, vars, evidence, RegisterAtSource, Export, StartImport, Start, LookUp, LookedUp, PutImport,
              Post, PutReadWrite, ImportGate, StartNaive, RegisterUnrelated, RegisterNaively, Kill
<1>. QED
  BY <1>1, <1>2

LEMMA StepTypeOK ==
  ASSUME TypeOK, SchemaInv, [Next]_vars
  PROVE  TypeOK'
<1>1. RegistryOK(source)' /\ RegistryOK(target)' /\ source \subseteq source'
  BY StepSource, StepTargetOK
<1>2. /\ mode' \in {"READWRITE", "IMPORT"}
      /\ imported_by_id' \subseteq BOOLEAN
      /\ checked' \subseteq [ids : SUBSET Ids, ok : BOOLEAN]
      /\ interrupted' \in BOOLEAN
  <2>1. CASE SchemaCheck
    <3>1. checked' # checked => \E ids \in SUBSET Ids, ok \in BOOLEAN : checked' = {[ids |-> ids, ok |-> ok]}
      BY StepChecked
    <3>2. checked' \subseteq [ids : SUBSET Ids, ok : BOOLEAN]
      BY <3>1 DEF TypeOK
    <3>. QED
      BY <2>1, <3>2 DEF SchemaCheck, registries, TypeOK
  <2>2. CASE ImportGate
    BY <2>2 DEF ImportGate, registries, bounds, check_ids, TypeOK
  <2>3. CASE ~(SchemaCheck \/ ImportGate)
    BY <2>3 DEF Next, vars, registries, evidence, bounds, TypeOK, RegisterAtSource, Export, StartImport,
                Start, LookUp, LookedUp, PutImport, Post, PutReadWrite, StartNaive, RegisterUnrelated,
                RegisterNaively, Kill
  <2>. QED
    BY <2>1, <2>2, <2>3
<1>3. export' \subseteq source'
  <2>1. CASE Export
    BY <2>1 DEF Export, registries
  <2>2. CASE ~Export
    <3>1. export' = export
      BY <2>2 DEF Next, vars, evidence, RegisterAtSource, StartImport, Start, LookUp, LookedUp,
                  PutImport, Post, PutReadWrite, ImportGate, SchemaCheck, StartNaive,
                  RegisterUnrelated, RegisterNaively, Kill
    <3>. QED
      BY <1>1, <3>1 DEF TypeOK
  <2>. QED
    BY <2>1, <2>2
<1>4. todo' \subseteq export'
  BY DEF Next, vars, evidence, TypeOK, RegisterAtSource, Export, StartImport, Start, LookUp, LookedUp,
         PutImport, Post, PutReadWrite, ImportGate, SchemaCheck, StartNaive, RegisterUnrelated,
         RegisterNaively, Kill
<1>5. unseen' \subseteq Nat
  <2>1. CASE StartImport
    BY <2>1 DEF StartImport, TypeOK
  <2>2. CASE StartNaive
    BY <2>2, MaxOfIds, SchemaAssumption DEF StartNaive, unrelated
  <2>3. CASE ~(StartImport \/ StartNaive)
    BY <2>3 DEF Next, vars, TypeOK, RegisterAtSource, Export, LookUp, LookedUp, PutImport, Post,
                PutReadWrite, ImportGate, SchemaCheck, RegisterUnrelated, RegisterNaively, Kill
  <2>. QED
    BY <2>1, <2>2, <2>3
<1>. QED
  BY <1>1, <1>2, <1>3, <1>4, <1>5 DEF TypeOK, RegistryOK

-----------------------------------------------------------------------------
(* What an import has established. *)

\* An exported entry is under the ID that is its schema.
LEMMA ExportedIds ==
  ASSUME TypeOK, SchemaInv
  PROVE  \A e \in export : e.id = e.schema /\ e.id \in Ids /\ e.subject \in Subjects
  BY DEF TypeOK, SchemaInv, SourceInv

\* On the source every ID of the data stands for its own schema.
LEMMA SourceMeans ==
  ASSUME SchemaInv, NEW i \in Ids
  PROVE  schemas_ids(source, i) = {i}
<1>1. \A e \in source : e.id = e.schema
  BY DEF SchemaInv, SourceInv
<1>2. \E e \in source : e.id = i
  BY DEF SchemaInv, SourceInv
<1>. QED
  BY <1>1, <1>2 DEF schemas_ids

LEMMA StepMode ==
  ASSUME TypeOK, SchemaInv, [Next]_vars
  PROVE  /\ pc' \in Importing \cup {"idle", "unrelated"}
         /\ pc' \in Importing => "import" \in used'
         /\ mode' = "IMPORT" => "import" \in used' /\ (interrupted' \/ pc' \in {"post", "reset", "reset-failed"})
         /\ pc' \in Importing => export' # {}
         /\ pc' \in {"put", "post", "reset", "gate"} => unseen' = {}
         /\ pc' \in {"reset", "gate"} => todo' = {}
<1>. USE DEF SchemaInv, ImportInv, Importing, Start
<1>1. CASE RegisterAtSource \/ Export \/ UNCHANGED vars
  BY <1>1 DEF RegisterAtSource, Export, registries, evidence, bounds, vars
<1>2. CASE StartImport \/ LookUp \/ LookedUp \/ ImportGate
  BY <1>2 DEF StartImport, LookUp, LookedUp, ImportGate, registries, evidence, bounds
<1>3. CASE PutImport \/ Post \/ PutReadWrite
  <2>1. CASE PutImport
    BY <2>1 DEF PutImport, evidence
  <2>2. CASE Post
    BY <2>2 DEF Post, evidence
  <2>3. CASE PutReadWrite
    BY <2>3 DEF PutReadWrite, evidence
  <2>. QED
    BY <1>3, <2>1, <2>2, <2>3
<1>4. CASE SchemaCheck \/ StartNaive \/ RegisterUnrelated \/ RegisterNaively
  BY <1>4 DEF SchemaCheck, StartNaive, RegisterUnrelated, RegisterNaively, registries, evidence, bounds
<1>5. CASE Kill
  BY <1>5 DEF Kill, Fault, registries, evidence
<1>. QED
  BY <1>1, <1>2, <1>3, <1>4, <1>5 DEF Next

\* The export has every ID of the data, as the source has.
LEMMA StepExport ==
  ASSUME SchemaInv, [Next]_vars
  PROVE  ExportInv'
<1>1. CASE Export
  BY <1>1 DEF Export, ExportInv, SchemaInv, SourceInv
<1>2. CASE ~Export
  <2>1. export' = export
    BY <1>2 DEF Next, vars, evidence, RegisterAtSource, StartImport, Start, LookUp, LookedUp,
                PutImport, Post, PutReadWrite, ImportGate, SchemaCheck, StartNaive,
                RegisterUnrelated, RegisterNaively, Kill
  <2>. QED
    BY <2>1 DEF ExportInv, SchemaInv
<1>. QED
  BY <1>1, <1>2

\* Where an exported ID is looked up, or is the target's, it stays so; what is
\* posted is the target's from then on.
LEMMA StepImportInv ==
  ASSUME TypeOK, SchemaInv, [Next]_vars
  PROVE  ImportInv'
<1>. DEFINE Looking == {"look", "put", "post", "reset", "gate"}
            Means(e) == schemas_ids(target, e.id) = {e.id}
<1>0. pc \in Looking => \A e \in export : e.id \in unseen \/ e \in todo \/ Means(e)
  BY DEF SchemaInv, ImportInv
<1>1. ASSUME NEW e, Means(e)
      PROVE  Means(e)'
  BY <1>1, StepTargetOK
<1>. HIDE DEF Means
<1>2. ASSUME NEW e \in export', pc' \in Looking
      PROVE  e.id \in unseen' \/ e \in todo' \/ Means(e)'
  <2>1. CASE RegisterAtSource \/ UNCHANGED vars
    <3>1. UNCHANGED <<pc, export, unseen, todo>>
      BY <2>1 DEF RegisterAtSource, evidence, vars
    <3>. QED
      BY <1>0, <1>1, <1>2, <3>1
  <2>2. CASE StartImport
    BY <1>2, <2>2 DEF StartImport, evidence
  <2>3. CASE LookUp
    <3>1. pc = "look" /\ export' = export
      BY <2>3 DEF LookUp, evidence
    <3>2. PICK i \in unseen :
            /\ unseen' = unseen \ {i}
            /\ \/ todo' = todo \cup {f \in export : f.id = i}
               \/ schemas_ids(target, i) = {i} /\ todo' = todo
               \/ pc' = "idle"
      BY <2>3, Zenon DEF LookUp
    <3>3. CASE e.id = i
      <4>1. schemas_ids(target, i) = {i} => Means(e)
        BY <3>3 DEF Means
      <4>. QED
        BY <1>1, <1>2, <3>1, <3>2, <3>3, <4>1
    <3>4. CASE e.id # i
      BY <1>0, <1>1, <1>2, <3>1, <3>2, <3>4
    <3>. QED
      BY <3>3, <3>4
  <2>4. CASE LookedUp
    <3>1. pc = "look" /\ UNCHANGED <<export, unseen, todo>>
      BY <2>4 DEF LookedUp, evidence
    <3>. QED
      BY <1>0, <1>1, <1>2, <3>1
  <2>5. CASE PutImport
    <3>1. pc = "put" /\ UNCHANGED <<export, unseen, todo>>
      BY <2>5 DEF PutImport, evidence
    <3>. QED
      BY <1>0, <1>1, <1>2, <3>1
  <2>6. CASE PutReadWrite
    <3>1. UNCHANGED <<export, unseen, todo>> /\ (pc = "reset" \/ pc' = "idle")
      BY <2>6 DEF PutReadWrite, evidence
    <3>. QED
      BY <1>0, <1>1, <1>2, <3>1
  <2>7. CASE Post
    <3>1. pc = "post" /\ UNCHANGED <<export, unseen>> /\ pc' # "idle"
      BY <1>2, <2>7 DEF Post, evidence
    <3>2. PICK f \in todo :
            /\ todo' = todo \ {f}
            /\ \/ Puts(f) /\ target' = target \cup {f}
               \/ pc' = "reset-failed"
      BY <2>7 DEF Post
    <3>3. Puts(f) /\ target' = target \cup {f}
      BY <1>2, <3>2
    <3>4. CASE e = f
      <4>1. e.id = e.schema
        BY <3>4, ExportedIds DEF TypeOK
      <4>2. \A g \in target : g.id = e.id => g.schema = e.schema
        BY <3>3, <3>4 DEF Puts
      <4>3. Means(e)'
        BY <3>3, <3>4, <4>1, <4>2 DEF Means, schemas_ids
      <4>. QED
        BY <4>3
    <3>5. CASE e # f
      BY <1>0, <1>1, <3>1, <3>2, <3>5
    <3>. QED
      BY <3>4, <3>5
  <2>8. CASE Export \/ ImportGate \/ SchemaCheck \/ StartNaive \/ RegisterUnrelated \/ RegisterNaively \/ Kill
    <3>1. pc' \in {"idle", "unrelated"}
      BY <2>8 DEF Export, ImportGate, SchemaCheck, StartNaive, Start, RegisterUnrelated, RegisterNaively, Kill
    <3>. QED
      BY <1>2, <3>1
  <2>. QED
    BY <2>1, <2>2, <2>3, <2>4, <2>5, <2>6, <2>7, <2>8 DEF Next
<1>. QED
  BY <1>2, StepMode DEF ImportInv, Means

-----------------------------------------------------------------------------
(* The naive registry. *)

\* Which IDs a registry without an import may have given to which schema.
OthersFirst(registry) ==
  \A e \in registry : /\ e.schema \in Ids => e.id > Max(Ids)
                      /\ e.schema < 0 /\ e.schema >= -Max(Ids) => e.id >= -e.schema

\* Registering c keeps that, if the next ID is one that c may have.
LEMMA RegisteredOthersFirst ==
  ASSUME NEW registry, RegistryOK(registry), IsFiniteSet(registry), OthersFirst(registry),
         NEW s \in Int, NEW c \in Int,
         c \in Ids => NextId(registry) > Max(Ids),
         c < 0 /\ c >= -Max(Ids) => NextId(registry) >= -c
  PROVE  /\ OthersFirst(Registered(registry, s, c))
         /\ registry \subseteq Registered(registry, s, c)
         /\ \E e \in Registered(registry, s, c) : e.schema = c
<1>1. CASE Registered(registry, s, c) = registry /\ \E e \in registry : e.schema = c
  BY <1>1
<1>2. ASSUME NEW id \in Nat, NEW v \in Nat,
             Registered(registry, s, c) = registry \cup {Entry(s, v, id, c)},
             \/ \E e \in registry : e.schema = c /\ e.id = id
             \/ id = NextId(registry)
      PROVE  /\ OthersFirst(Registered(registry, s, c))
             /\ registry \subseteq Registered(registry, s, c)
             /\ \E e \in Registered(registry, s, c) : e.schema = c
  <2>1. Entry(s, v, id, c).id = id /\ Entry(s, v, id, c).schema = c
    BY DEF Entry
  <2>2. /\ c \in Ids => id > Max(Ids)
        /\ c < 0 /\ c >= -Max(Ids) => id >= -c
    BY <1>2 DEF OthersFirst
  <2>3. OthersFirst(registry \cup {Entry(s, v, id, c)})
    BY <2>1, <2>2 DEF OthersFirst
  <2>. QED
    BY <1>2, <2>1, <2>3
<1>. QED
  BY <1>1, <1>2, RegisteredAdds

LEMMA StepNaiveInv ==
  ASSUME TypeOK, SchemaInv, [Next]_vars
  PROVE  NaiveInv'
<1>. SUFFICES ASSUME "import" \notin used'
              PROVE  /\ OthersFirst(target')
                     /\ pc' = "unrelated" =>
                          /\ unseen' \subseteq unrelated
                          /\ \A k \in unrelated \ unseen' : /\ \E e \in target' : e.schema = -k
                                                            /\ \A l \in unseen' : k < l
  BY DEF NaiveInv, OthersFirst, unrelated
<1>1. "import" \notin used /\ pc \notin Importing
  <2>1. used \subseteq used'
    BY DEF Next, vars, bounds, RegisterAtSource, Export, StartImport, Start, LookUp, LookedUp, PutImport,
           Post, PutReadWrite, ImportGate, SchemaCheck, StartNaive, RegisterUnrelated, RegisterNaively, Kill
  <2>. QED
    BY <2>1 DEF SchemaInv, ImportInv
<1>2. /\ OthersFirst(target)
      /\ pc = "unrelated" =>
           /\ unseen \subseteq unrelated
           /\ \A k \in unrelated \ unseen : /\ \E e \in target : e.schema = -k
                                            /\ \A l \in unseen : k < l
  BY <1>1 DEF SchemaInv, NaiveInv, OthersFirst
<1>3. RegistryOK(target) /\ IsFiniteSet(target) /\ \A e \in target : e.id \in Nat
  BY RegistriesAreOK DEF SchemaInv, RegistryOK
<1>4. Max(Ids) \in Nat \ {0} /\ unrelated = 1..Max(Ids)
  BY MaxOfIds, SchemaAssumption DEF unrelated
<1>5. CASE RegisterUnrelated
  <2>1. PICK k \in unseen :
          /\ \A l \in unseen : k <= l
          /\ \/ target' = Registered(target, -k, -k) /\ unseen' = unseen \ {k}
             \/ pc' = "idle" /\ target' = target
    BY <1>5 DEF RegisterUnrelated
  <2>2. pc = "unrelated" /\ k \in 1..Max(Ids)
    BY <1>2, <1>4, <1>5 DEF RegisterUnrelated
  <2>3. NextId(target) >= k
    <3>0. NextId(target) \in Nat \ {0} /\ \A e \in target : e.id < NextId(target)
      BY <1>3, NextIsNew
    <3>1. CASE k = 1
      BY <3>0, <3>1
    <3>2. CASE k # 1
      <4>1. k - 1 \in unrelated /\ k - 1 \notin unseen
        BY <1>4, <2>1, <2>2, <3>2
      <4>2. PICK e \in target : e.schema = -(k - 1)
        BY <1>2, <2>2, <4>1
      <4>3. e.id >= k - 1
        BY <1>2, <1>4, <2>2, <3>2, <4>2 DEF OthersFirst
      <4>. QED
        BY <1>3, <2>2, <3>0, <4>3
    <3>. QED
      BY <3>1, <3>2
  <2>4. -k \in Int /\ -k \notin Ids
    BY <2>2, SchemaAssumption
  <2>5. CASE target' = Registered(target, -k, -k) /\ unseen' = unseen \ {k}
    <3>1. OthersFirst(target') /\ target \subseteq target' /\ \E e \in target' : e.schema = -k
      <4>1. -k < 0 /\ -k >= -Max(Ids) => NextId(target) >= -(-k)
        BY <2>2, <2>3
      <4>. QED
        BY <1>2, <1>3, <2>4, <2>5, <4>1, RegisteredOthersFirst
    <3>2. \A j \in unrelated \ unseen' : /\ \E e \in target' : e.schema = -j
                                       /\ \A l \in unseen' : j < l
      <4>. SUFFICES ASSUME NEW j \in unrelated \ unseen'
                    PROVE  (\E e \in target' : e.schema = -j) /\ \A l \in unseen' : j < l
        OBVIOUS
      <4>1. CASE j = k
        <5>1. \A l \in unseen' : l \in Int /\ k <= l /\ l # k
          BY <1>2, <1>4, <2>1, <2>2, <2>5
        <5>. QED
          BY <2>2, <3>1, <4>1, <5>1
      <4>2. CASE j # k
        <5>1. j \in unrelated \ unseen
          BY <2>5, <4>2
        <5>. QED
          BY <1>2, <2>2, <2>5, <3>1, <5>1
      <4>. QED
        BY <4>1, <4>2
    <3>. QED
      BY <1>2, <2>2, <2>5, <3>1, <3>2
  <2>6. CASE pc' = "idle" /\ target' = target
    BY <1>2, <2>6
  <2>. QED
    BY <2>1, <2>5, <2>6
<1>6. CASE RegisterNaively
  <2>1. PICK e \in todo : target' = Registered(target, e.subject, e.schema)
    BY <1>6 DEF RegisterNaively
  <2>2. pc = "unrelated" /\ unseen = {} /\ unseen' = {}
    BY <1>6 DEF RegisterNaively
  <2>3. e.schema \in Ids /\ e.subject \in Int /\ e.schema \in Int /\ e.schema > 0
    BY ExportedIds, SchemaAssumption DEF TypeOK
  <2>4. NextId(target) > Max(Ids)
    <3>1. PICK f \in target : f.schema = -Max(Ids)
      BY <1>2, <1>4, <2>2
    <3>2. f.id >= Max(Ids)
      BY <1>2, <1>4, <3>1 DEF OthersFirst
    <3>3. f.id < NextId(target) /\ NextId(target) \in Nat
      BY <1>3, NextIsNew
    <3>. QED
      BY <1>3, <1>4, <3>2, <3>3
  <2>5. OthersFirst(target') /\ target \subseteq target'
    BY <1>2, <1>3, <2>1, <2>3, <2>4, RegisteredOthersFirst
  <2>. QED
    BY <1>2, <2>2, <2>5
<1>7. CASE StartNaive
  BY <1>2, <1>7 DEF StartNaive, registries
<1>8. CASE ~(RegisterUnrelated \/ RegisterNaively \/ StartNaive)
  <2>1. target' = target /\ (pc' = "unrelated" => pc = "unrelated" /\ unseen' = unseen)
    BY <1>1, <1>8 DEF Next, vars, registries, Importing, RegisterAtSource, Export, StartImport, Start, LookUp,
       LookedUp, PutImport, Post, PutReadWrite, ImportGate, SchemaCheck, Kill
  <2>. QED
    BY <1>2, <2>1
<1>. QED
  BY <1>5, <1>6, <1>7, <1>8

-----------------------------------------------------------------------------
(* The start, and the theorems. *)

\* On the source the versions of a subject count its IDs.
LEMMA InitiallyOK ==
  ASSUME Init
  PROVE  TypeOK /\ SchemaInv
<1>1. PICK home \in [Ids -> Subjects] :
        source = {Entry(home[i], Cardinality({j \in Ids : j <= i /\ home[j] = home[i]}), i, i) : i \in Ids}
  BY Zenon DEF Init
<1>. DEFINE H(i) == {j \in Ids : j <= i /\ home[j] = home[i]}
            entry == [i \in Ids |-> Entry(home[i], Cardinality(H(i)), i, i)]
<1>2. \A i \in Ids : IsFiniteSet(H(i)) /\ Cardinality(H(i)) \in Nat
  BY SchemaAssumption, FS_Subset, FS_CardinalityType
<1>3. ASSUME NEW i \in Ids, NEW j \in Ids, i < j, home[i] = home[j]
      PROVE  Cardinality(H(i)) # Cardinality(H(j))
  <2>1. H(i) \in SUBSET H(j) /\ j \in H(j) /\ j \notin H(i)
    <3>1. i \in Nat /\ j \in Nat /\ \A k \in Ids : k \in Nat
      BY IdsArePositive
    <3>2. ASSUME NEW k \in Ids, k <= i, home[k] = home[i]
          PROVE  k <= j /\ home[k] = home[j]
      <4>1. k \in Nat
        BY <3>1
      <4>. QED
        BY <1>3, <3>1, <3>2, <4>1
    <3>3. H(i) \in SUBSET H(j)
      BY <3>2
    <3>4. j \in H(j) /\ j \notin H(i)
      BY <1>3, <3>1
    <3>. QED
      BY <3>3, <3>4
  <2>. HIDE DEF H
  <2>. QED
    BY <1>2, <2>1, FS_Subset
<1>4. source = {entry[i] : i \in Ids}
  BY <1>1
<1>5. \A i \in Ids : /\ entry[i] \in [subject : Int, version : Nat, id : Nat, schema : Int]
                    /\ entry[i].subject = home[i] /\ entry[i].id = i /\ entry[i].schema = i
                    /\ entry[i].version = Cardinality(H(i))
  <2>1. \A i \in Ids : i \in Nat /\ home[i] \in Int
    <3>1. Subjects \subseteq Int
      BY SchemaAssumption
    <3>. QED
      BY <3>1, IdsArePositive
  <2>. HIDE DEF H
  <2>. QED
    BY <1>2, <2>1 DEF Entry
<1>6. entry \in Surjection(Ids, source)
  <2>. HIDE DEF entry
  <2>1. entry \in [Ids -> source]
    BY <1>4 DEF entry
  <2>. QED
    BY <1>4, <2>1, Zenon DEF Surjection
<1>7. IsFiniteSet(source)
  BY <1>6, SchemaAssumption, FS_Surjection, Zenon
<1>8. RegistryOK(source) /\ SourceInv
  <2>. HIDE DEF entry, H
  <2>1. ASSUME NEW i \in Ids, NEW j \in Ids, i # j, home[i] = home[j]
        PROVE  entry[i].version # entry[j].version
    BY <1>3, <1>5, <2>1, SchemaAssumption
  <2>2. RegistryOK(source)
    BY <1>4, <1>5, <2>1 DEF RegistryOK
  <2>3. SourceInv
    BY <1>4, <1>5, <1>7 DEF SourceInv
  <2>. QED
    BY <2>2, <2>3
<1>9. /\ RegistryOK(target) /\ IsFiniteSet(target)
      /\ \A e \in target : e.schema = -Max(Ids) - 1
  <2>1. PICK i \in 0..Max(Ids) : target = IF i = 0 THEN {} ELSE {Entry(-Max(Ids) - 1, 1, i, -Max(Ids) - 1)}
    BY Zenon DEF Init
  <2>2. CASE i = 0
    BY <2>1, <2>2, FS_EmptySet DEF RegistryOK
  <2>3. CASE i # 0
    <3>. DEFINE n == Entry(-Max(Ids) - 1, 1, i, -Max(Ids) - 1)
    <3>1. n \in [subject : Int, version : Nat, id : Nat, schema : Int] /\ n.schema = -Max(Ids) - 1
      BY IdsArePositive DEF Entry
    <3>2. target = {n}
      BY <2>1, <2>3
    <3>. HIDE DEF n
    <3>. QED
      BY <3>1, <3>2, FS_Singleton DEF RegistryOK
  <2>. QED
    BY <2>2, <2>3
<1>10. TypeOK
  BY <1>8, <1>9 DEF Init, TypeOK, RegistryOK
<1>11. ExportInv /\ ImportInv
  BY DEF Init, ExportInv, ImportInv, Importing
<1>12. NaiveInv
  <2>1. -Max(Ids) - 1 \notin Ids /\ ~(-Max(Ids) - 1 >= -Max(Ids))
    BY IdsArePositive
  <2>. QED
    BY <1>9, <2>1 DEF Init, NaiveInv
<1>. QED
  BY <1>8, <1>9, <1>10, <1>11, <1>12 DEF SchemaInv

LEMMA StepSchemaInv ==
  ASSUME TypeOK, SchemaInv, [Next]_vars
  PROVE  TypeOK' /\ SchemaInv'
  BY StepTypeOK, StepSource, StepTargetOK, StepExport, StepImportInv, StepNaiveInv DEF SchemaInv

\* The inductive invariant: both registries give a version one ID and an ID one
\* schema, what an import in progress has looked up is the target's or still to be
\* posted, and a registry without an import has the data's schemas only under IDs above those of the data.
THEOREM SchemaInvariant == Spec => [](TypeOK /\ SchemaInv)
<1>1. Init => TypeOK /\ SchemaInv
  BY InitiallyOK
<1>2. TypeOK /\ SchemaInv /\ [Next]_vars => TypeOK' /\ SchemaInv'
  BY StepSchemaInv
<1>. QED
  BY <1>1, <1>2, PTL DEF Spec

\* Types, and what makes a registry one, of both registries and all files.
THEOREM SchemaTypeCorrect == Spec => []TypeOK
  BY SchemaInvariant, PTL

\* Only a kill, or a change of mode that failed itself, leaves IMPORT mode behind
\* (schemas.py:94-106).
THEOREM ModeIsReset == Spec => []ImportModeIsLeft
<1>1. SchemaInv => ImportModeIsLeft
  BY DEF SchemaInv, ImportInv, ImportModeIsLeft
<1>. QED
  BY <1>1, SchemaInvariant, PTL

\* What schema-check passed stays true whatever is imported, registered, refused,
\* lost or killed afterwards (schemas.py:110-131).
THEOREM CheckedSchemasStay == Spec => []PassedCheckHolds
<1>1. Init => PassedCheckHolds
  BY DEF Init, PassedCheckHolds
<1>2. TypeOK /\ SchemaInv /\ PassedCheckHolds /\ [Next]_vars => PassedCheckHolds'
  <2>1. SUFFICES ASSUME TypeOK, SchemaInv, PassedCheckHolds, [Next]_vars,
                        NEW c \in checked', c.ok, NEW i \in c.ids
                 PROVE  schemas_ids(target', i) = {i}
    BY DEF PassedCheckHolds
  <2>2. schemas_ids(target, i) # {} => schemas_ids(target', i) = schemas_ids(target, i)
    BY <2>1, StepTargetOK
  <2>3. CASE c \in checked
    BY <2>1, <2>2, <2>3 DEF PassedCheckHolds
  <2>4. CASE c \notin checked
    <3>1. PICK ids \in (SUBSET Ids) \ {{}}, ok \in BOOLEAN :
            checked' = {[ids |-> ids, ok |-> ok]} /\ (ok => check_ids(ids))
      BY <2>1, <2>4, StepChecked
    <3>2. i \in Ids /\ i \in ids /\ check_ids(ids)
      BY <2>1, <3>1
    <3>3. schemas_ids(source, i) = schemas_ids(target, i)
      BY <3>2, Zenon DEF check_ids
    <3>4. schemas_ids(source, i) = {i}
      BY <2>1, <3>2, SourceMeans
    <3>. QED
      BY <2>2, <3>3, <3>4
  <2>. QED
    BY <2>3, <2>4
<1>. QED
  BY <1>1, <1>2, SchemaInvariant, PTL DEF Spec

\* An import that gets to its gate has left every ID of the data with its own
\* schema on the target, whatever was there before and whichever look-ups, posts
\* and replies were refused or lost: a conflict always ends it (schemas.py:80-107).
THEOREM ImportIsIdentical == Spec => []ImportEndsIdentical
<1>1. TypeOK /\ SchemaInv => ImportEndsIdentical
  <2>1. SUFFICES ASSUME TypeOK, SchemaInv, pc = "gate", NEW i \in Ids
                 PROVE  schemas_ids(target, i) = {i}
    BY DEF ImportEndsIdentical
  <2>2. PICK e \in export : e.id = i
    BY <2>1 DEF SchemaInv, ImportInv, Importing, ExportInv
  <2>3. e.id \notin unseen /\ e \notin todo
    BY <2>1 DEF SchemaInv, ImportInv
  <2>. QED
    BY <2>1, <2>2, <2>3 DEF SchemaInv, ImportInv
<1>. QED
  BY <1>1, SchemaInvariant, PTL

\* schema-check fails for every set of IDs on a registry that schemas were
\* registered with naively and never imported into (95-negative-tests.sh:82-83).
THEOREM NaiveRegistryFails == Spec => NaiveRegistryIsCaught
<1>1. TypeOK /\ SchemaInv /\ [Next]_vars =>
        [checked' # checked /\ "registered naively" \in used /\ "import" \notin used =>
           \A c \in checked' : ~c.ok]_vars
  <2>1. SUFFICES ASSUME TypeOK, SchemaInv, [Next]_vars, checked' # checked, "import" \notin used,
                        NEW c \in checked', c.ok
                 PROVE  FALSE
    OBVIOUS
  <2>2. PICK ids \in (SUBSET Ids) \ {{}}, ok \in BOOLEAN :
          checked' = {[ids |-> ids, ok |-> ok]} /\ (ok => check_ids(ids))
    BY <2>1, StepChecked
  <2>3. check_ids(ids)
    BY <2>1, <2>2
  <2>4. PICK i \in ids : TRUE
    BY <2>2
  <2>5. i \in Ids /\ schemas_ids(source, i) = schemas_ids(target, i)
    BY <2>3, <2>4, Zenon DEF check_ids
  <2>6. schemas_ids(source, i) = {i}
    BY <2>1, <2>5, SourceMeans
  <2>7. PICK e \in target : e.id = i /\ e.schema = i
    BY <2>5, <2>6 DEF schemas_ids
  <2>8. i > Max(Ids)
    BY <2>1, <2>5, <2>7, Zenon DEF SchemaInv, NaiveInv
  <2>. QED
    BY <2>5, <2>8, IdsArePositive
<1>. QED
  BY <1>1, SchemaInvariant, PTL DEF Spec, NaiveRegistryIsCaught
=============================================================================
