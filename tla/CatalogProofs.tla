--------------------------- MODULE CatalogProofs ---------------------------
(***************************************************************************)
(* Proofs about catalogs and their differences, for every pair of          *)
(* catalogs.                                                               *)
(***************************************************************************)
EXTENDS Catalog, InductionLemmas, FiniteSetTheorems

-----------------------------------------------------------------------------
(***************************************************************************)
(* Concatenation of the buckets.                                           *)
(***************************************************************************)

\* Concatenation keeps the elements, and is empty only if all the parts are.
LEMMA FlattenFacts ==
  ASSUME NEW S, NEW ss \in Seq(Seq(S)), ss # <<>>
  PROVE  /\ FlattenSeq(ss) \in Seq(S)
         /\ (FlattenSeq(ss) = <<>>) <=> \A i \in 1 .. Len(ss) : ss[i] = <<>>
<1>. DEFINE n == Len(ss)
            Computes(f) == f = [i \in 1 .. n |-> IF i = 1 THEN ss[i] ELSE f[i - 1] \o ss[i]]
            f == CHOOSE g : Computes(g)
            Good(m) == /\ f[m] \in Seq(S)
                       /\ (f[m] = <<>>) <=> \A j \in 1 .. m : ss[j] = <<>>
            T == {k \in Nat : k + 1 <= n => Good(k + 1)}
<1>1. n \in Nat /\ n >= 1 /\ \A i \in 1 .. n : ss[i] \in Seq(S)
  BY EmptySeq, LenProperties, ElementOfSeq
<1>2. Computes(f)
  <2>1. \E g : Computes(g)
    BY JoinsExist DEF IsJoining
  <2>. QED
    BY <2>1
<1>3. FlattenSeq(ss) = f[n]
  BY <1>1 DEF FlattenSeq
<1>. HIDE DEF f
<1>4. \A i \in 1 .. n : f[i] = IF i = 1 THEN ss[i] ELSE f[i - 1] \o ss[i]
  BY <1>2
<1>5. 0 \in T
  <2>1. 1 \in 1 .. n /\ f[1] = ss[1] /\ ss[1] \in Seq(S)
    BY <1>1, <1>4
  <2>2. \A j \in 1 .. 1 : j = 1
    OBVIOUS
  <2>. QED
    BY <2>1, <2>2
<1>6. ASSUME NEW k \in Nat, k \in T
      PROVE  k + 1 \in T
  <2>. SUFFICES ASSUME k + 2 <= n PROVE Good(k + 2)
    <3>1. (k + 1) + 1 = k + 2
      OBVIOUS
    <3>. QED
      BY <3>1
  <2>1. Good(k + 1)
    <3>1. k + 1 <= n
      BY <1>1
    <3>. QED
      BY <1>6, <3>1
  <2>2. f[k + 2] = f[k + 1] \o ss[k + 2] /\ ss[k + 2] \in Seq(S)
    <3>1. k + 2 \in 1 .. n /\ k + 2 # 1 /\ (k + 2) - 1 = k + 1
      BY <1>1
    <3>. QED
      BY <1>1, <1>4, <3>1
  <2>3. f[k + 2] \in Seq(S) /\ (f[k + 2] = <<>> <=> f[k + 1] = <<>> /\ ss[k + 2] = <<>>)
    BY <2>1, <2>2, ConcatProperties, ConcatEqualIffEmpty
  <2>4. \A j : j \in 1 .. k + 2 <=> j \in 1 .. k + 1 \/ j = k + 2
    OBVIOUS
  <2>. QED
    BY <2>1, <2>3, <2>4
<1>. HIDE DEF T
<1>7. n - 1 \in T
  <2>1. Nat \subseteq T
    BY <1>5, <1>6, NumberInduction
  <2>. QED
    BY <1>1, <2>1
<1>8. (n - 1) + 1 = n
  BY <1>1
<1>. QED
  BY <1>1, <1>3, <1>7, <1>8 DEF T

-----------------------------------------------------------------------------
(***************************************************************************)
(* Sorting of a bucket.                                                    *)
(***************************************************************************)

\* A bucket holds at most one operation per entity and key.
IsBucket(bucket, D) ==
  /\ \A o \in bucket : o.entity \in D /\ o.key \in D
  /\ \A o, p \in bucket : o.entity = p.entity /\ o.key = p.key => o = p

\* A sequence that has each member of a set once.
IsListing(q, S) ==
  /\ q \in Seq(S)
  /\ \A o \in S : \E i \in 1 .. Len(q) : q[i] = o
  /\ \A i, j \in 1 .. Len(q) : q[i] = q[j] => i = j

\* Sorting a bucket gives a sequence of its operations, each once, empty only for the empty one.
LEMMA SortFacts ==
  ASSUME NEW D \in SUBSET Nat, IsFiniteSet(D), NEW bucket, IsBucket(bucket, D),
         NEW U, bucket \subseteq U
  PROVE  /\ Sorted(bucket) \in Seq(U)
         /\ (Sorted(bucket) = <<>>) <=> bucket = {}
         /\ IsListing(Sorted(bucket), bucket)
<1>. DEFINE R == {q \in bucket \X bucket : InKeyOrder(q[1], q[2])}
            place == [o \in bucket |-> <<o.entity, o.key>>]
            n == Cardinality(bucket)
<1>1. IsFiniteSet(bucket)
  <2>1. place \in Injection(bucket, D \X D)
    BY DEF Injection, IsInjective, IsBucket
  <2>2. IsFiniteSet(D \X D)
    BY FS_Product
  <2>. QED
    BY <2>1, <2>2, FS_Injection
<1>2. n \in Nat
  BY <1>1, FS_CardinalityType
<1>3. IsOrder(R, bucket)
  <2>1. \A o \in bucket : o.entity \in Nat /\ o.key \in Nat
    BY DEF IsBucket
  <2>2. \A o, p \in bucket : <<o, p>> \in R <=> InKeyOrder(o, p)
    OBVIOUS
  <2>. HIDE DEF R
  <2>3. \A x \in bucket : <<x, x>> \notin R
    BY <2>1, <2>2 DEF InKeyOrder
  <2>4. \A x, y \in bucket : x = y \/ <<x, y>> \in R \/ <<y, x>> \in R
    <3>. TAKE x, y \in bucket
    <3>1. CASE x.entity = y.entity /\ x.key = y.key
      BY <3>1 DEF IsBucket
    <3>2. CASE x.entity # y.entity \/ x.key # y.key
      <4>1. x.entity \in Nat /\ x.key \in Nat /\ y.entity \in Nat /\ y.key \in Nat
        BY <2>1
      <4>2. InKeyOrder(x, y) \/ InKeyOrder(y, x)
        BY <3>2, <4>1 DEF InKeyOrder
      <4>. QED
        BY <2>2, <4>2
    <3>. QED
      BY <3>1, <3>2
  <2>5. \A x, y, z \in bucket : <<x, y>> \in R /\ <<y, z>> \in R => <<x, z>> \in R
    BY <2>1, <2>2 DEF InKeyOrder
  <2>. QED
    BY <2>3, <2>4, <2>5 DEF IsOrder
<1>4. \A o \in bucket : {p \in bucket : InKeyOrder(p, o)} = Below(R, bucket, o)
  BY DEF Below
<1>. HIDE DEF R
<1>5. \A i \in 1 .. n : \E o \in bucket : Cardinality(Below(R, bucket, o)) = i - 1
  BY <1>1, <1>3, RanksExist
<1>. DEFINE e(i) == CHOOSE o \in bucket : Cardinality({p \in bucket : InKeyOrder(p, o)}) = i - 1
<1>6. ASSUME NEW i \in 1 .. n
      PROVE  e(i) \in bucket /\ Cardinality(Below(R, bucket, e(i))) = i - 1
  <2>1. \E o \in bucket : Cardinality({p \in bucket : InKeyOrder(p, o)}) = i - 1
    BY <1>4, <1>5
  <2>2. e(i) \in bucket /\ Cardinality({p \in bucket : InKeyOrder(p, e(i))}) = i - 1
    BY <2>1
  <2>. HIDE DEF e
  <2>. QED
    BY <1>4, <2>2
<1>7. Sorted(bucket) = [i \in 1 .. n |-> e(i)]
  BY DEF Sorted
<1>. HIDE DEF e, n
<1>8. /\ [i \in 1 .. n |-> e(i)] \in Seq(U) /\ [i \in 1 .. n |-> e(i)] \in Seq(bucket)
      /\ Len([i \in 1 .. n |-> e(i)]) = n
  BY <1>2, <1>6
<1>9. (Sorted(bucket) = <<>>) <=> n = 0
  BY <1>2, <1>7, <1>8, EmptySeq
<1>10. n = 0 <=> bucket = {}
  BY <1>1, FS_EmptySet DEF n
<1>11. \A i, j \in 1 .. n : e(i) = e(j) => i = j
  BY <1>2, <1>6
<1>12. \A o \in bucket : \E i \in 1 .. n : e(i) = o
  <2>. DEFINE f == [i \in 1 .. n |-> e(i)]
  <2>1. f \in Injection(1 .. n, bucket)
    BY <1>6, <1>11 DEF Injection, IsInjective
  <2>2. IsFiniteSet(1 .. n) /\ Cardinality(1 .. n) = n
    BY <1>2, FS_Interval
  <2>3. f \in Surjection(1 .. n, bucket)
    BY <1>1, <2>1, <2>2, FS_Injection DEF n
  <2>. QED
    BY <2>3 DEF Surjection
<1>13. IsListing(Sorted(bucket), bucket)
  BY <1>2, <1>7, <1>8, <1>11, <1>12 DEF IsListing
<1>. QED
  BY <1>7, <1>8, <1>9, <1>10, <1>13

-----------------------------------------------------------------------------
(***************************************************************************)
(* The operations of the buckets.                                          *)
(***************************************************************************)

\* What the buckets hold, one by one.
LEMMA BucketMembers ==
  ASSUME NEW s, NEW t
  PROVE  LET b == Buckets(s, t) IN
         /\ b = <<b[1], b[2], b[3], b[4], b[5], b[6], b[7], b[8], b[9], b[10]>>
         /\ \A o : o \in b[1] <=> \E e \in Kept(s, t) : \E k \in DroppedIndexes(s[e], t[e]) :
                                    o = Operation("dropIndex", e, k, s[e].indexes[k])
         /\ \A o : o \in b[2] <=> \E e \in Kept(s, t) : \E k \in DroppedFields(s[e], t[e]) :
                                    o = Operation("dropField", e, k, s[e].fields[k])
         /\ \A o : o \in b[3] <=> \E e \in DOMAIN s \ DOMAIN t :
                                    o = Operation("dropEntity", e, e, s[e])
         /\ \A o : o \in b[4] <=> \E e \in Kept(s, t) :
                                    /\ s[e].name # t[e].name
                                    /\ o = Operation("renameEntity", e, e, t[e].name)
         /\ \A o : o \in b[5] <=> \E e \in DOMAIN t \ DOMAIN s :
                                    o = Operation("createEntity", e, e, t[e])
         /\ \A o : o \in b[6] <=> \E e \in Kept(s, t) : \E k \in RenamedFields(s[e], t[e]) :
                                    o = Operation("renameField", e, k, t[e].fields[k].name)
         /\ \A o : o \in b[7] <=> \E e \in Kept(s, t) : \E k \in AddedFields(s[e], t[e]) :
                                    o = Operation("addField", e, k, t[e].fields[k])
         /\ \A o : o \in b[8] <=> \E e \in Kept(s, t) : \E k \in AlteredFields(s[e], t[e]) :
                                    o = Operation("alterField", e, k, t[e].fields[k])
         /\ \A o : o \in b[9] <=> \E e \in Kept(s, t) :
                                    \E k \in RenamedIndexes(s[e], t[e]) \ ReplacedIndexes(s[e], t[e]) :
                                      o = Operation("renameIndex", e, k, t[e].indexes[k].name)
         /\ \A o : o \in b[10] <=> \E e \in Kept(s, t) : \E k \in CreatedIndexes(s[e], t[e]) :
                                    o = Operation("createIndex", e, k, t[e].indexes[k])
<1>. DEFINE b == Buckets(s, t)
<1>1. b = <<b[1], b[2], b[3], b[4], b[5], b[6], b[7], b[8], b[9], b[10]>>
  BY DEF Buckets
<1>2. /\ \A o : o \in b[1] <=> \E e \in Kept(s, t) : \E k \in DroppedIndexes(s[e], t[e]) :
                               o = Operation("dropIndex", e, k, s[e].indexes[k])
      /\ \A o : o \in b[2] <=> \E e \in Kept(s, t) : \E k \in DroppedFields(s[e], t[e]) :
                               o = Operation("dropField", e, k, s[e].fields[k])
  BY DEF Buckets, FieldOps
<1>3. /\ \A o : o \in b[3] <=> \E e \in DOMAIN s \ DOMAIN t :
                               o = Operation("dropEntity", e, e, s[e])
      /\ \A o : o \in b[4] <=> \E e \in Kept(s, t) :
                               /\ s[e].name # t[e].name
                               /\ o = Operation("renameEntity", e, e, t[e].name)
      /\ \A o : o \in b[5] <=> \E e \in DOMAIN t \ DOMAIN s :
                               o = Operation("createEntity", e, e, t[e])
  BY DEF Buckets
<1>4. /\ \A o : o \in b[6] <=> \E e \in Kept(s, t) : \E k \in RenamedFields(s[e], t[e]) :
                               o = Operation("renameField", e, k, t[e].fields[k].name)
      /\ \A o : o \in b[7] <=> \E e \in Kept(s, t) : \E k \in AddedFields(s[e], t[e]) :
                               o = Operation("addField", e, k, t[e].fields[k])
      /\ \A o : o \in b[8] <=> \E e \in Kept(s, t) : \E k \in AlteredFields(s[e], t[e]) :
                               o = Operation("alterField", e, k, t[e].fields[k])
  BY DEF Buckets, FieldOps
<1>5. /\ \A o : o \in b[9] <=> \E e \in Kept(s, t) :
                               \E k \in RenamedIndexes(s[e], t[e]) \ ReplacedIndexes(s[e], t[e]) :
                                 o = Operation("renameIndex", e, k, t[e].indexes[k].name)
      /\ \A o : o \in b[10] <=> \E e \in Kept(s, t) : \E k \in CreatedIndexes(s[e], t[e]) :
                               o = Operation("createIndex", e, k, t[e].indexes[k])
  BY DEF Buckets, FieldOps
<1>. HIDE DEF b
<1>6. b = Buckets(s, t)
  BY DEF b
<1>. QED
  BY <1>1, <1>2, <1>3, <1>4, <1>5, <1>6

\* Each difference has its operation.
LEMMA BucketsHave ==
  ASSUME NEW s, NEW t
  PROVE  LET b == Buckets(s, t) IN
         /\ b[3] = {} => DOMAIN s \ DOMAIN t = {}
         /\ b[5] = {} => DOMAIN t \ DOMAIN s = {}
         /\ \A e \in Kept(s, t) :
              /\ b[1] = {} => DroppedIndexes(s[e], t[e]) = {}
              /\ b[2] = {} => DroppedFields(s[e], t[e]) = {}
              /\ b[6] = {} => RenamedFields(s[e], t[e]) = {}
              /\ b[7] = {} => AddedFields(s[e], t[e]) = {}
              /\ b[8] = {} => AlteredFields(s[e], t[e]) = {}
              /\ b[9] = {} => RenamedIndexes(s[e], t[e]) \ ReplacedIndexes(s[e], t[e]) = {}
              /\ b[10] = {} => CreatedIndexes(s[e], t[e]) = {}
<1>. DEFINE b == Buckets(s, t)
<1>1. \A e \in DOMAIN s \ DOMAIN t : Operation("dropEntity", e, e, s[e]) \in b[3]
  BY BucketMembers
<1>2. \A e \in DOMAIN t \ DOMAIN s : Operation("createEntity", e, e, t[e]) \in b[5]
  BY BucketMembers
<1>3. ASSUME NEW e \in Kept(s, t)
      PROVE  /\ \A k \in DroppedIndexes(s[e], t[e]) :
                  Operation("dropIndex", e, k, s[e].indexes[k]) \in b[1]
             /\ \A k \in DroppedFields(s[e], t[e]) :
                  Operation("dropField", e, k, s[e].fields[k]) \in b[2]
             /\ \A k \in RenamedFields(s[e], t[e]) :
                  Operation("renameField", e, k, t[e].fields[k].name) \in b[6]
             /\ \A k \in AddedFields(s[e], t[e]) :
                  Operation("addField", e, k, t[e].fields[k]) \in b[7]
             /\ \A k \in AlteredFields(s[e], t[e]) :
                  Operation("alterField", e, k, t[e].fields[k]) \in b[8]
             /\ \A k \in RenamedIndexes(s[e], t[e]) \ ReplacedIndexes(s[e], t[e]) :
                  Operation("renameIndex", e, k, t[e].indexes[k].name) \in b[9]
             /\ \A k \in CreatedIndexes(s[e], t[e]) :
                  Operation("createIndex", e, k, t[e].indexes[k]) \in b[10]
  BY DEF Buckets, FieldOps
<1>. HIDE DEF b
<1>4. ASSUME NEW e \in Kept(s, t)
      PROVE  /\ b[1] = {} => DroppedIndexes(s[e], t[e]) = {}
             /\ b[2] = {} => DroppedFields(s[e], t[e]) = {}
             /\ b[6] = {} => RenamedFields(s[e], t[e]) = {}
             /\ b[7] = {} => AddedFields(s[e], t[e]) = {}
             /\ b[8] = {} => AlteredFields(s[e], t[e]) = {}
             /\ b[9] = {} => RenamedIndexes(s[e], t[e]) \ ReplacedIndexes(s[e], t[e]) = {}
             /\ b[10] = {} => CreatedIndexes(s[e], t[e]) = {}
  BY <1>3
<1>5. (b[3] = {} => DOMAIN s \ DOMAIN t = {}) /\ (b[5] = {} => DOMAIN t \ DOMAIN s = {})
  BY <1>1, <1>2
<1>. QED
  BY <1>4, <1>5 DEF b

\* The keys a catalog uses, at any level.
UsedKeys(s) == DOMAIN s \cup UNION {DOMAIN s[e].fields \cup DOMAIN s[e].indexes : e \in DOMAIN s}

\* There are finitely many of them.
LEMMA UsedKeysFinite ==
  ASSUME NEW s, IsCatalog(s)
  PROVE  UsedKeys(s) \in SUBSET Nat /\ IsFiniteSet(UsedKeys(s))
<1>. DEFINE inner == [e \in DOMAIN s |-> DOMAIN s[e].fields \cup DOMAIN s[e].indexes]
            Inner == {DOMAIN s[e].fields \cup DOMAIN s[e].indexes : e \in DOMAIN s}
<1>1. IsFiniteSet(DOMAIN s) /\ DOMAIN s \subseteq Nat
  BY KeysAssumption DEF IsCatalog, IsMap
<1>2. \A e \in DOMAIN s : IsEntity(s[e])
  BY DEF IsCatalog, IsMap
<1>3. ASSUME NEW e \in DOMAIN s
      PROVE  /\ DOMAIN s[e].fields \cup DOMAIN s[e].indexes \subseteq Nat
             /\ IsFiniteSet(DOMAIN s[e].fields \cup DOMAIN s[e].indexes)
  <2>1. IsFiniteSet(DOMAIN s[e].fields) /\ DOMAIN s[e].fields \subseteq Nat
    BY <1>2, KeysAssumption DEF IsEntity, IsMap
  <2>2. IsFiniteSet(DOMAIN s[e].indexes) /\ DOMAIN s[e].indexes \subseteq Nat
    BY <1>2, KeysAssumption DEF IsEntity, IsMap
  <2>. QED
    BY <2>1, <2>2, FS_Union
<1>4. IsFiniteSet(Inner)
  <2>1. inner \in Surjection(DOMAIN s, Inner)
    BY DEF Surjection
  <2>. QED
    BY <1>1, <2>1, FS_Surjection
<1>5. IsFiniteSet(UNION Inner)
  BY <1>3, <1>4, FS_UNION
<1>6. IsFiniteSet(DOMAIN s \cup UNION Inner)
  BY <1>1, <1>5, FS_Union
<1>7. UsedKeys(s) \in SUBSET Nat
  BY <1>1, <1>3 DEF UsedKeys
<1>. QED
  BY <1>6, <1>7 DEF UsedKeys

\* Each bucket has at most one operation per entity and key.
LEMMA BucketsAreBuckets ==
  ASSUME NEW s, NEW t, NEW i \in 1 .. 10
  PROVE  IsBucket(Buckets(s, t)[i], UsedKeys(s) \cup UsedKeys(t))
<1>. DEFINE b == Buckets(s, t)
            D == UsedKeys(s) \cup UsedKeys(t)
<1>1. \A e \in DOMAIN s \cup DOMAIN t : e \in D
  BY DEF UsedKeys
<1>2. \A e \in DOMAIN s : /\ \A k \in DOMAIN s[e].fields : k \in D
                          /\ \A k \in DOMAIN s[e].indexes : k \in D
  BY DEF UsedKeys
<1>3. \A e \in DOMAIN t : /\ \A k \in DOMAIN t[e].fields : k \in D
                          /\ \A k \in DOMAIN t[e].indexes : k \in D
  BY DEF UsedKeys
<1>4. \A kind, e, k, v : Operation(kind, e, k, v).entity = e /\ Operation(kind, e, k, v).key = k
  BY DEF Operation
<1>. HIDE DEF D
<1>5. \A e \in Kept(s, t) :
        /\ e \in D
        /\ \A k \in DroppedIndexes(s[e], t[e]) : k \in D
        /\ \A k \in CreatedIndexes(s[e], t[e]) : k \in D
        /\ \A k \in RenamedIndexes(s[e], t[e]) : k \in D
        /\ \A k \in DroppedFields(s[e], t[e]) : k \in D
        /\ \A k \in AddedFields(s[e], t[e]) : k \in D
        /\ \A k \in RenamedFields(s[e], t[e]) : k \in D
        /\ \A k \in AlteredFields(s[e], t[e]) : k \in D
  BY <1>1, <1>2, <1>3 DEF Kept, DroppedIndexes, CreatedIndexes, RenamedIndexes, ReplacedIndexes,
     DroppedFields, AddedFields, RenamedFields, AlteredFields
<1>6. IsBucket(b[1], D)
  BY <1>4, <1>5, BucketMembers DEF IsBucket
<1>7. IsBucket(b[2], D)
  BY <1>4, <1>5, BucketMembers DEF IsBucket
<1>8. IsBucket(b[3], D)
  BY <1>1, <1>4, BucketMembers DEF IsBucket
<1>9. IsBucket(b[4], D)
  BY <1>4, <1>5, BucketMembers DEF IsBucket
<1>10. IsBucket(b[5], D)
  BY <1>1, <1>4, BucketMembers DEF IsBucket
<1>11. IsBucket(b[6], D)
  BY <1>4, <1>5, BucketMembers DEF IsBucket
<1>12. IsBucket(b[7], D)
  BY <1>4, <1>5, BucketMembers DEF IsBucket
<1>13. IsBucket(b[8], D)
  BY <1>4, <1>5, BucketMembers DEF IsBucket
<1>14. IsBucket(b[9], D)
  BY <1>4, <1>5, BucketMembers DEF IsBucket
<1>15. IsBucket(b[10], D)
  BY <1>4, <1>5, BucketMembers DEF IsBucket
<1>16. i \in {1, 2, 3, 4, 5, 6, 7, 8, 9, 10}
  OBVIOUS
<1>. HIDE DEF b
<1>17. IsBucket(b[i], D)
  BY <1>6, <1>7, <1>8, <1>9, <1>10, <1>11, <1>12, <1>13, <1>14, <1>15, <1>16
<1>. QED
  BY <1>17 DEF b, D

\* The operations of all the buckets.
AllOps(s, t) == UNION {Buckets(s, t)[i] : i \in 1 .. 10}

\* The difference lists operations of the buckets, and is empty only if all of them are.
LEMMA DiffFacts ==
  ASSUME NEW s, NEW t, IsCatalog(s), IsCatalog(t)
  PROVE  /\ DiffCatalog(s, t) \in Seq(AllOps(s, t))
         /\ (DiffCatalog(s, t) = <<>>) <=> \A i \in 1 .. 10 : Buckets(s, t)[i] = {}
<1>. DEFINE b == Buckets(s, t)
            D == UsedKeys(s) \cup UsedKeys(t)
            U == AllOps(s, t)
            ss == [i \in 1 .. 10 |-> Sorted(b[i])]
<1>1. D \in SUBSET Nat /\ IsFiniteSet(D)
  BY UsedKeysFinite, FS_Union
<1>2. \A i \in 1 .. 10 : IsBucket(b[i], D) /\ b[i] \subseteq U
  BY BucketsAreBuckets DEF AllOps
<1>3. DOMAIN b = 1 .. 10
  <2>1. b = <<b[1], b[2], b[3], b[4], b[5], b[6], b[7], b[8], b[9], b[10]>>
    BY BucketMembers
  <2>. HIDE DEF b
  <2>. QED
    BY <2>1
<1>. HIDE DEF D, U, b
<1>4. \A i \in 1 .. 10 : Sorted(b[i]) \in Seq(U) /\ ((Sorted(b[i]) = <<>>) <=> b[i] = {})
  BY <1>1, <1>2, SortFacts
<1>5. ss \in Seq(Seq(U)) /\ Len(ss) = 10 /\ \A i \in 1 .. 10 : ss[i] = Sorted(b[i])
  BY <1>4
<1>6. DiffCatalog(s, t) = FlattenSeq(ss)
  BY <1>3 DEF DiffCatalog, b
<1>. HIDE DEF ss
<1>7. ss # <<>>
  <2>1. Len(ss) # 0
    BY <1>5
  <2>. QED
    BY <2>1, <1>5, EmptySeq
<1>8. FlattenSeq(ss) \in Seq(U) /\ ((FlattenSeq(ss) = <<>>) <=> \A i \in 1 .. Len(ss) : ss[i] = <<>>)
  BY <1>5, <1>7, FlattenFacts
<1>. QED
  BY <1>4, <1>5, <1>6, <1>8 DEF b, U

-----------------------------------------------------------------------------
(***************************************************************************)
(* Exactness of the difference.                                            *)
(***************************************************************************)

\* Two maps with the same keys and values are equal.
LEMMA EqualMaps ==
  ASSUME NEW f, NEW g, f = [k \in DOMAIN f |-> f[k]], g = [k \in DOMAIN g |-> g[k]],
         DOMAIN f = DOMAIN g, \A k \in DOMAIN f : f[k] = g[k]
  PROVE  f = g
OBVIOUS

\* Entities between which diff_entity and diff_indexes find no difference are equal.
LEMMA EqualEntities ==
  ASSUME NEW a, NEW b, IsEntity(a), IsEntity(b), a.name = b.name,
         DroppedFields(a, b) = {}, AddedFields(a, b) = {},
         RenamedFields(a, b) = {}, AlteredFields(a, b) = {},
         DroppedIndexes(a, b) = {}, CreatedIndexes(a, b) = {},
         RenamedIndexes(a, b) \ ReplacedIndexes(a, b) = {}
  PROVE  a = b
<1>1. a.fields = b.fields
  <2>1. DOMAIN a.fields = DOMAIN b.fields
    BY DEF DroppedFields, AddedFields
  <2>2. \A k \in DOMAIN a.fields : a.fields[k] \in Field /\ b.fields[k] \in Field
    BY <2>1 DEF IsEntity, IsMap
  <2>3. \A k \in DOMAIN a.fields : /\ a.fields[k].name = b.fields[k].name
                                   /\ a.fields[k].type = b.fields[k].type
                                   /\ a.fields[k].required = b.fields[k].required
    BY <2>1 DEF RenamedFields, AlteredFields, Kept
  <2>4. \A k \in DOMAIN a.fields : a.fields[k] = b.fields[k]
    BY <2>2, <2>3 DEF Field
  <2>5. a.fields = [k \in DOMAIN a.fields |-> a.fields[k]] /\ b.fields = [k \in DOMAIN b.fields |-> b.fields[k]]
    BY DEF IsEntity, IsMap
  <2>. QED
    BY <2>1, <2>4, <2>5, EqualMaps
<1>2. a.indexes = b.indexes
  <2>1. ReplacedIndexes(a, b) = {} /\ RenamedIndexes(a, b) = {}
    BY DEF DroppedIndexes
  <2>2. DOMAIN a.indexes = DOMAIN b.indexes
    BY DEF DroppedIndexes, CreatedIndexes
  <2>3. \A k \in DOMAIN a.indexes : a.indexes[k] \in Index /\ b.indexes[k] \in Index
    BY <2>2 DEF IsEntity, IsMap
  <2>4. \A k \in DOMAIN a.indexes : /\ a.indexes[k].name = b.indexes[k].name
                                    /\ a.indexes[k].fields = b.indexes[k].fields
                                    /\ a.indexes[k].unique = b.indexes[k].unique
    BY <2>1, <2>2 DEF RenamedIndexes, ReplacedIndexes, DefinitionChanged, Kept
  <2>5. \A k \in DOMAIN a.indexes : a.indexes[k] = b.indexes[k]
    BY <2>3, <2>4 DEF Index
  <2>6. a.indexes = [k \in DOMAIN a.indexes |-> a.indexes[k]] /\ b.indexes = [k \in DOMAIN b.indexes |-> b.indexes[k]]
    BY DEF IsEntity, IsMap
  <2>. QED
    BY <2>2, <2>5, <2>6, EqualMaps
<1>. QED
  BY <1>1, <1>2 DEF IsEntity

\* The difference of two catalogs (diff_catalog) is empty exactly when they are equal:
\* every difference the types allow gives rise to an operation.
THEOREM DiffIsExact ==
  ASSUME NEW s, NEW t, IsCatalog(s), IsCatalog(t)
  PROVE  (DiffCatalog(s, t) = <<>>) <=> s = t
<1>. DEFINE b == Buckets(s, t)
<1>1. SUFFICES (\A i \in 1 .. 10 : b[i] = {}) <=> s = t
  BY DiffFacts
<1>2. ASSUME \A i \in 1 .. 10 : b[i] = {}
      PROVE  s = t
  <2>1. /\ b[1] = {} /\ b[2] = {} /\ b[3] = {} /\ b[4] = {} /\ b[5] = {}
        /\ b[6] = {} /\ b[7] = {} /\ b[8] = {} /\ b[9] = {} /\ b[10] = {}
    BY <1>2
  <2>2. DOMAIN s = DOMAIN t
    BY <2>1, BucketsHave
  <2>3. ASSUME NEW e \in DOMAIN s
        PROVE  s[e] = t[e]
    <3>1. e \in Kept(s, t)
      BY <2>2 DEF Kept
    <3>2. s[e].name = t[e].name
      BY <2>1, <3>1, BucketMembers
    <3>3. DroppedFields(s[e], t[e]) = {} /\ AddedFields(s[e], t[e]) = {}
      BY <2>1, <3>1, BucketsHave
    <3>4. RenamedFields(s[e], t[e]) = {} /\ AlteredFields(s[e], t[e]) = {}
      BY <2>1, <3>1, BucketsHave
    <3>5. DroppedIndexes(s[e], t[e]) = {} /\ CreatedIndexes(s[e], t[e]) = {}
      BY <2>1, <3>1, BucketsHave
    <3>6. RenamedIndexes(s[e], t[e]) \ ReplacedIndexes(s[e], t[e]) = {}
      BY <2>1, <3>1, BucketsHave
    <3>7. IsEntity(s[e]) /\ IsEntity(t[e])
      BY <2>2 DEF IsCatalog, IsMap
    <3>. QED
      BY <3>2, <3>3, <3>4, <3>5, <3>6, <3>7, EqualEntities
  <2>4. s = [e \in DOMAIN s |-> s[e]] /\ t = [e \in DOMAIN t |-> t[e]]
    BY DEF IsCatalog, IsMap
  <2>. QED
    BY <2>2, <2>3, <2>4, EqualMaps
<1>3. ASSUME s = t, NEW i \in 1 .. 10
      PROVE  b[i] = {}
  <2>1. Kept(s, t) = DOMAIN s
    BY <1>3 DEF Kept
  <2>2. \A e \in DOMAIN s :
          /\ DroppedFields(s[e], t[e]) = {} /\ AddedFields(s[e], t[e]) = {}
          /\ RenamedFields(s[e], t[e]) = {} /\ AlteredFields(s[e], t[e]) = {}
          /\ DroppedIndexes(s[e], t[e]) = {} /\ CreatedIndexes(s[e], t[e]) = {}
          /\ RenamedIndexes(s[e], t[e]) = {}
    BY <1>3 DEF DroppedFields, AddedFields, RenamedFields, AlteredFields, DroppedIndexes,
                CreatedIndexes, RenamedIndexes, ReplacedIndexes, DefinitionChanged
  <2>3. b[1] = {} /\ b[2] = {} /\ b[3] = {}
    BY <1>3, <2>1, <2>2, BucketMembers
  <2>4. b[4] = {} /\ b[5] = {} /\ b[6] = {}
    BY <1>3, <2>1, <2>2, BucketMembers
  <2>5. b[7] = {} /\ b[8] = {} /\ b[9] = {} /\ b[10] = {}
    BY <1>3, <2>1, <2>2, BucketMembers
  <2>6. i \in {1, 2, 3, 4, 5, 6, 7, 8, 9, 10}
    OBVIOUS
  <2>. HIDE DEF b
  <2>. QED
    BY <2>3, <2>4, <2>5, <2>6
<1>. QED
  BY <1>2, <1>3

-----------------------------------------------------------------------------
(***************************************************************************)
(* Applying the operations.                                                *)
(***************************************************************************)

\* What an operation must carry for its kind.
IsOperation(o) ==
  /\ o.op \in {"createEntity", "dropEntity", "renameEntity", "addField", "alterField", "dropField",
               "renameField", "createIndex", "dropIndex", "renameIndex"}
  /\ o.op = "createEntity" => o.entity \in EntityKeys /\ IsEntity(o.value)
  /\ o.op \in {"addField", "alterField"} => o.key \in FieldKeys /\ o.value \in Field
  /\ o.op = "createIndex" => o.key \in IndexKeys /\ o.value \in Index
  /\ o.op \in {"renameEntity", "renameField", "renameIndex"} => o.value \in Names

\* The operations of a difference carry it.
LEMMA DiffOperations ==
  ASSUME NEW s, NEW t, IsCatalog(s), IsCatalog(t), NEW o \in AllOps(s, t)
  PROVE  IsOperation(o)
<1>. DEFINE b == Buckets(s, t)
<1>1. PICK i \in 1 .. 10 : o \in b[i]
  BY DEF AllOps
<1>2. \A e \in DOMAIN t : e \in EntityKeys /\ IsEntity(t[e])
  BY DEF IsCatalog, IsMap
<1>3. ASSUME NEW e \in DOMAIN t
      PROVE  /\ t[e].name \in Names
             /\ \A k \in DOMAIN t[e].fields : k \in FieldKeys /\ t[e].fields[k] \in Field
             /\ \A k \in DOMAIN t[e].indexes : k \in IndexKeys /\ t[e].indexes[k] \in Index
  BY <1>2 DEF IsEntity, IsMap
<1>4. ASSUME NEW e \in Kept(s, t)
      PROVE  /\ e \in DOMAIN t
             /\ \A k \in RenamedFields(s[e], t[e]) : t[e].fields[k].name \in Names
             /\ \A k \in AddedFields(s[e], t[e]) : k \in FieldKeys /\ t[e].fields[k] \in Field
             /\ \A k \in AlteredFields(s[e], t[e]) : k \in FieldKeys /\ t[e].fields[k] \in Field
             /\ \A k \in RenamedIndexes(s[e], t[e]) : t[e].indexes[k].name \in Names
             /\ \A k \in CreatedIndexes(s[e], t[e]) : k \in IndexKeys /\ t[e].indexes[k] \in Index
  BY <1>3 DEF Kept, RenamedFields, AddedFields, AlteredFields, RenamedIndexes, CreatedIndexes,
              ReplacedIndexes, Field, Index
<1>5. \A kind, e, k, v : LET p == Operation(kind, e, k, v)
                         IN  p.op = kind /\ p.entity = e /\ p.key = k /\ p.value = v
  BY DEF Operation
<1>6. o \in b[1] => IsOperation(o)
  BY <1>5, BucketMembers DEF IsOperation
<1>7. o \in b[2] => IsOperation(o)
  BY <1>5, BucketMembers DEF IsOperation
<1>8. o \in b[3] => IsOperation(o)
  BY <1>5, BucketMembers DEF IsOperation
<1>9. o \in b[4] => IsOperation(o)
  BY <1>3, <1>4, <1>5, BucketMembers DEF IsOperation
<1>10. o \in b[5] => IsOperation(o)
  BY <1>2, <1>5, BucketMembers DEF IsOperation
<1>11. o \in b[6] => IsOperation(o)
  BY <1>4, <1>5, BucketMembers DEF IsOperation
<1>12. o \in b[7] => IsOperation(o)
  BY <1>4, <1>5, BucketMembers DEF IsOperation
<1>13. o \in b[8] => IsOperation(o)
  BY <1>4, <1>5, BucketMembers DEF IsOperation
<1>14. o \in b[9] => IsOperation(o)
  BY <1>4, <1>5, BucketMembers DEF IsOperation
<1>15. o \in b[10] => IsOperation(o)
  BY <1>4, <1>5, BucketMembers DEF IsOperation
<1>16. i \in {1, 2, 3, 4, 5, 6, 7, 8, 9, 10}
  OBVIOUS
<1>. HIDE DEF b
<1>. QED
  BY <1>1, <1>6, <1>7, <1>8, <1>9, <1>10, <1>11, <1>12, <1>13, <1>14, <1>15, <1>16

\* Fields and indexes stay finite maps when an entry is set, removed or renamed.
LEMMA FieldMaps ==
  ASSUME NEW f, NEW k, IsMap(f, FieldKeys, LAMBDA field : field \in Field)
  PROVE  /\ \A v \in Field : k \in FieldKeys => IsMap(With(f, k, v), FieldKeys, LAMBDA field : field \in Field)
         /\ IsMap(Without(f, k), FieldKeys, LAMBDA field : field \in Field)
         /\ \A name \in Names : IsMap([f EXCEPT ![k].name = name], FieldKeys, LAMBDA field : field \in Field)
<1>1. IsFiniteSet(DOMAIN f \cup {k}) /\ IsFiniteSet(DOMAIN f \ {k})
  BY FS_AddElement, FS_RemoveElement DEF IsMap
<1>2. \A v \in Field : k \in FieldKeys => IsMap(With(f, k, v), FieldKeys, LAMBDA field : field \in Field)
  BY <1>1 DEF IsMap, With
<1>3. IsMap(Without(f, k), FieldKeys, LAMBDA field : field \in Field)
  BY <1>1 DEF IsMap, Without
<1>4. \A name \in Names : IsMap([f EXCEPT ![k].name = name], FieldKeys, LAMBDA field : field \in Field)
  BY DEF IsMap, Field
<1>. QED
  BY <1>2, <1>3, <1>4

\* Likewise for indexes.
LEMMA IndexMaps ==
  ASSUME NEW f, NEW k, IsMap(f, IndexKeys, LAMBDA index : index \in Index)
  PROVE  /\ \A v \in Index : k \in IndexKeys => IsMap(With(f, k, v), IndexKeys, LAMBDA index : index \in Index)
         /\ IsMap(Without(f, k), IndexKeys, LAMBDA index : index \in Index)
         /\ \A name \in Names : IsMap([f EXCEPT ![k].name = name], IndexKeys, LAMBDA index : index \in Index)
<1>1. IsFiniteSet(DOMAIN f \cup {k}) /\ IsFiniteSet(DOMAIN f \ {k})
  BY FS_AddElement, FS_RemoveElement DEF IsMap
<1>2. \A v \in Index : k \in IndexKeys => IsMap(With(f, k, v), IndexKeys, LAMBDA index : index \in Index)
  BY <1>1 DEF IsMap, With
<1>3. IsMap(Without(f, k), IndexKeys, LAMBDA index : index \in Index)
  BY <1>1 DEF IsMap, Without
<1>4. \A name \in Names : IsMap([f EXCEPT ![k].name = name], IndexKeys, LAMBDA index : index \in Index)
  BY DEF IsMap, Index
<1>. QED
  BY <1>2, <1>3, <1>4

\* A well-formed operation leaves an entity an entity.
LEMMA AppliedToEntity ==
  ASSUME NEW entity, IsEntity(entity), NEW o, IsOperation(o),
         o.op \notin {"createEntity", "dropEntity"}
  PROVE  IsEntity(ApplyToEntity(entity, o))
<1>. DEFINE Fields(f) == IsMap(f, FieldKeys, LAMBDA field : field \in Field)
            Indexes(f) == IsMap(f, IndexKeys, LAMBDA index : index \in Index)
<1>1. /\ entity = [name |-> entity.name, fields |-> entity.fields, indexes |-> entity.indexes]
      /\ entity.name \in Names /\ Fields(entity.fields) /\ Indexes(entity.indexes)
  BY DEF IsEntity
<1>2. \A n, f, i : n \in Names /\ Fields(f) /\ Indexes(i)
                     => IsEntity([name |-> n, fields |-> f, indexes |-> i])
  BY DEF IsEntity
<1>3. /\ \A k \in FieldKeys, v \in Field : Fields(With(entity.fields, k, v))
      /\ \A k : Fields(Without(entity.fields, k))
      /\ \A k : \A n \in Names : Fields([entity.fields EXCEPT ![k].name = n])
  BY <1>1, FieldMaps
<1>4. /\ \A k \in IndexKeys, v \in Index : Indexes(With(entity.indexes, k, v))
      /\ \A k : Indexes(Without(entity.indexes, k))
      /\ \A k : \A n \in Names : Indexes([entity.indexes EXCEPT ![k].name = n])
  BY <1>1, IndexMaps
<1>. HIDE DEF Fields, Indexes
<1>5. CASE o.op = "renameEntity"
  BY <1>1, <1>2, <1>5 DEF ApplyToEntity, IsOperation
<1>6. CASE o.op \in {"addField", "alterField"}
  BY <1>1, <1>2, <1>3, <1>6 DEF ApplyToEntity, IsOperation
<1>7. CASE o.op = "dropField"
  BY <1>1, <1>2, <1>3, <1>7 DEF ApplyToEntity, IsOperation
<1>8. CASE o.op = "renameField"
  <2>. DEFINE renamed == [entity.fields EXCEPT ![o.key].name = o.value]
  <2>1. Fields(renamed)
    BY <1>3, <1>8 DEF IsOperation
  <2>2. ApplyToEntity(entity, o) = [entity EXCEPT !.fields = renamed]
    BY <1>8 DEF ApplyToEntity
  <2>. HIDE DEF renamed
  <2>. QED
    BY <1>1, <1>2, <2>1, <2>2
<1>9. CASE o.op = "createIndex"
  BY <1>1, <1>2, <1>4, <1>9 DEF ApplyToEntity, IsOperation
<1>10. CASE o.op = "dropIndex"
  BY <1>1, <1>2, <1>4, <1>10 DEF ApplyToEntity, IsOperation
<1>11. CASE o.op = "renameIndex"
  <2>. DEFINE renamed == [entity.indexes EXCEPT ![o.key].name = o.value]
  <2>1. Indexes(renamed)
    BY <1>4, <1>11 DEF IsOperation
  <2>2. ApplyToEntity(entity, o) = [entity EXCEPT !.indexes = renamed]
    BY <1>11 DEF ApplyToEntity
  <2>. HIDE DEF renamed
  <2>. QED
    BY <1>1, <1>2, <2>1, <2>2
<1>. QED
  BY <1>5, <1>6, <1>7, <1>8, <1>9, <1>10, <1>11 DEF IsOperation

\* A backend that accepts a well-formed operation is left with a catalog.
LEMMA AppliedOperation ==
  ASSUME NEW catalog, IsCatalog(catalog), NEW o, IsOperation(o), OperationAccepted(catalog, o)
  PROVE  IsCatalog(ApplyOperation(catalog, o))
<1>1. /\ IsFiniteSet(DOMAIN catalog) /\ DOMAIN catalog \subseteq EntityKeys
      /\ \A e \in DOMAIN catalog : IsEntity(catalog[e])
  BY DEF IsCatalog, IsMap
<1>2. ASSUME NEW e \in EntityKeys, NEW v, IsEntity(v)
      PROVE  IsCatalog(With(catalog, e, v))
  <2>1. IsFiniteSet(DOMAIN catalog \cup {e})
    BY <1>1, FS_AddElement
  <2>. QED
    BY <1>1, <1>2, <2>1 DEF IsCatalog, IsMap, With
<1>3. ASSUME NEW e
      PROVE  IsCatalog(Without(catalog, e))
  <2>1. IsFiniteSet(DOMAIN catalog \ {e})
    BY <1>1, FS_RemoveElement
  <2>. QED
    BY <1>1, <2>1 DEF IsCatalog, IsMap, Without
<1>4. CASE o.op = "createEntity"
  BY <1>2, <1>4 DEF ApplyOperation, IsOperation
<1>5. CASE o.op = "dropEntity"
  BY <1>3, <1>5 DEF ApplyOperation
<1>6. CASE o.op \notin {"createEntity", "dropEntity"}
  <2>1. o.entity \in DOMAIN catalog /\ IsEntity(catalog[o.entity])
    BY <1>1, <1>6 DEF OperationAccepted
  <2>2. IsEntity(ApplyToEntity(catalog[o.entity], o))
    BY <1>6, <2>1, AppliedToEntity
  <2>3. ApplyOperation(catalog, o) = With(catalog, o.entity, ApplyToEntity(catalog[o.entity], o))
    BY <1>6 DEF ApplyOperation
  <2>. QED
    BY <1>1, <1>2, <2>1, <2>2, <2>3
<1>. QED
  BY <1>4, <1>5, <1>6

\* A sequence that lists the first m of some sets, one after the other.
Lists(q, B, m) ==
  /\ \A i \in 1 .. Len(q) : \E a \in 1 .. m : q[i] \in B[a]
  /\ \A a \in 1 .. m : \A o \in B[a] : \E i \in 1 .. Len(q) : q[i] = o
  /\ \A i, j \in 1 .. Len(q) : q[i] = q[j] => i = j
  /\ \A i, j \in 1 .. Len(q) : \A a, b \in 1 .. m : i < j /\ q[i] \in B[a] /\ q[j] \in B[b] => a <= b

\* It goes on with a listing of the next set.
LEMMA ListsMore ==
  ASSUME NEW U, NEW q \in Seq(U), NEW B, NEW m \in Nat, Lists(q, B, m),
         NEW r \in Seq(U), IsListing(r, B[m + 1]),
         \A a, b \in 1 .. m + 1 : \A o : o \in B[a] /\ o \in B[b] => a = b
  PROVE  q \o r \in Seq(U) /\ Lists(q \o r, B, m + 1)
<1>. DEFINE n == Len(q)
            k == Len(r)
            c == q \o r
<1>1. n \in Nat /\ k \in Nat
  BY LenProperties
<1>2. /\ c \in Seq(U) /\ Len(c) = n + k
      /\ \A i \in 1 .. n + k : c[i] = IF i <= n THEN q[i] ELSE r[i - n]
  BY ConcatProperties
<1>3. /\ \A i \in 1 .. k : r[i] \in B[m + 1]
      /\ \A o \in B[m + 1] : \E i \in 1 .. k : r[i] = o
      /\ \A i, j \in 1 .. k : r[i] = r[j] => i = j
  BY ElementOfSeq DEF IsListing
<1>4. /\ \A i \in 1 .. n : \E a \in 1 .. m : q[i] \in B[a]
      /\ \A a \in 1 .. m : \A o \in B[a] : \E i \in 1 .. n : q[i] = o
      /\ \A i, j \in 1 .. n : q[i] = q[j] => i = j
      /\ \A i, j \in 1 .. n : \A a, b \in 1 .. m : i < j /\ q[i] \in B[a] /\ q[j] \in B[b] => a <= b
  BY DEF Lists
<1>. HIDE DEF n, k, c
<1>5. \A i \in 1 .. n : i \in 1 .. n + k /\ c[i] = q[i]
  BY <1>1, <1>2
<1>6. \A i \in 1 .. k : n + i \in 1 .. n + k /\ c[n + i] = r[i]
  <2>. TAKE i \in 1 .. k
  <2>1. n + i \in 1 .. n + k /\ ~ (n + i <= n) /\ (n + i) - n = i
    BY <1>1
  <2>. QED
    BY <1>2, <2>1
<1>7. \A i \in 1 .. n + k : i \in 1 .. n \/ (i - n \in 1 .. k /\ n + (i - n) = i)
  BY <1>1
<1>8. \A i \in 1 .. n + k : i \notin 1 .. n => c[i] \in B[m + 1] /\ i - n \in 1 .. k /\ c[i] = r[i - n]
  BY <1>3, <1>6, <1>7
<1>9. \A a \in 1 .. m : a \in 1 .. m + 1 /\ a # m + 1 /\ a <= m + 1
  OBVIOUS
<1>10. m + 1 \in 1 .. m + 1 /\ \A a \in 1 .. m + 1 : a \in 1 .. m \/ a = m + 1
  OBVIOUS
<1>11. \A i \in 1 .. n + k : \E a \in 1 .. m + 1 : c[i] \in B[a]
  <2>. TAKE i \in 1 .. n + k
  <2>1. CASE i \in 1 .. n
    <3>1. PICK a \in 1 .. m : q[i] \in B[a]
      BY <1>4, <2>1
    <3>. QED
      BY <1>5, <1>9, <2>1, <3>1
  <2>2. CASE i \notin 1 .. n
    BY <1>8, <1>10, <2>2
  <2>. QED
    BY <2>1, <2>2
<1>12. ASSUME NEW a \in 1 .. m + 1, NEW o \in B[a]
       PROVE  \E i \in 1 .. n + k : c[i] = o
  <2>1. CASE a \in 1 .. m
    <3>1. PICK i \in 1 .. n : q[i] = o
      BY <1>4, <2>1
    <3>. QED
      BY <1>5, <3>1
  <2>2. CASE a = m + 1
    <3>1. PICK i \in 1 .. k : r[i] = o
      BY <1>3, <2>2
    <3>. QED
      BY <1>6, <3>1
  <2>. QED
    BY <1>10, <2>1, <2>2
<1>13. \A i \in 1 .. n : \E a \in 1 .. m : c[i] \in B[a] /\ c[i] \notin B[m + 1]
  <2>. TAKE i \in 1 .. n
  <2>1. PICK a \in 1 .. m : c[i] \in B[a]
    BY <1>4, <1>5
  <2>2. c[i] \notin B[m + 1]
    BY <1>9, <1>10, <2>1
  <2>. QED
    BY <2>1, <2>2
<1>14. ASSUME NEW i \in 1 .. n + k, NEW j \in 1 .. n + k, c[i] = c[j]
       PROVE  i = j
  <2>1. CASE i \in 1 .. n /\ j \in 1 .. n
    BY <1>4, <1>5, <1>14, <2>1
  <2>2. CASE i \notin 1 .. n /\ j \notin 1 .. n
    <3>1. i - n \in 1 .. k /\ j - n \in 1 .. k /\ r[i - n] = r[j - n]
      BY <1>8, <1>14, <2>2
    <3>2. i - n = j - n
      BY <1>3, <3>1
    <3>. QED
      BY <1>1, <3>2
  <2>3. CASE (i \in 1 .. n /\ j \notin 1 .. n) \/ (i \notin 1 .. n /\ j \in 1 .. n)
    BY <1>8, <1>13, <1>14, <2>3
  <2>. QED
    BY <2>1, <2>2, <2>3
<1>15. ASSUME NEW i \in 1 .. n + k, NEW j \in 1 .. n + k, NEW a \in 1 .. m + 1, NEW b \in 1 .. m + 1,
              i < j, c[i] \in B[a], c[j] \in B[b]
       PROVE  a <= b
  <2>1. CASE b = m + 1
    BY <2>1
  <2>2. CASE b # m + 1
    <3>1. b \in 1 .. m /\ c[j] \notin B[m + 1]
      BY <1>10, <1>15, <2>2
    <3>2. j \in 1 .. n
      BY <1>8, <3>1
    <3>3. i \in 1 .. n
      BY <1>1, <1>15, <3>2
    <3>4. c[i] \notin B[m + 1]
      BY <1>13, <3>3
    <3>5. a \in 1 .. m
      BY <1>10, <1>15, <3>4
    <3>. QED
      BY <1>4, <1>5, <1>15, <3>1, <3>2, <3>3, <3>5
  <2>. QED
    BY <2>1, <2>2
<1>16. Len(c) = n + k
  BY <1>2
<1>17. Lists(c, B, m + 1)
  BY <1>11, <1>12, <1>14, <1>15, <1>16 DEF Lists
<1>. QED
  BY <1>2, <1>17 DEF c

\* Concatenated listings of disjoint sets list the sets in order.
LEMMA FlattenLists ==
  ASSUME NEW U, NEW ss \in Seq(Seq(U)), NEW n \in Nat, Len(ss) = n + 1, NEW B,
         \A a \in 1 .. n + 1 : IsListing(ss[a], B[a]),
         \A a, b \in 1 .. n + 1 : \A o : o \in B[a] /\ o \in B[b] => a = b
  PROVE  FlattenSeq(ss) \in Seq(U) /\ Lists(FlattenSeq(ss), B, n + 1)
<1>. DEFINE N == n + 1
            Computes(f) == f = [i \in 1 .. N |-> IF i = 1 THEN ss[i] ELSE f[i - 1] \o ss[i]]
            f == CHOOSE g : Computes(g)
            Good(m) == f[m] \in Seq(U) /\ Lists(f[m], B, m)
            T == {k \in Nat : k + 1 <= N => Good(k + 1)}
<1>1. N \in Nat /\ N >= 1 /\ \A i \in 1 .. N : ss[i] \in Seq(U)
  BY LenProperties, ElementOfSeq
<1>2. Computes(f)
  <2>1. ss # <<>>
    BY EmptyLength
  <2>2. PICK g : IsJoining(g, ss)
    BY <2>1, JoinsExist
  <2>3. Computes(g)
    BY <2>2 DEF IsJoining
  <2>. QED
    BY <2>3
<1>3. FlattenSeq(ss) = f[N]
  BY <1>1 DEF FlattenSeq
<1>. HIDE DEF f
<1>4. \A i \in 1 .. N : f[i] = IF i = 1 THEN ss[i] ELSE f[i - 1] \o ss[i]
  BY <1>2
<1>. HIDE DEF N
<1>5. 0 \in T
  <2>. DEFINE q == ss[1]
  <2>1. 1 \in 1 .. N /\ f[1] = q /\ q \in Seq(U) /\ IsListing(q, B[1])
    BY <1>1, <1>4 DEF N
  <2>2. \A a \in 1 .. 1 : a = 1
    OBVIOUS
  <2>3. 1 \in 1 .. 1 /\ 1 <= 1 /\ 0 + 1 = 1
    OBVIOUS
  <2>. HIDE DEF q
  <2>4. \A i \in 1 .. Len(q) : q[i] \in B[1]
    BY <2>1, ElementOfSeq DEF IsListing
  <2>5. Lists(q, B, 1)
    BY <2>1, <2>2, <2>3, <2>4 DEF Lists, IsListing
  <2>6. Good(0 + 1)
    BY <2>1, <2>3, <2>5
  <2>. QED
    BY <2>6
<1>6. ASSUME NEW k \in Nat, k \in T
      PROVE  k + 1 \in T
  <2>. SUFFICES ASSUME (k + 1) + 1 <= N PROVE Good((k + 1) + 1)
    OBVIOUS
  <2>. DEFINE m == k + 1
  <2>1. m \in Nat /\ m <= N /\ m + 1 \in 1 .. N /\ m + 1 # 1 /\ (m + 1) - 1 = m
    BY <1>1
  <2>2. Good(m)
    BY <1>6, <2>1
  <2>. HIDE DEF m
  <2>3. f[m + 1] = f[m] \o ss[m + 1] /\ ss[m + 1] \in Seq(U) /\ IsListing(ss[m + 1], B[m + 1])
    BY <1>1, <1>4, <2>1 DEF N
  <2>4. \A a, b \in 1 .. m + 1 : \A o : o \in B[a] /\ o \in B[b] => a = b
    <3>1. \A a \in 1 .. m + 1 : a \in 1 .. n + 1
      BY <1>1, <2>1 DEF N
    <3>. QED
      BY <3>1
  <2>5. Good(m + 1)
    BY <2>1, <2>2, <2>3, <2>4, ListsMore
  <2>. QED
    BY <2>5 DEF m
<1>. HIDE DEF T
<1>7. n \in T
  BY <1>5, <1>6, NumberInduction
<1>. QED
  BY <1>1, <1>3, <1>7 DEF T, N

-----------------------------------------------------------------------------
(***************************************************************************)
(* What is due: the differences by kind, entity and key, and the order in  *)
(* which their operations are listed.                                      *)
(***************************************************************************)

\* The bucket of an operation.
Place ==
  [dropIndex |-> 1, dropField |-> 2, dropEntity |-> 3, renameEntity |-> 4, createEntity |-> 5,
   renameField |-> 6, addField |-> 7, alterField |-> 8, renameIndex |-> 9, createIndex |-> 10]

\* What is due for a field or an index of a kept entity.
DueIn(a, b, kind, k) ==
  \/ kind = "dropIndex" /\ k \in DroppedIndexes(a, b)
  \/ kind = "dropField" /\ k \in DroppedFields(a, b)
  \/ kind = "renameField" /\ k \in RenamedFields(a, b)
  \/ kind = "addField" /\ k \in AddedFields(a, b)
  \/ kind = "alterField" /\ k \in AlteredFields(a, b)
  \/ kind = "renameIndex" /\ k \in RenamedIndexes(a, b) \ ReplacedIndexes(a, b)
  \/ kind = "createIndex" /\ k \in CreatedIndexes(a, b)

IsDue(s, t, kind, e, k) ==
  \/ kind = "dropEntity" /\ k = e /\ e \in DOMAIN s \ DOMAIN t
  \/ kind = "createEntity" /\ k = e /\ e \in DOMAIN t \ DOMAIN s
  \/ kind = "renameEntity" /\ k = e /\ e \in Kept(s, t) /\ s[e].name # t[e].name
  \/ e \in Kept(s, t) /\ DueIn(s[e], t[e], kind, k)

\* What an operation for it carries.
Carries(t, o) ==
  /\ o.op = "renameEntity" => o.value = t[o.entity].name
  /\ o.op = "createEntity" => o.value = t[o.entity]
  /\ o.op = "renameField" => o.value = t[o.entity].fields[o.key].name
  /\ o.op \in {"addField", "alterField"} => o.value = t[o.entity].fields[o.key]
  /\ o.op = "renameIndex" => o.value = t[o.entity].indexes[o.key].name
  /\ o.op = "createIndex" => o.value = t[o.entity].indexes[o.key]

Mark(o) == <<o.op, o.entity, o.key>>

\* The operations of a bucket are of one kind, due, and carry what is needed.
LEMMA BucketDue ==
  ASSUME NEW s, NEW t, NEW i \in 1 .. 10, NEW o \in Buckets(s, t)[i]
  PROVE  /\ o.op \in DOMAIN Place /\ Place[o.op] = i
         /\ IsDue(s, t, o.op, o.entity, o.key) /\ Carries(t, o)
<1>. DEFINE b == Buckets(s, t)
            Good(n) == /\ o.op \in DOMAIN Place /\ Place[o.op] = n
                       /\ IsDue(s, t, o.op, o.entity, o.key) /\ Carries(t, o)
<1>1. \A kind, e, k, v : LET p == Operation(kind, e, k, v)
                         IN  p.op = kind /\ p.entity = e /\ p.key = k /\ p.value = v
  BY DEF Operation
<1>2. o \in b[1] => Good(1)
  BY <1>1, BucketMembers DEF Place, IsDue, DueIn, Carries
<1>3. o \in b[2] => Good(2)
  BY <1>1, BucketMembers DEF Place, IsDue, DueIn, Carries
<1>4. o \in b[3] => Good(3)
  BY <1>1, BucketMembers DEF Place, IsDue, DueIn, Carries
<1>5. o \in b[4] => Good(4)
  BY <1>1, BucketMembers DEF Place, IsDue, DueIn, Carries
<1>6. o \in b[5] => Good(5)
  BY <1>1, BucketMembers DEF Place, IsDue, DueIn, Carries
<1>7. o \in b[6] => Good(6)
  BY <1>1, BucketMembers DEF Place, IsDue, DueIn, Carries
<1>8. o \in b[7] => Good(7)
  BY <1>1, BucketMembers DEF Place, IsDue, DueIn, Carries
<1>9. o \in b[8] => Good(8)
  BY <1>1, BucketMembers DEF Place, IsDue, DueIn, Carries
<1>10. o \in b[9] => Good(9)
  BY <1>1, BucketMembers DEF Place, IsDue, DueIn, Carries
<1>11. o \in b[10] => Good(10)
  BY <1>1, BucketMembers DEF Place, IsDue, DueIn, Carries
<1>12. i \in {1, 2, 3, 4, 5, 6, 7, 8, 9, 10} /\ o \in b[i]
  OBVIOUS
<1>. HIDE DEF b, Good
<1>13. Good(i)
  BY <1>2, <1>3, <1>4, <1>5, <1>6, <1>7, <1>8, <1>9, <1>10, <1>11, <1>12
<1>. QED
  BY <1>13 DEF Good

\* All that is due has its operation.
LEMMA DueHasOperation ==
  ASSUME NEW s, NEW t, NEW kind, NEW e, NEW k, IsDue(s, t, kind, e, k)
  PROVE  \E o \in AllOps(s, t) : Mark(o) = <<kind, e, k>>
<1>. DEFINE b == Buckets(s, t)
            Listed(p) == \E i \in 1 .. 10 : p \in b[i]
<1>1. \A v : Mark(Operation(kind, e, k, v)) = <<kind, e, k>>
  BY DEF Operation, Mark
<1>2. SUFFICES \E v : Listed(Operation(kind, e, k, v))
  BY <1>1 DEF AllOps
<1>3. CASE kind = "dropEntity" /\ k = e /\ e \in DOMAIN s \ DOMAIN t
  <2>1. Operation(kind, e, k, s[e]) \in b[3]
    BY <1>3, BucketMembers
  <2>. QED
    BY <2>1
<1>4. CASE kind = "createEntity" /\ k = e /\ e \in DOMAIN t \ DOMAIN s
  <2>1. Operation(kind, e, k, t[e]) \in b[5]
    BY <1>4, BucketMembers
  <2>. QED
    BY <2>1
<1>5. CASE kind = "renameEntity" /\ k = e /\ e \in Kept(s, t) /\ s[e].name # t[e].name
  <2>1. Operation(kind, e, k, t[e].name) \in b[4]
    BY <1>5, BucketMembers
  <2>. QED
    BY <2>1
<1>6. CASE e \in Kept(s, t) /\ DueIn(s[e], t[e], kind, k)
  <2>1. CASE kind = "dropIndex" /\ k \in DroppedIndexes(s[e], t[e])
    <3>1. Operation(kind, e, k, s[e].indexes[k]) \in b[1]
      BY <1>6, <2>1, BucketMembers
    <3>. QED
      BY <3>1
  <2>2. CASE kind = "dropField" /\ k \in DroppedFields(s[e], t[e])
    <3>1. Operation(kind, e, k, s[e].fields[k]) \in b[2]
      BY <1>6, <2>2, BucketMembers
    <3>. QED
      BY <3>1
  <2>3. CASE kind = "renameField" /\ k \in RenamedFields(s[e], t[e])
    <3>1. Operation(kind, e, k, t[e].fields[k].name) \in b[6]
      BY <1>6, <2>3, BucketMembers
    <3>. QED
      BY <3>1
  <2>4. CASE kind = "addField" /\ k \in AddedFields(s[e], t[e])
    <3>1. Operation(kind, e, k, t[e].fields[k]) \in b[7]
      BY <1>6, <2>4, BucketMembers
    <3>. QED
      BY <3>1
  <2>5. CASE kind = "alterField" /\ k \in AlteredFields(s[e], t[e])
    <3>1. Operation(kind, e, k, t[e].fields[k]) \in b[8]
      BY <1>6, <2>5, BucketMembers
    <3>. QED
      BY <3>1
  <2>6. CASE kind = "renameIndex" /\ k \in RenamedIndexes(s[e], t[e]) \ ReplacedIndexes(s[e], t[e])
    <3>1. Operation(kind, e, k, t[e].indexes[k].name) \in b[9]
      BY <1>6, <2>6, BucketMembers
    <3>. QED
      BY <3>1
  <2>7. CASE kind = "createIndex" /\ k \in CreatedIndexes(s[e], t[e])
    <3>1. Operation(kind, e, k, t[e].indexes[k]) \in b[10]
      BY <1>6, <2>7, BucketMembers
    <3>. QED
      BY <3>1
  <2>. HIDE DEF b
  <2>. QED
    BY <1>6, <2>1, <2>2, <2>3, <2>4, <2>5, <2>6, <2>7 DEF DueIn
<1>. HIDE DEF b
<1>. QED
  BY <1>3, <1>4, <1>5, <1>6 DEF IsDue

\* The difference lists what is due: all of it, each once, bucket by bucket.
Listing(s, t, q) ==
  /\ q \in Seq(AllOps(s, t))
  /\ \A i \in 1 .. Len(q) :
       q[i].op \in DOMAIN Place /\ IsDue(s, t, q[i].op, q[i].entity, q[i].key) /\ Carries(t, q[i])
  /\ \A kind, e, k : IsDue(s, t, kind, e, k) => \E i \in 1 .. Len(q) : Mark(q[i]) = <<kind, e, k>>
  /\ \A i, j \in 1 .. Len(q) : Mark(q[i]) = Mark(q[j]) => i = j
  /\ \A i, j \in 1 .. Len(q) : i < j => Place[q[i].op] <= Place[q[j].op]

\* The difference of two catalogs (diff_catalog) is such a list.
LEMMA DiffLists ==
  ASSUME NEW s, NEW t, IsCatalog(s), IsCatalog(t)
  PROVE  Listing(s, t, DiffCatalog(s, t))
<1>. DEFINE b == Buckets(s, t)
            D == UsedKeys(s) \cup UsedKeys(t)
            U == AllOps(s, t)
            ss == [i \in 1 .. 10 |-> Sorted(b[i])]
            q == DiffCatalog(s, t)
            n == Len(q)
<1>1. D \in SUBSET Nat /\ IsFiniteSet(D)
  BY UsedKeysFinite, FS_Union
<1>2. \A i \in 1 .. 10 : IsBucket(b[i], D) /\ b[i] \subseteq U
  BY BucketsAreBuckets DEF AllOps
<1>3. \A o \in U : \E i \in 1 .. 10 : o \in b[i]
  BY DEF AllOps
<1>4. \A i \in 1 .. 10 : \A o \in b[i] :
        /\ o.op \in DOMAIN Place /\ Place[o.op] = i
        /\ IsDue(s, t, o.op, o.entity, o.key) /\ Carries(t, o)
  BY BucketDue
<1>5. \A kind, e, k : IsDue(s, t, kind, e, k) => \E o \in U : Mark(o) = <<kind, e, k>>
  BY DueHasOperation
<1>6. DOMAIN b = 1 .. 10
  <2>1. b = <<b[1], b[2], b[3], b[4], b[5], b[6], b[7], b[8], b[9], b[10]>>
    BY BucketMembers
  <2>. HIDE DEF b
  <2>. QED
    BY <2>1
<1>7. q = FlattenSeq(ss)
  BY <1>6 DEF DiffCatalog
<1>. HIDE DEF D, U, b, q
<1>8. \A i \in 1 .. 10 : Sorted(b[i]) \in Seq(U) /\ IsListing(Sorted(b[i]), b[i])
  BY <1>1, <1>2, SortFacts
<1>9. ss \in Seq(Seq(U)) /\ Len(ss) = 9 + 1 /\ \A i \in 1 .. 10 : IsListing(ss[i], b[i])
  BY <1>8
<1>10. \A i, j \in 1 .. 9 + 1 : \A o : o \in b[i] /\ o \in b[j] => i = j
  BY <1>4
<1>. HIDE DEF ss
<1>11. q \in Seq(U) /\ Lists(q, b, 10)
  <2>. DEFINE last == 9
  <2>1. /\ last \in Nat /\ Len(ss) = last + 1 /\ last + 1 = 10
        /\ \A i \in 1 .. last + 1 : IsListing(ss[i], b[i])
        /\ \A i, j \in 1 .. last + 1 : \A o : o \in b[i] /\ o \in b[j] => i = j
    BY <1>9, <1>10
  <2>. HIDE DEF last
  <2>2. FlattenSeq(ss) \in Seq(U) /\ Lists(FlattenSeq(ss), b, last + 1)
    BY <1>9, <2>1, FlattenLists
  <2>. QED
    BY <1>7, <2>1, <2>2
<1>12. /\ \A i \in 1 .. n : \E a \in 1 .. 10 : q[i] \in b[a]
       /\ \A a \in 1 .. 10 : \A o \in b[a] : \E i \in 1 .. n : q[i] = o
       /\ \A i, j \in 1 .. n : q[i] = q[j] => i = j
       /\ \A i, j \in 1 .. n : \A a, c \in 1 .. 10 : i < j /\ q[i] \in b[a] /\ q[j] \in b[c] => a <= c
  BY <1>11 DEF Lists
<1>. HIDE DEF n
<1>13. \A i \in 1 .. n :
         q[i].op \in DOMAIN Place /\ IsDue(s, t, q[i].op, q[i].entity, q[i].key) /\ Carries(t, q[i])
  BY <1>4, <1>12
<1>14. \A kind, e, k : IsDue(s, t, kind, e, k) => \E i \in 1 .. n : Mark(q[i]) = <<kind, e, k>>
  BY <1>3, <1>5, <1>12
<1>15. ASSUME NEW i \in 1 .. n, NEW j \in 1 .. n, Mark(q[i]) = Mark(q[j])
       PROVE  i = j
  <2>1. PICK a \in 1 .. 10, c \in 1 .. 10 : q[i] \in b[a] /\ q[j] \in b[c]
    BY <1>12
  <2>2. q[i].op = q[j].op /\ q[i].entity = q[j].entity /\ q[i].key = q[j].key
    BY <1>15 DEF Mark
  <2>3. a = c
    BY <1>4, <2>1, <2>2
  <2>4. q[i] = q[j]
    BY <1>2, <2>1, <2>2, <2>3 DEF IsBucket
  <2>. QED
    BY <1>12, <2>4
<1>16. \A i, j \in 1 .. n : i < j => Place[q[i].op] <= Place[q[j].op]
  <2>. TAKE i, j \in 1 .. n
  <2>1. PICK a \in 1 .. 10, c \in 1 .. 10 : q[i] \in b[a] /\ q[j] \in b[c]
    BY <1>12
  <2>2. Place[q[i].op] = a /\ Place[q[j].op] = c
    BY <1>4, <2>1
  <2>. QED
    BY <1>12, <2>1, <2>2
<1>. QED
  BY <1>11, <1>13, <1>14, <1>15, <1>16 DEF Listing, n, q, U

\* What is left of a listing behind its first i operations.
Left(q, i) == {Mark(q[j]) : j \in i + 1 .. Len(q)}

\* A set of marks that may be left: whatever belongs to a later bucket than one of them is
\* left as well.
Staged(s, t, L) ==
  /\ \A kind, e, k : <<kind, e, k>> \in L => kind \in DOMAIN Place /\ IsDue(s, t, kind, e, k)
  /\ \A kind, e, k, other, d, h :
       /\ <<kind, e, k>> \in L
       /\ other \in DOMAIN Place /\ IsDue(s, t, other, d, h) /\ Place[kind] < Place[other]
       => <<other, d, h>> \in L

\* What is left is staged from the first operation to the last: all that is due at first, nothing
\* at the end, and one mark less with each operation.
LEMMA LeftFacts ==
  ASSUME NEW s, NEW t, NEW q, Listing(s, t, q)
  PROVE  /\ Len(q) \in Nat
         /\ \A i \in 0 .. Len(q) : Staged(s, t, Left(q, i))
         /\ \A kind, e, k : IsDue(s, t, kind, e, k) => <<kind, e, k>> \in Left(q, 0)
         /\ Left(q, Len(q)) = {}
         /\ \A i \in 0 .. Len(q) - 1 :
              Mark(q[i + 1]) \in Left(q, i) /\ Left(q, i + 1) = Left(q, i) \ {Mark(q[i + 1])}
<1>. DEFINE n == Len(q)
<1>1. n \in Nat
  BY LenProperties DEF Listing
<1>2. /\ \A i \in 1 .. n : q[i].op \in DOMAIN Place /\ IsDue(s, t, q[i].op, q[i].entity, q[i].key)
      /\ \A kind, e, k : IsDue(s, t, kind, e, k) => \E i \in 1 .. n : Mark(q[i]) = <<kind, e, k>>
      /\ \A i, j \in 1 .. n : Mark(q[i]) = Mark(q[j]) => i = j
      /\ \A i, j \in 1 .. n : i < j => Place[q[i].op] <= Place[q[j].op]
  BY DEF Listing
<1>3. \A i : Left(q, i) = {Mark(q[j]) : j \in i + 1 .. n}
  BY DEF Left
<1>. HIDE DEF n
<1>4. \A m \in DOMAIN Place : Place[m] \in Nat
  BY DEF Place
<1>5. ASSUME NEW i \in 0 .. n
      PROVE  Staged(s, t, Left(q, i))
  <2>1. \A j \in i + 1 .. n : j \in 1 .. n
    BY <1>1
  <2>2. ASSUME NEW kind, NEW e, NEW k, <<kind, e, k>> \in Left(q, i)
        PROVE  \E j \in i + 1 .. n : q[j].op = kind /\ q[j].entity = e /\ q[j].key = k
    BY <1>3, <2>2 DEF Mark
  <2>3. ASSUME NEW kind, NEW e, NEW k, <<kind, e, k>> \in Left(q, i)
        PROVE  kind \in DOMAIN Place /\ IsDue(s, t, kind, e, k)
    BY <1>2, <2>1, <2>2, <2>3
  <2>4. ASSUME NEW kind, NEW e, NEW k, <<kind, e, k>> \in Left(q, i), NEW other \in DOMAIN Place,
               NEW d, NEW h, IsDue(s, t, other, d, h), Place[kind] < Place[other]
        PROVE  <<other, d, h>> \in Left(q, i)
    <3>1. PICK j \in i + 1 .. n : q[j].op = kind
      BY <2>2, <2>4
    <3>2. PICK x \in 1 .. n : Mark(q[x]) = <<other, d, h>>
      BY <1>2, <2>4
    <3>3. q[x].op = other
      BY <3>2 DEF Mark
    <3>4. ~ (x < j)
      <4>1. j \in 1 .. n /\ Place[q[x].op] \in Nat /\ Place[q[j].op] \in Nat
        BY <1>2, <1>4, <2>1
      <4>2. Place[q[j].op] < Place[q[x].op]
        BY <2>4, <3>1, <3>3
      <4>. QED
        BY <1>2, <4>1, <4>2
    <3>5. x \in i + 1 .. n
      BY <1>1, <3>4
    <3>. QED
      BY <1>3, <3>2, <3>5
  <2>. QED
    BY <2>3, <2>4 DEF Staged
<1>6. \A kind, e, k : IsDue(s, t, kind, e, k) => <<kind, e, k>> \in Left(q, 0)
  <2>1. 0 + 1 = 1
    OBVIOUS
  <2>. QED
    BY <1>2, <1>3, <2>1
<1>7. Left(q, n) = {}
  <2>1. \A j \in n + 1 .. n : FALSE
    BY <1>1
  <2>. QED
    BY <1>3, <2>1
<1>8. ASSUME NEW i \in 0 .. n - 1
      PROVE  Mark(q[i + 1]) \in Left(q, i) /\ Left(q, i + 1) = Left(q, i) \ {Mark(q[i + 1])}
  <2>1. /\ i + 1 \in i + 1 .. n /\ i + 1 \in 1 .. n
        /\ \A j : j \in (i + 1) + 1 .. n <=> j \in i + 1 .. n /\ j # i + 1
    BY <1>1
  <2>2. \A j \in i + 1 .. n : j \in 1 .. n
    BY <1>1
  <2>3. \A j \in i + 1 .. n : Mark(q[j]) = Mark(q[i + 1]) => j = i + 1
    BY <1>2, <2>1, <2>2
  <2>4. \A m : m \in Left(q, i) <=> \E j \in i + 1 .. n : m = Mark(q[j])
    BY <1>3
  <2>5. \A m : m \in Left(q, i + 1) <=> \E j \in i + 1 .. n : j # i + 1 /\ m = Mark(q[j])
    BY <1>3, <2>1
  <2>6. \A m : m \in Left(q, i + 1) <=> m \in Left(q, i) \ {Mark(q[i + 1])}
    BY <2>3, <2>4, <2>5
  <2>. QED
    BY <2>1, <2>4, <2>6
<1>. QED
  BY <1>1, <1>5, <1>6, <1>7, <1>8 DEF n

-----------------------------------------------------------------------------
(***************************************************************************)
(* A catalog on its way from s to t: what it is once all but the           *)
(* operations marked in L have been applied.                               *)
(***************************************************************************)
FieldsBetween(f, g, h, e, L) ==
  /\ \A k : k \in DOMAIN h <=>
       (k \in DOMAIN g /\ <<"addField", e, k>> \notin L) \/ <<"dropField", e, k>> \in L
  /\ \A k \in DOMAIN h :
       /\ h[k].name = IF k \notin DOMAIN g \/ <<"renameField", e, k>> \in L THEN f[k].name ELSE g[k].name
       /\ h[k].type = IF k \notin DOMAIN g \/ <<"alterField", e, k>> \in L THEN f[k].type ELSE g[k].type
       /\ h[k].required
            = IF k \notin DOMAIN g \/ <<"alterField", e, k>> \in L THEN f[k].required ELSE g[k].required

IndexesBetween(f, g, h, e, L) ==
  /\ \A k : k \in DOMAIN h <=>
       (k \in DOMAIN g /\ <<"createIndex", e, k>> \notin L) \/ <<"dropIndex", e, k>> \in L
  /\ \A k \in DOMAIN h :
       /\ h[k].name = IF <<"dropIndex", e, k>> \in L \/ <<"renameIndex", e, k>> \in L
                      THEN f[k].name ELSE g[k].name
       /\ h[k].fields = IF <<"dropIndex", e, k>> \in L THEN f[k].fields ELSE g[k].fields
       /\ h[k].unique = IF <<"dropIndex", e, k>> \in L THEN f[k].unique ELSE g[k].unique

EntityBetween(a, b, x, e, L) ==
  /\ x.name = IF <<"renameEntity", e, e>> \in L THEN a.name ELSE b.name
  /\ FieldsBetween(a.fields, b.fields, x.fields, e, L)
  /\ IndexesBetween(a.indexes, b.indexes, x.indexes, e, L)

CatalogBetween(s, t, c, L) ==
  /\ \A e : e \in DOMAIN c <=>
       (e \in DOMAIN t /\ <<"createEntity", e, e>> \notin L) \/ <<"dropEntity", e, e>> \in L
  /\ \A e \in DOMAIN c : (e \notin DOMAIN t => c[e] = s[e]) /\ (e \notin DOMAIN s => c[e] = t[e])
  /\ \A e \in Kept(s, t) : EntityBetween(s[e], t[e], c[e], e, L)

\* The marks of one kept entity.
StagedIn(a, b, e, L) ==
  /\ \A kind, k : <<kind, e, k>> \in L => kind = "renameEntity" \/ DueIn(a, b, kind, k)
  /\ \A kind, k, other, h :
       /\ <<kind, e, k>> \in L /\ kind \in DOMAIN Place
       /\ other \in DOMAIN Place /\ DueIn(a, b, other, h) /\ Place[kind] < Place[other]
       => <<other, e, h>> \in L

\* What may be left of a catalog may be left of each of its kept entities.
LEMMA StagedEntity ==
  ASSUME NEW s, NEW t, NEW L, Staged(s, t, L), NEW e \in Kept(s, t)
  PROVE  StagedIn(s[e], t[e], e, L)
<1>1. \A kind, k : <<kind, e, k>> \in L => kind = "renameEntity" \/ DueIn(s[e], t[e], kind, k)
  BY DEF Staged, IsDue, Kept
<1>2. \A other, h : DueIn(s[e], t[e], other, h) => IsDue(s, t, other, e, h)
  BY DEF IsDue
<1>. QED
  BY <1>1, <1>2 DEF Staged, StagedIn

\* Steps on the fields.
FieldsMoved(a, b, h, e, kind, k, M) ==
  LET f == a.fields
      g == b.fields
  IN  /\ kind = "dropField" => FieldsBetween(f, g, Without(h, k), e, M)
      /\ kind = "renameField" => FieldsBetween(f, g, [h EXCEPT ![k].name = g[k].name], e, M)
      /\ kind \in {"addField", "alterField"} => FieldsBetween(f, g, With(h, k, g[k]), e, M)
      /\ kind \notin {"dropField", "renameField", "addField", "alterField"} => FieldsBetween(f, g, h, e, M)
      /\ kind = "addField" => k \notin DOMAIN h

\* An operation on a field takes the fields on, and one of another kind leaves them where they are.
LEMMA FieldStep ==
  ASSUME NEW a, NEW b, NEW e, NEW L, NEW kind, NEW k, StagedIn(a, b, e, L),
         StagedIn(a, b, e, L \ {<<kind, e, k>>}), <<kind, e, k>> \in L,
         NEW h, FieldsBetween(a.fields, b.fields, h, e, L),
         \A i \in DOMAIN h : h[i] \in Field, \A i \in DOMAIN b.fields : b.fields[i] \in Field
  PROVE  FieldsMoved(a, b, h, e, kind, k, L \ {<<kind, e, k>>})
<1>. DEFINE M == L \ {<<kind, e, k>>}
            f == a.fields
            g == b.fields
<1>1. \A other, i : <<other, e, i>> \in M <=> <<other, e, i>> \in L /\ ~ (other = kind /\ i = k)
  OBVIOUS
<1>2. \A other, i : <<other, e, i>> \in L => other = "renameEntity" \/ DueIn(a, b, other, i)
  BY DEF StagedIn
<1>3. /\ \A i : <<"dropField", e, i>> \in L => i \in DOMAIN f \ DOMAIN g
      /\ \A i : <<"addField", e, i>> \in L => i \in DOMAIN g \ DOMAIN f
      /\ \A i : <<"renameField", e, i>> \in L => i \in DOMAIN f \cap DOMAIN g
      /\ \A i : <<"alterField", e, i>> \in L => i \in DOMAIN f \cap DOMAIN g
  BY <1>2 DEF DueIn, DroppedFields, AddedFields, RenamedFields, AlteredFields, Kept
<1>4. /\ \A i : i \in DOMAIN h <=>
           (i \in DOMAIN g /\ <<"addField", e, i>> \notin L) \/ <<"dropField", e, i>> \in L
      /\ \A i \in DOMAIN h :
           /\ h[i].name = IF i \notin DOMAIN g \/ <<"renameField", e, i>> \in L THEN f[i].name ELSE g[i].name
           /\ h[i].type = IF i \notin DOMAIN g \/ <<"alterField", e, i>> \in L THEN f[i].type ELSE g[i].type
           /\ h[i].required
                = IF i \notin DOMAIN g \/ <<"alterField", e, i>> \in L THEN f[i].required ELSE g[i].required
  BY DEF FieldsBetween
<1>5. kind = "alterField" => <<"renameField", e, k>> \notin L
  <2>. SUFFICES ASSUME kind = "alterField", <<"renameField", e, k>> \in L PROVE FALSE
    OBVIOUS
  <2>1. DueIn(a, b, "alterField", k) /\ <<"renameField", e, k>> \in M
    BY <1>1, <1>2
  <2>2. "renameField" \in DOMAIN Place /\ "alterField" \in DOMAIN Place /\ Place["renameField"] < Place["alterField"]
    BY DEF Place
  <2>3. <<"alterField", e, k>> \in M
    BY <2>1, <2>2 DEF StagedIn
  <2>. QED
    BY <1>1, <2>3
<1>. HIDE DEF M, f, g
<1>6. ASSUME kind = "dropField" PROVE FieldsBetween(f, g, Without(h, k), e, M)
  <2>. DEFINE r == Without(h, k)
  <2>1. DOMAIN r = DOMAIN h \ {k} /\ \A i \in DOMAIN r : r[i] = h[i]
    BY DEF Without
  <2>. HIDE DEF r
  <2>2. k \notin DOMAIN g
    BY <1>3, <1>6
  <2>3. \A i : i \in DOMAIN r <=>
          (i \in DOMAIN g /\ <<"addField", e, i>> \notin M) \/ <<"dropField", e, i>> \in M
    BY <1>1, <1>3, <1>4, <1>6, <2>1, <2>2
  <2>4. \A i \in DOMAIN r :
          /\ r[i].name = IF i \notin DOMAIN g \/ <<"renameField", e, i>> \in M THEN f[i].name ELSE g[i].name
          /\ r[i].type = IF i \notin DOMAIN g \/ <<"alterField", e, i>> \in M THEN f[i].type ELSE g[i].type
          /\ r[i].required
               = IF i \notin DOMAIN g \/ <<"alterField", e, i>> \in M THEN f[i].required ELSE g[i].required
    BY <1>1, <1>4, <1>6, <2>1
  <2>5. FieldsBetween(f, g, r, e, M)
    BY <2>3, <2>4 DEF FieldsBetween
  <2>. QED
    BY <2>5 DEF r
<1>7. ASSUME kind = "renameField" PROVE FieldsBetween(f, g, [h EXCEPT ![k].name = g[k].name], e, M)
  <2>. DEFINE r == [h EXCEPT ![k].name = g[k].name]
  <2>1. k \in DOMAIN g /\ k \in DOMAIN h
    BY <1>3, <1>4, <1>7
  <2>2. /\ DOMAIN r = DOMAIN h
        /\ \A i \in DOMAIN r : /\ i # k => r[i] = h[i]
                               /\ r[i].type = h[i].type /\ r[i].required = h[i].required
        /\ r[k].name = g[k].name
    BY <2>1 DEF Field
  <2>. HIDE DEF r
  <2>3. \A i : i \in DOMAIN r <=>
          (i \in DOMAIN g /\ <<"addField", e, i>> \notin M) \/ <<"dropField", e, i>> \in M
    BY <1>1, <1>4, <1>7, <2>2
  <2>4. \A i \in DOMAIN r :
          r[i].name = IF i \notin DOMAIN g \/ <<"renameField", e, i>> \in M THEN f[i].name ELSE g[i].name
    BY <1>1, <1>4, <1>7, <2>1, <2>2
  <2>5. \A i \in DOMAIN r :
          /\ r[i].type = IF i \notin DOMAIN g \/ <<"alterField", e, i>> \in M THEN f[i].type ELSE g[i].type
          /\ r[i].required
               = IF i \notin DOMAIN g \/ <<"alterField", e, i>> \in M THEN f[i].required ELSE g[i].required
    BY <1>1, <1>4, <1>7, <2>1, <2>2
  <2>6. FieldsBetween(f, g, r, e, M)
    BY <2>3, <2>4, <2>5 DEF FieldsBetween
  <2>. QED
    BY <2>6 DEF r
<1>8. ASSUME kind \in {"addField", "alterField"} PROVE FieldsBetween(f, g, With(h, k, g[k]), e, M)
  <2>. DEFINE r == With(h, k, g[k])
  <2>1. DOMAIN r = DOMAIN h \cup {k} /\ r[k] = g[k] /\ \A i \in DOMAIN r : i # k => i \in DOMAIN h /\ r[i] = h[i]
    BY DEF With
  <2>. HIDE DEF r
  <2>2. k \in DOMAIN g /\ <<"renameField", e, k>> \notin L /\ <<"dropField", e, k>> \notin L
    BY <1>3, <1>5, <1>8
  <2>3. <<"addField", e, k>> \notin M /\ <<"alterField", e, k>> \notin M /\ <<"renameField", e, k>> \notin M
    BY <1>1, <1>3, <1>8, <2>2
  <2>4. \A i : i \in DOMAIN r <=>
          (i \in DOMAIN g /\ <<"addField", e, i>> \notin M) \/ <<"dropField", e, i>> \in M
    <3>. TAKE i
    <3>1. CASE i = k
      BY <2>1, <2>2, <2>3, <3>1
    <3>2. CASE i # k
      BY <1>1, <1>4, <2>1, <3>2
    <3>. QED
      BY <3>1, <3>2
  <2>5. \A i \in DOMAIN r :
          /\ r[i].name = IF i \notin DOMAIN g \/ <<"renameField", e, i>> \in M THEN f[i].name ELSE g[i].name
          /\ r[i].type = IF i \notin DOMAIN g \/ <<"alterField", e, i>> \in M THEN f[i].type ELSE g[i].type
          /\ r[i].required
               = IF i \notin DOMAIN g \/ <<"alterField", e, i>> \in M THEN f[i].required ELSE g[i].required
    <3>. TAKE i \in DOMAIN r
    <3>1. CASE i = k
      BY <2>1, <2>2, <2>3, <3>1
    <3>2. CASE i # k
      BY <1>1, <1>4, <2>1, <3>2
    <3>. QED
      BY <3>1, <3>2
  <2>6. FieldsBetween(f, g, r, e, M)
    BY <2>4, <2>5 DEF FieldsBetween
  <2>. QED
    BY <2>6 DEF r
<1>9. ASSUME kind \notin {"dropField", "renameField", "addField", "alterField"}
      PROVE  FieldsBetween(f, g, h, e, M)
  <2>1. \A i : /\ <<"dropField", e, i>> \in M <=> <<"dropField", e, i>> \in L
               /\ <<"renameField", e, i>> \in M <=> <<"renameField", e, i>> \in L
               /\ <<"addField", e, i>> \in M <=> <<"addField", e, i>> \in L
               /\ <<"alterField", e, i>> \in M <=> <<"alterField", e, i>> \in L
    BY <1>1, <1>9
  <2>. QED
    BY <1>4, <2>1 DEF FieldsBetween
<1>10. kind = "addField" => k \notin DOMAIN h
  BY <1>3, <1>4
<1>. QED
  BY <1>6, <1>7, <1>8, <1>9, <1>10 DEF FieldsMoved, M, f, g

\* Steps on the indexes.
IndexesMoved(a, b, h, e, kind, k, M) ==
  LET f == a.indexes
      g == b.indexes
  IN  /\ kind = "dropIndex" => IndexesBetween(f, g, Without(h, k), e, M)
      /\ kind = "renameIndex" => IndexesBetween(f, g, [h EXCEPT ![k].name = g[k].name], e, M)
      /\ kind = "createIndex" => IndexesBetween(f, g, With(h, k, g[k]), e, M)
      /\ kind \notin {"dropIndex", "renameIndex", "createIndex"} => IndexesBetween(f, g, h, e, M)
      /\ kind = "createIndex" => k \notin DOMAIN h

\* An operation on an index takes the indexes on, and one of another kind leaves them.
LEMMA IndexStep ==
  ASSUME NEW a, NEW b, NEW e, NEW L, NEW kind, NEW k, StagedIn(a, b, e, L),
         StagedIn(a, b, e, L \ {<<kind, e, k>>}), <<kind, e, k>> \in L,
         NEW h, IndexesBetween(a.indexes, b.indexes, h, e, L), \A i \in DOMAIN h : h[i] \in Index
  PROVE  IndexesMoved(a, b, h, e, kind, k, L \ {<<kind, e, k>>})
<1>. DEFINE M == L \ {<<kind, e, k>>}
            f == a.indexes
            g == b.indexes
<1>1. \A other, i : <<other, e, i>> \in M <=> <<other, e, i>> \in L /\ ~ (other = kind /\ i = k)
  OBVIOUS
<1>2. \A other, i : <<other, e, i>> \in L => other = "renameEntity" \/ DueIn(a, b, other, i)
  BY DEF StagedIn
<1>3. /\ \A i : <<"dropIndex", e, i>> \in L => i \in DroppedIndexes(a, b)
      /\ \A i : <<"createIndex", e, i>> \in L => i \in CreatedIndexes(a, b)
      /\ \A i : <<"renameIndex", e, i>> \in L => i \in RenamedIndexes(a, b) \ ReplacedIndexes(a, b)
  BY <1>2 DEF DueIn
<1>4. /\ \A i \in DroppedIndexes(a, b) : i \in DOMAIN g => i \in CreatedIndexes(a, b)
      /\ \A i \in CreatedIndexes(a, b) : i \in DOMAIN g /\ i \notin RenamedIndexes(a, b) \ ReplacedIndexes(a, b)
      /\ \A i \in RenamedIndexes(a, b) \ ReplacedIndexes(a, b) :
           i \in DOMAIN g /\ i \notin DroppedIndexes(a, b) /\ i \notin CreatedIndexes(a, b)
  BY DEF DroppedIndexes, CreatedIndexes, RenamedIndexes, ReplacedIndexes, Kept
<1>5. /\ \A i : i \in DOMAIN h <=>
           (i \in DOMAIN g /\ <<"createIndex", e, i>> \notin L) \/ <<"dropIndex", e, i>> \in L
      /\ \A i \in DOMAIN h :
           /\ h[i].name = IF <<"dropIndex", e, i>> \in L \/ <<"renameIndex", e, i>> \in L
                          THEN f[i].name ELSE g[i].name
           /\ h[i].fields = IF <<"dropIndex", e, i>> \in L THEN f[i].fields ELSE g[i].fields
           /\ h[i].unique = IF <<"dropIndex", e, i>> \in L THEN f[i].unique ELSE g[i].unique
  BY DEF IndexesBetween
<1>6. /\ "dropIndex" \in DOMAIN Place /\ "createIndex" \in DOMAIN Place
      /\ Place["dropIndex"] < Place["createIndex"]
  BY DEF Place
<1>7. \A i : i \in CreatedIndexes(a, b) => DueIn(a, b, "createIndex", i)
  BY DEF DueIn
<1>8. kind = "dropIndex" /\ k \in DOMAIN g => <<"createIndex", e, k>> \in M
  <2>. SUFFICES ASSUME kind = "dropIndex", k \in DOMAIN g PROVE <<"createIndex", e, k>> \in M
    OBVIOUS
  <2>1. DueIn(a, b, "createIndex", k)
    BY <1>3, <1>4, <1>7
  <2>2. <<"createIndex", e, k>> \in L
    BY <1>6, <2>1 DEF StagedIn
  <2>. QED
    BY <1>1, <2>2
<1>9. kind = "createIndex" => <<"dropIndex", e, k>> \notin L
  <2>. SUFFICES ASSUME kind = "createIndex", <<"dropIndex", e, k>> \in L PROVE FALSE
    OBVIOUS
  <2>1. DueIn(a, b, "createIndex", k) /\ <<"dropIndex", e, k>> \in M
    BY <1>1, <1>3, <1>7
  <2>2. <<"createIndex", e, k>> \in M
    BY <1>6, <2>1 DEF StagedIn
  <2>. QED
    BY <1>1, <2>2
<1>. HIDE DEF M, f, g
<1>10. ASSUME kind = "dropIndex" PROVE IndexesBetween(f, g, Without(h, k), e, M)
  <2>. DEFINE r == Without(h, k)
  <2>1. DOMAIN r = DOMAIN h \ {k} /\ \A i \in DOMAIN r : r[i] = h[i]
    BY DEF Without
  <2>. HIDE DEF r
  <2>2. \A i : i \in DOMAIN r <=>
          (i \in DOMAIN g /\ <<"createIndex", e, i>> \notin M) \/ <<"dropIndex", e, i>> \in M
    <3>. TAKE i
    <3>1. CASE i = k
      BY <1>1, <1>8, <1>10, <2>1, <3>1
    <3>2. CASE i # k
      BY <1>1, <1>5, <2>1, <3>2
    <3>. QED
      BY <3>1, <3>2
  <2>3. \A i \in DOMAIN r :
          /\ r[i].name = IF <<"dropIndex", e, i>> \in M \/ <<"renameIndex", e, i>> \in M
                         THEN f[i].name ELSE g[i].name
          /\ r[i].fields = IF <<"dropIndex", e, i>> \in M THEN f[i].fields ELSE g[i].fields
          /\ r[i].unique = IF <<"dropIndex", e, i>> \in M THEN f[i].unique ELSE g[i].unique
    BY <1>1, <1>5, <1>10, <2>1
  <2>4. IndexesBetween(f, g, r, e, M)
    BY <2>2, <2>3 DEF IndexesBetween
  <2>. QED
    BY <2>4 DEF r
<1>11. ASSUME kind = "renameIndex" PROVE IndexesBetween(f, g, [h EXCEPT ![k].name = g[k].name], e, M)
  <2>. DEFINE r == [h EXCEPT ![k].name = g[k].name]
  <2>1. /\ k \in DOMAIN g /\ k \in DOMAIN h
        /\ <<"dropIndex", e, k>> \notin L /\ <<"createIndex", e, k>> \notin L
    BY <1>3, <1>4, <1>5, <1>11
  <2>2. /\ DOMAIN r = DOMAIN h
        /\ \A i \in DOMAIN r : /\ i # k => r[i] = h[i]
                               /\ r[i].fields = h[i].fields /\ r[i].unique = h[i].unique
        /\ r[k].name = g[k].name
    BY <2>1 DEF Index
  <2>. HIDE DEF r
  <2>3. \A i : i \in DOMAIN r <=>
          (i \in DOMAIN g /\ <<"createIndex", e, i>> \notin M) \/ <<"dropIndex", e, i>> \in M
    BY <1>1, <1>5, <1>11, <2>2
  <2>4. \A i \in DOMAIN r :
          r[i].name = IF <<"dropIndex", e, i>> \in M \/ <<"renameIndex", e, i>> \in M
                      THEN f[i].name ELSE g[i].name
    BY <1>1, <1>5, <1>11, <2>1, <2>2
  <2>5. \A i \in DOMAIN r :
          /\ r[i].fields = IF <<"dropIndex", e, i>> \in M THEN f[i].fields ELSE g[i].fields
          /\ r[i].unique = IF <<"dropIndex", e, i>> \in M THEN f[i].unique ELSE g[i].unique
    BY <1>1, <1>5, <1>11, <2>1, <2>2
  <2>6. IndexesBetween(f, g, r, e, M)
    BY <2>3, <2>4, <2>5 DEF IndexesBetween
  <2>. QED
    BY <2>6 DEF r
<1>12. ASSUME kind = "createIndex" PROVE IndexesBetween(f, g, With(h, k, g[k]), e, M)
  <2>. DEFINE r == With(h, k, g[k])
  <2>1. DOMAIN r = DOMAIN h \cup {k} /\ r[k] = g[k] /\ \A i \in DOMAIN r : i # k => i \in DOMAIN h /\ r[i] = h[i]
    BY DEF With
  <2>. HIDE DEF r
  <2>2. /\ k \in DOMAIN g /\ <<"dropIndex", e, k>> \notin M /\ <<"renameIndex", e, k>> \notin M
        /\ <<"createIndex", e, k>> \notin M
    BY <1>1, <1>3, <1>4, <1>9, <1>12
  <2>3. \A i : i \in DOMAIN r <=>
          (i \in DOMAIN g /\ <<"createIndex", e, i>> \notin M) \/ <<"dropIndex", e, i>> \in M
    <3>. TAKE i
    <3>1. CASE i = k
      BY <2>1, <2>2, <3>1
    <3>2. CASE i # k
      BY <1>1, <1>5, <2>1, <3>2
    <3>. QED
      BY <3>1, <3>2
  <2>4. \A i \in DOMAIN r :
          /\ r[i].name = IF <<"dropIndex", e, i>> \in M \/ <<"renameIndex", e, i>> \in M
                         THEN f[i].name ELSE g[i].name
          /\ r[i].fields = IF <<"dropIndex", e, i>> \in M THEN f[i].fields ELSE g[i].fields
          /\ r[i].unique = IF <<"dropIndex", e, i>> \in M THEN f[i].unique ELSE g[i].unique
    <3>. TAKE i \in DOMAIN r
    <3>1. CASE i = k
      BY <2>1, <2>2, <3>1
    <3>2. CASE i # k
      BY <1>1, <1>5, <2>1, <3>2
    <3>. QED
      BY <3>1, <3>2
  <2>5. IndexesBetween(f, g, r, e, M)
    BY <2>3, <2>4 DEF IndexesBetween
  <2>. QED
    BY <2>5 DEF r
<1>13. ASSUME kind \notin {"dropIndex", "renameIndex", "createIndex"}
       PROVE  IndexesBetween(f, g, h, e, M)
  <2>1. \A i : /\ <<"dropIndex", e, i>> \in M <=> <<"dropIndex", e, i>> \in L
               /\ <<"renameIndex", e, i>> \in M <=> <<"renameIndex", e, i>> \in L
               /\ <<"createIndex", e, i>> \in M <=> <<"createIndex", e, i>> \in L
    BY <1>1, <1>13
  <2>. QED
    BY <1>5, <2>1 DEF IndexesBetween
<1>14. kind = "createIndex" => k \notin DOMAIN h
  BY <1>5, <1>9
<1>. QED
  BY <1>10, <1>11, <1>12, <1>13, <1>14 DEF IndexesMoved, M, f, g

\* A step on an entity that is kept.
LEMMA EntityStep ==
  ASSUME NEW a, NEW t, NEW o, NEW x, NEW L, IsEntity(t[o.entity]), IsEntity(x), IsOperation(o), Carries(t, o),
         o.op \notin {"createEntity", "dropEntity"}, Mark(o) \in L,
         o.op = "renameEntity" => o.key = o.entity,
         StagedIn(a, t[o.entity], o.entity, L), StagedIn(a, t[o.entity], o.entity, L \ {Mark(o)}),
         EntityBetween(a, t[o.entity], x, o.entity, L)
  PROVE  /\ EntityBetween(a, t[o.entity], ApplyToEntity(x, o), o.entity, L \ {Mark(o)})
         /\ o.op = "addField" => o.key \notin DOMAIN x.fields
         /\ o.op = "createIndex" => o.key \notin DOMAIN x.indexes
<1>. DEFINE e == o.entity
            k == o.key
            b == t[e]
            M == L \ {Mark(o)}
            y == ApplyToEntity(x, o)
            FieldKinds == {"dropField", "renameField", "addField", "alterField"}
            IndexKinds == {"dropIndex", "renameIndex", "createIndex"}
            Fields(h) == FieldsBetween(a.fields, b.fields, h, e, M)
            Indexes(h) == IndexesBetween(a.indexes, b.indexes, h, e, M)
<1>1. /\ x = [name |-> x.name, fields |-> x.fields, indexes |-> x.indexes]
      /\ \A i \in DOMAIN x.fields : x.fields[i] \in Field
      /\ \A i \in DOMAIN x.indexes : x.indexes[i] \in Index
      /\ \A i \in DOMAIN b.fields : b.fields[i] \in Field
  BY DEF IsEntity, IsMap
<1>2. /\ x.name = IF <<"renameEntity", e, e>> \in L THEN a.name ELSE b.name
      /\ FieldsBetween(a.fields, b.fields, x.fields, e, L)
      /\ IndexesBetween(a.indexes, b.indexes, x.indexes, e, L)
  BY DEF EntityBetween
<1>3. Mark(o) = <<o.op, e, k>>
  BY DEF Mark
<1>4. /\ o.op = "dropField" => Fields(Without(x.fields, k))
      /\ o.op = "renameField" => Fields([x.fields EXCEPT ![k].name = b.fields[k].name])
      /\ o.op \in {"addField", "alterField"} => Fields(With(x.fields, k, b.fields[k]))
      /\ o.op \notin FieldKinds => Fields(x.fields)
      /\ o.op = "addField" => k \notin DOMAIN x.fields
  <2>1. StagedIn(a, b, e, L) /\ StagedIn(a, b, e, L \ {<<o.op, e, k>>}) /\ <<o.op, e, k>> \in L
    BY <1>3
  <2>. HIDE DEF b
  <2>2. FieldsMoved(a, b, x.fields, e, o.op, k, L \ {<<o.op, e, k>>})
    BY <1>1, <1>2, <2>1, FieldStep
  <2>. QED
    BY <1>3, <2>2, Zenon DEF FieldsMoved
<1>5. /\ o.op = "dropIndex" => Indexes(Without(x.indexes, k))
      /\ o.op = "renameIndex" => Indexes([x.indexes EXCEPT ![k].name = b.indexes[k].name])
      /\ o.op = "createIndex" => Indexes(With(x.indexes, k, b.indexes[k]))
      /\ o.op \notin IndexKinds => Indexes(x.indexes)
      /\ o.op = "createIndex" => k \notin DOMAIN x.indexes
  <2>1. StagedIn(a, b, e, L) /\ StagedIn(a, b, e, L \ {<<o.op, e, k>>}) /\ <<o.op, e, k>> \in L
    BY <1>3
  <2>. HIDE DEF b
  <2>2. IndexesMoved(a, b, x.indexes, e, o.op, k, L \ {<<o.op, e, k>>})
    BY <1>1, <1>2, <2>1, IndexStep
  <2>. QED
    BY <1>3, <2>2, Zenon DEF IndexesMoved
<1>6. /\ o.op = "renameEntity" => <<"renameEntity", e, e>> \notin M
      /\ o.op # "renameEntity" => (<<"renameEntity", e, e>> \in M <=> <<"renameEntity", e, e>> \in L)
  BY <1>3
<1>7. /\ o.op = "renameEntity" => o.value = b.name
      /\ o.op = "renameField" => o.value = b.fields[k].name
      /\ o.op \in {"addField", "alterField"} => o.value = b.fields[k]
      /\ o.op = "renameIndex" => o.value = b.indexes[k].name
      /\ o.op = "createIndex" => o.value = b.indexes[k]
  BY DEF Carries
<1>. DEFINE Name(n) == n = IF <<"renameEntity", e, e>> \in M THEN a.name ELSE b.name
<1>8. \A z : Name(z.name) /\ Fields(z.fields) /\ Indexes(z.indexes) => EntityBetween(a, b, z, e, M)
  BY DEF EntityBetween
<1>9. o.op # "renameEntity" => Name(x.name)
  BY <1>2, <1>6
<1>10. o.op = "renameEntity" => Name(b.name)
  BY <1>6
<1>11. o.op \in {"renameEntity"} \cup FieldKinds \cup IndexKinds
  BY DEF IsOperation
<1>. HIDE DEF Fields, Indexes, Name, M, b
<1>12. CASE o.op = "renameEntity"
  <2>1. y = [x EXCEPT !.name = b.name]
    BY <1>7, <1>12 DEF ApplyToEntity
  <2>2. y.name = b.name /\ y.fields = x.fields /\ y.indexes = x.indexes
    BY <1>1, <2>1
  <2>. QED
    BY <1>4, <1>5, <1>8, <1>10, <1>12, <2>2 DEF M, b
<1>13. CASE o.op \in FieldKinds
  <2>. DEFINE h == CASE o.op \in {"addField", "alterField"} -> With(x.fields, k, b.fields[k])
                     [] o.op = "dropField" -> Without(x.fields, k)
                     [] o.op = "renameField" -> [x.fields EXCEPT ![k].name = b.fields[k].name]
  <2>1. y = [x EXCEPT !.fields = h]
    <3>1. CASE o.op \in {"addField", "alterField"}
      BY <1>7, <3>1 DEF ApplyToEntity
    <3>2. CASE o.op = "dropField"
      BY <3>2 DEF ApplyToEntity
    <3>3. CASE o.op = "renameField"
      BY <1>7, <3>3, Zenon DEF ApplyToEntity
    <3>. QED
      BY <1>13, <3>1, <3>2, <3>3
  <2>2. Fields(h)
    BY <1>4, <1>13
  <2>. HIDE DEF h
  <2>3. y.name = x.name /\ y.fields = h /\ y.indexes = x.indexes
    BY <1>1, <2>1
  <2>. QED
    BY <1>4, <1>5, <1>8, <1>9, <1>13, <2>2, <2>3 DEF M, b
<1>14. CASE o.op \in IndexKinds
  <2>. DEFINE h == CASE o.op = "createIndex" -> With(x.indexes, k, b.indexes[k])
                     [] o.op = "dropIndex" -> Without(x.indexes, k)
                     [] o.op = "renameIndex" -> [x.indexes EXCEPT ![k].name = b.indexes[k].name]
  <2>1. y = [x EXCEPT !.indexes = h]
    <3>1. CASE o.op = "createIndex"
      BY <1>7, <3>1 DEF ApplyToEntity
    <3>2. CASE o.op = "dropIndex"
      BY <3>2 DEF ApplyToEntity
    <3>3. CASE o.op = "renameIndex"
      BY <1>7, <3>3, Zenon DEF ApplyToEntity
    <3>. QED
      BY <1>14, <3>1, <3>2, <3>3
  <2>2. Indexes(h)
    BY <1>5, <1>14
  <2>. HIDE DEF h
  <2>3. y.name = x.name /\ y.fields = x.fields /\ y.indexes = h
    BY <1>1, <2>1
  <2>. QED
    BY <1>4, <1>5, <1>8, <1>9, <1>14, <2>2, <2>3 DEF M, b
<1>. QED
  BY <1>11, <1>12, <1>13, <1>14

\* What is left for other entities does not matter to an entity.
LEMMA OtherEntities ==
  ASSUME NEW a, NEW b, NEW x, NEW f, NEW L, NEW M, EntityBetween(a, b, x, f, L),
         \A kind, k : <<kind, f, k>> \in M <=> <<kind, f, k>> \in L
  PROVE  EntityBetween(a, b, x, f, M)
<1>1. FieldsBetween(a.fields, b.fields, x.fields, f, M)
  BY DEF EntityBetween, FieldsBetween
<1>2. IndexesBetween(a.indexes, b.indexes, x.indexes, f, M)
  BY DEF EntityBetween, IndexesBetween
<1>. QED
  BY <1>1, <1>2 DEF EntityBetween

\* What a backend asks of an operation before it looks at its result.
Admissible(c, o) ==
  /\ o.op = "createEntity" => o.entity \notin DOMAIN c
  /\ o.op \notin {"createEntity", "dropEntity"} => o.entity \in DOMAIN c
  /\ o.op = "addField" => o.key \notin DOMAIN c[o.entity].fields
  /\ o.op = "createIndex" => o.key \notin DOMAIN c[o.entity].indexes

\* The next operation is admissible, and applying it takes the catalog on.
LEMMA CatalogStep ==
  ASSUME NEW s, NEW t, NEW c, NEW L, NEW o, IsCatalog(t), IsCatalog(c),
         Staged(s, t, L), Staged(s, t, L \ {Mark(o)}), IsOperation(o), Carries(t, o), Mark(o) \in L,
         CatalogBetween(s, t, c, L)
  PROVE  CatalogBetween(s, t, ApplyOperation(c, o), L \ {Mark(o)}) /\ Admissible(c, o)
<1>. DEFINE e == o.entity
            k == o.key
            M == L \ {Mark(o)}
            r == ApplyOperation(c, o)
<1>1. Mark(o) = <<o.op, e, k>>
  BY DEF Mark
<1>2. \A kind, d, h : <<kind, d, h>> \in M <=> <<kind, d, h>> \in L /\ ~ (kind = o.op /\ d = e /\ h = k)
  BY <1>1
<1>3. IsDue(s, t, o.op, e, k) /\ Staged(s, t, M)
  BY <1>1 DEF Staged
<1>4. /\ \A d : d \in DOMAIN c <=>
           (d \in DOMAIN t /\ <<"createEntity", d, d>> \notin L) \/ <<"dropEntity", d, d>> \in L
      /\ \A d \in DOMAIN c : (d \notin DOMAIN t => c[d] = s[d]) /\ (d \notin DOMAIN s => c[d] = t[d])
      /\ \A d \in Kept(s, t) : EntityBetween(s[d], t[d], c[d], d, L)
  BY DEF CatalogBetween
<1>5. /\ \A d : <<"createEntity", d, d>> \in L => d \in DOMAIN t \ DOMAIN s
      /\ \A d : <<"dropEntity", d, d>> \in L => d \in DOMAIN s \ DOMAIN t
  BY DEF Staged, IsDue, DueIn
<1>6. /\ o.op = "createEntity" => k = e /\ e \in DOMAIN t \ DOMAIN s
      /\ o.op = "dropEntity" => k = e /\ e \in DOMAIN s \ DOMAIN t
      /\ o.op = "renameEntity" => k = e
      /\ o.op \notin {"createEntity", "dropEntity"} => e \in Kept(s, t)
  BY <1>3 DEF IsDue, DueIn
<1>7. \A d \in Kept(s, t) : d \in DOMAIN s /\ d \in DOMAIN t /\ d \in DOMAIN c
  BY <1>4, <1>5 DEF Kept
<1>. HIDE DEF M
<1>8. ASSUME NEW d \in Kept(s, t), d # e PROVE EntityBetween(s[d], t[d], c[d], d, M)
  <2>1. \A kind, h : <<kind, d, h>> \in M <=> <<kind, d, h>> \in L
    BY <1>2, <1>8
  <2>. QED
    BY <1>4, <2>1, OtherEntities
<1>9. ASSUME DOMAIN r \subseteq DOMAIN s \cup DOMAIN t,
             \A d : d \in DOMAIN r <=>
               (d \in DOMAIN t /\ <<"createEntity", d, d>> \notin M) \/ <<"dropEntity", d, d>> \in M,
             \A d \in DOMAIN r : (d \notin DOMAIN t => r[d] = s[d]) /\ (d \notin DOMAIN s => r[d] = t[d]),
             \A d \in Kept(s, t) : d # e => r[d] = c[d],
             e \in Kept(s, t) => EntityBetween(s[e], t[e], r[e], e, M)
      PROVE  CatalogBetween(s, t, r, M)
  <2>1. \A d \in Kept(s, t) : EntityBetween(s[d], t[d], r[d], d, M)
    BY <1>8, <1>9
  <2>. HIDE DEF r
  <2>. QED
    BY <1>9, <2>1 DEF CatalogBetween
<1>10. CASE o.op = "createEntity"
  <2>1. r = With(c, e, t[e])
    BY <1>10 DEF ApplyOperation, Carries
  <2>2. DOMAIN r = DOMAIN c \cup {e} /\ r[e] = t[e] /\ \A d \in DOMAIN c : d # e => r[d] = c[d]
    BY <2>1 DEF With
  <2>. HIDE DEF r
  <2>3. e \in DOMAIN t /\ e \notin DOMAIN s /\ e \notin Kept(s, t) /\ e \notin DOMAIN c
    BY <1>1, <1>4, <1>5, <1>6, <1>10 DEF Kept
  <2>4. DOMAIN r \subseteq DOMAIN s \cup DOMAIN t
    BY <1>4, <1>5, <2>2, <2>3
  <2>5. \A d : d \in DOMAIN r <=>
          (d \in DOMAIN t /\ <<"createEntity", d, d>> \notin M) \/ <<"dropEntity", d, d>> \in M
    <3>. TAKE d
    <3>1. CASE d = e
      BY <1>2, <1>6, <1>10, <2>2, <2>3, <3>1
    <3>2. CASE d # e
      BY <1>2, <1>4, <2>2, <3>2
    <3>. QED
      BY <3>1, <3>2
  <2>6. \A d \in DOMAIN r : (d \notin DOMAIN t => r[d] = s[d]) /\ (d \notin DOMAIN s => r[d] = t[d])
    BY <1>4, <2>2, <2>3
  <2>7. \A d \in Kept(s, t) : d # e => r[d] = c[d]
    BY <1>7, <2>2
  <2>8. CatalogBetween(s, t, r, M)
    BY <1>9, <2>3, <2>4, <2>5, <2>6, <2>7
  <2>. QED
    BY <1>10, <2>3, <2>8 DEF Admissible, M, r
<1>11. CASE o.op = "dropEntity"
  <2>1. r = Without(c, e)
    BY <1>11 DEF ApplyOperation
  <2>2. DOMAIN r = DOMAIN c \ {e} /\ \A d \in DOMAIN c : d # e => r[d] = c[d]
    BY <2>1 DEF Without
  <2>. HIDE DEF r
  <2>3. e \notin DOMAIN t /\ e \notin Kept(s, t)
    BY <1>6, <1>11 DEF Kept
  <2>4. DOMAIN r \subseteq DOMAIN s \cup DOMAIN t
    BY <1>4, <1>5, <2>2
  <2>5. \A d : d \in DOMAIN r <=>
          (d \in DOMAIN t /\ <<"createEntity", d, d>> \notin M) \/ <<"dropEntity", d, d>> \in M
    <3>. TAKE d
    <3>1. CASE d = e
      BY <1>2, <1>6, <1>11, <2>2, <2>3, <3>1
    <3>2. CASE d # e
      BY <1>2, <1>4, <2>2, <3>2
    <3>. QED
      BY <3>1, <3>2
  <2>6. \A d \in DOMAIN r : (d \notin DOMAIN t => r[d] = s[d]) /\ (d \notin DOMAIN s => r[d] = t[d])
    BY <1>4, <2>2
  <2>7. \A d \in Kept(s, t) : d # e => r[d] = c[d]
    BY <1>7, <2>2
  <2>8. CatalogBetween(s, t, r, M)
    BY <1>9, <2>3, <2>4, <2>5, <2>6, <2>7
  <2>. QED
    BY <1>11, <2>8 DEF Admissible, M, r
<1>12. CASE o.op \notin {"createEntity", "dropEntity"}
  <2>. DEFINE y == ApplyToEntity(c[e], o)
  <2>1. r = With(c, e, y)
    BY <1>12 DEF ApplyOperation
  <2>2. e \in Kept(s, t) /\ e \in DOMAIN s /\ e \in DOMAIN t /\ e \in DOMAIN c
    BY <1>6, <1>7, <1>12
  <2>3. IsEntity(t[e]) /\ IsEntity(c[e])
    BY <2>2 DEF IsCatalog, IsMap
  <2>4. StagedIn(s[e], t[e], e, L) /\ StagedIn(s[e], t[e], e, M)
    BY <1>3, <2>2, StagedEntity
  <2>5. EntityBetween(s[e], t[e], c[e], e, L)
    BY <1>4, <2>2
  <2>6. /\ EntityBetween(s[e], t[e], y, e, M)
        /\ o.op = "addField" => k \notin DOMAIN c[e].fields
        /\ o.op = "createIndex" => k \notin DOMAIN c[e].indexes
    BY <1>6, <1>12, <2>3, <2>4, <2>5, EntityStep DEF M
  <2>. HIDE DEF r, y
  <2>7. DOMAIN r = DOMAIN c /\ r[e] = y /\ \A d \in DOMAIN c : d # e => r[d] = c[d]
    BY <2>1, <2>2 DEF With
  <2>8. DOMAIN r \subseteq DOMAIN s \cup DOMAIN t
    BY <1>4, <1>5, <2>7
  <2>9. \A d : d \in DOMAIN r <=>
          (d \in DOMAIN t /\ <<"createEntity", d, d>> \notin M) \/ <<"dropEntity", d, d>> \in M
    BY <1>2, <1>4, <1>12, <2>7
  <2>10. \A d \in DOMAIN r : (d \notin DOMAIN t => r[d] = s[d]) /\ (d \notin DOMAIN s => r[d] = t[d])
    BY <1>4, <2>2, <2>7
  <2>11. \A d \in Kept(s, t) : d # e => r[d] = c[d]
    BY <1>7, <2>7
  <2>12. EntityBetween(s[e], t[e], r[e], e, M)
    BY <2>6, <2>7
  <2>13. CatalogBetween(s, t, r, M)
    BY <1>9, <2>8, <2>9, <2>10, <2>11, <2>12
  <2>14. Admissible(c, o)
    BY <1>12, <2>2, <2>6 DEF Admissible
  <2>. QED
    BY <2>13, <2>14 DEF M, r
<1>. QED
  BY <1>10, <1>11, <1>12 DEF M, r

\* At first everything is left.
LEMMA StartBetween ==
  ASSUME NEW s, NEW t, NEW L, Staged(s, t, L),
         \A kind, e, k : IsDue(s, t, kind, e, k) => <<kind, e, k>> \in L
  PROVE  CatalogBetween(s, t, s, L)
<1>1. \A kind, e, k : <<kind, e, k>> \in L <=> IsDue(s, t, kind, e, k)
  BY DEF Staged
<1>2. /\ \A e : <<"dropEntity", e, e>> \in L <=> e \in DOMAIN s \ DOMAIN t
      /\ \A e : <<"createEntity", e, e>> \in L <=> e \in DOMAIN t \ DOMAIN s
      /\ \A e \in Kept(s, t) : <<"renameEntity", e, e>> \in L <=> s[e].name # t[e].name
  BY <1>1 DEF IsDue, DueIn
<1>3. ASSUME NEW e \in Kept(s, t)
      PROVE  EntityBetween(s[e], t[e], s[e], e, L)
  <2>. DEFINE a == s[e]
              b == t[e]
  <2>1. \A k : /\ <<"dropField", e, k>> \in L <=> k \in DroppedFields(a, b)
               /\ <<"addField", e, k>> \in L <=> k \in AddedFields(a, b)
               /\ <<"renameField", e, k>> \in L <=> k \in RenamedFields(a, b)
               /\ <<"alterField", e, k>> \in L <=> k \in AlteredFields(a, b)
    BY <1>1 DEF IsDue, DueIn
  <2>2. \A k : /\ <<"dropIndex", e, k>> \in L <=> k \in DroppedIndexes(a, b)
               /\ <<"createIndex", e, k>> \in L <=> k \in CreatedIndexes(a, b)
               /\ <<"renameIndex", e, k>> \in L <=> k \in RenamedIndexes(a, b) \ ReplacedIndexes(a, b)
    BY <1>1 DEF IsDue, DueIn
  <2>3. a.name = IF <<"renameEntity", e, e>> \in L THEN a.name ELSE b.name
    BY <1>2
  <2>. HIDE DEF a, b
  <2>4. FieldsBetween(a.fields, b.fields, a.fields, e, L)
    BY <2>1 DEF FieldsBetween, DroppedFields, AddedFields, RenamedFields, AlteredFields, Kept
  <2>5. IndexesBetween(a.indexes, b.indexes, a.indexes, e, L)
    <3>1. \A k : k \in DOMAIN a.indexes <=>
            (k \in DOMAIN b.indexes /\ <<"createIndex", e, k>> \notin L) \/ <<"dropIndex", e, k>> \in L
      BY <2>2 DEF DroppedIndexes, CreatedIndexes, ReplacedIndexes, Kept
    <3>2. ASSUME NEW k \in DOMAIN a.indexes, <<"dropIndex", e, k>> \notin L
          PROVE  /\ <<"renameIndex", e, k>> \notin L => a.indexes[k].name = b.indexes[k].name
                 /\ a.indexes[k].fields = b.indexes[k].fields
                 /\ a.indexes[k].unique = b.indexes[k].unique
      BY <2>2, <3>2 DEF DroppedIndexes, RenamedIndexes, ReplacedIndexes, DefinitionChanged, Kept
    <3>. QED
      BY <3>1, <3>2 DEF IndexesBetween
  <2>6. EntityBetween(a, b, a, e, L)
    BY <2>3, <2>4, <2>5 DEF EntityBetween
  <2>. QED
    BY <2>6 DEF a, b
<1>. QED
  BY <1>2, <1>3 DEF CatalogBetween

\* In the end nothing is left, and the target has been reached.
LEMMA EndBetween ==
  ASSUME NEW s, NEW t, NEW c, IsCatalog(s), IsCatalog(t), IsCatalog(c), CatalogBetween(s, t, c, {})
  PROVE  c = t
<1>1. DOMAIN c = DOMAIN t
  BY DEF CatalogBetween
<1>2. ASSUME NEW e \in DOMAIN c PROVE c[e] = t[e]
  <2>1. CASE e \notin DOMAIN s
    BY <2>1 DEF CatalogBetween
  <2>2. CASE e \in DOMAIN s
    <3>. DEFINE x == c[e]
                b == t[e]
    <3>1. EntityBetween(s[e], b, x, e, {})
      BY <1>1, <2>2 DEF CatalogBetween, Kept
    <3>2. IsEntity(x) /\ IsEntity(b)
      BY <1>1 DEF IsCatalog, IsMap
    <3>. HIDE DEF x, b
    <3>3. x.fields = b.fields
      <4>1. DOMAIN x.fields = DOMAIN b.fields
        BY <3>1 DEF EntityBetween, FieldsBetween
      <4>2. \A k \in DOMAIN x.fields : x.fields[k] \in Field /\ b.fields[k] \in Field
        BY <3>2, <4>1 DEF IsEntity, IsMap
      <4>3. \A k \in DOMAIN x.fields : /\ x.fields[k].name = b.fields[k].name
                                       /\ x.fields[k].type = b.fields[k].type
                                       /\ x.fields[k].required = b.fields[k].required
        BY <3>1, <4>1 DEF EntityBetween, FieldsBetween
      <4>4. \A k \in DOMAIN x.fields : x.fields[k] = b.fields[k]
        BY <4>2, <4>3 DEF Field
      <4>5. /\ x.fields = [k \in DOMAIN x.fields |-> x.fields[k]]
            /\ b.fields = [k \in DOMAIN b.fields |-> b.fields[k]]
        BY <3>2 DEF IsEntity, IsMap
      <4>. QED
        BY <4>1, <4>4, <4>5, EqualMaps
    <3>4. x.indexes = b.indexes
      <4>1. DOMAIN x.indexes = DOMAIN b.indexes
        BY <3>1 DEF EntityBetween, IndexesBetween
      <4>2. \A k \in DOMAIN x.indexes : x.indexes[k] \in Index /\ b.indexes[k] \in Index
        BY <3>2, <4>1 DEF IsEntity, IsMap
      <4>3. \A k \in DOMAIN x.indexes : /\ x.indexes[k].name = b.indexes[k].name
                                        /\ x.indexes[k].fields = b.indexes[k].fields
                                        /\ x.indexes[k].unique = b.indexes[k].unique
        BY <3>1, <4>1 DEF EntityBetween, IndexesBetween
      <4>4. \A y, z \in Index : y.name = z.name /\ y.fields = z.fields /\ y.unique = z.unique => y = z
        BY DEF Index
      <4>5. \A k \in DOMAIN x.indexes : x.indexes[k] = b.indexes[k]
        BY <4>2, <4>3, <4>4
      <4>6. /\ x.indexes = [k \in DOMAIN x.indexes |-> x.indexes[k]]
            /\ b.indexes = [k \in DOMAIN b.indexes |-> b.indexes[k]]
        BY <3>2 DEF IsEntity, IsMap
      <4>. QED
        BY <4>1, <4>5, <4>6, EqualMaps
    <3>5. x.name = b.name
      BY <3>1 DEF EntityBetween
    <3>6. x = b
      BY <3>2, <3>3, <3>4, <3>5 DEF IsEntity
    <3>. QED
      BY <3>6 DEF x, b
  <2>. QED
    BY <2>1, <2>2
<1>3. c = [e \in DOMAIN c |-> c[e]] /\ t = [e \in DOMAIN t |-> t[e]]
  BY DEF IsCatalog, IsMap
<1>. QED
  BY <1>1, <1>2, <1>3, EqualMaps

-----------------------------------------------------------------------------
(***************************************************************************)
(* A catalog on its way is valid, unless a rename has taken a name that a  *)
(* later one has yet to give up.                                           *)
(***************************************************************************)
EntityClash(s, t, L) ==
  \E e, f \in Kept(s, t) :
    /\ s[e].name # t[e].name /\ <<"renameEntity", e, e>> \notin L
    /\ <<"renameEntity", f, f>> \in L /\ t[e].name = s[f].name

FieldClash(s, t, L) ==
  \E e \in Kept(s, t) : \E k \in RenamedFields(s[e], t[e]) : \E j :
    /\ <<"renameField", e, k>> \notin L /\ <<"renameField", e, j>> \in L
    /\ t[e].fields[k].name = s[e].fields[j].name

IndexClash(s, t, L) ==
  \E e \in Kept(s, t) : \E k \in RenamedIndexes(s[e], t[e]) \ ReplacedIndexes(s[e], t[e]) : \E j :
    /\ <<"renameIndex", e, k>> \notin L /\ <<"renameIndex", e, j>> \in L
    /\ t[e].indexes[k].name = s[e].indexes[j].name

\* A map takes each name from one of two maps, and no name of the one only is a name of the
\* other only.
NamesFrom(f, g, h, Old, New) ==
  /\ \A k \in DOMAIN h : k \in Old \/ k \in New
  /\ \A k \in DOMAIN h : k \in Old => k \in DOMAIN f /\ h[k].name = f[k].name
  /\ \A k \in DOMAIN h : k \in New => k \in DOMAIN g /\ h[k].name = g[k].name
  /\ \A k, j \in DOMAIN h :
       k \in Old /\ k \notin New /\ j \in New /\ j \notin Old => f[k].name # g[j].name

\* Its names are then as unique as theirs.
LEMMA NamesBetween ==
  ASSUME NEW f, NEW g, UniqueNames(f), UniqueNames(g), NEW h, NEW Old, NEW New,
         NamesFrom(f, g, h, Old, New)
  PROVE  UniqueNames(h)
<1>. USE DEF NamesFrom
<1>. SUFFICES ASSUME NEW i \in DOMAIN h, NEW j \in DOMAIN h, h[i].name = h[j].name
              PROVE  i = j
  BY DEF UniqueNames
<1>1. CASE i \in Old /\ j \in Old
  BY <1>1 DEF UniqueNames
<1>2. CASE i \in New /\ j \in New
  BY <1>2 DEF UniqueNames
<1>3. CASE i \in Old /\ i \notin New /\ j \in New /\ j \notin Old
  BY <1>3
<1>4. CASE j \in Old /\ j \notin New /\ i \in New /\ i \notin Old
  BY <1>4
<1>. QED
  BY <1>1, <1>2, <1>3, <1>4

\* The buckets in their order.
LEMMA PlaceFacts ==
  /\ DOMAIN Place = {"dropIndex", "dropField", "dropEntity", "renameEntity", "createEntity",
                     "renameField", "addField", "alterField", "renameIndex", "createIndex"}
  /\ Place["dropIndex"] = 1 /\ Place["dropField"] = 2 /\ Place["dropEntity"] = 3
  /\ Place["renameEntity"] = 4 /\ Place["createEntity"] = 5 /\ Place["renameField"] = 6
  /\ Place["addField"] = 7 /\ Place["alterField"] = 8 /\ Place["renameIndex"] = 9
  /\ Place["createIndex"] = 10
BY DEF Place

\* In one entity, what belongs to later buckets is left as long as something of an earlier one is.
LEMMA LeftInOrder ==
  ASSUME NEW a, NEW b, NEW e, NEW L, StagedIn(a, b, e, L)
  PROVE  /\ \A k, j : <<"dropField", e, k>> \in L /\ j \in RenamedFields(a, b) => <<"renameField", e, j>> \in L
         /\ \A k, j : <<"dropField", e, k>> \in L /\ j \in AddedFields(a, b) => <<"addField", e, j>> \in L
         /\ \A k, j : <<"renameField", e, k>> \in L /\ j \in AddedFields(a, b) => <<"addField", e, j>> \in L
         /\ \A k, j : <<"dropIndex", e, k>> \in L /\ j \in DroppedFields(a, b) => <<"dropField", e, j>> \in L
         /\ \A k, j : <<"dropIndex", e, k>> \in L /\ j \in RenamedIndexes(a, b) \ ReplacedIndexes(a, b)
                        => <<"renameIndex", e, j>> \in L
         /\ \A k, j : <<"dropIndex", e, k>> \in L /\ j \in CreatedIndexes(a, b) => <<"createIndex", e, j>> \in L
         /\ \A k, j : <<"renameIndex", e, k>> \in L /\ j \in CreatedIndexes(a, b) => <<"createIndex", e, j>> \in L
         /\ \A k, j : <<"addField", e, k>> \in L /\ j \in CreatedIndexes(a, b) => <<"createIndex", e, j>> \in L
<1>1. \A kind, k, other, h :
        /\ <<kind, e, k>> \in L /\ kind \in DOMAIN Place
        /\ other \in DOMAIN Place /\ DueIn(a, b, other, h) /\ Place[kind] < Place[other]
        => <<other, e, h>> \in L
  BY DEF StagedIn
<1>2. /\ \A j \in RenamedFields(a, b) : DueIn(a, b, "renameField", j)
      /\ \A j \in AddedFields(a, b) : DueIn(a, b, "addField", j)
      /\ \A j \in DroppedFields(a, b) : DueIn(a, b, "dropField", j)
      /\ \A j \in RenamedIndexes(a, b) \ ReplacedIndexes(a, b) : DueIn(a, b, "renameIndex", j)
      /\ \A j \in CreatedIndexes(a, b) : DueIn(a, b, "createIndex", j)
  BY DEF DueIn
<1>3. \A k, j : <<"dropField", e, k>> \in L /\ j \in RenamedFields(a, b) => <<"renameField", e, j>> \in L
  BY <1>1, <1>2, PlaceFacts
<1>4. \A k, j : <<"dropField", e, k>> \in L /\ j \in AddedFields(a, b) => <<"addField", e, j>> \in L
  BY <1>1, <1>2, PlaceFacts
<1>5. \A k, j : <<"renameField", e, k>> \in L /\ j \in AddedFields(a, b) => <<"addField", e, j>> \in L
  BY <1>1, <1>2, PlaceFacts
<1>6. \A k, j : <<"dropIndex", e, k>> \in L /\ j \in DroppedFields(a, b) => <<"dropField", e, j>> \in L
  BY <1>1, <1>2, PlaceFacts
<1>7. \A k, j : <<"dropIndex", e, k>> \in L /\ j \in RenamedIndexes(a, b) \ ReplacedIndexes(a, b)
                  => <<"renameIndex", e, j>> \in L
  BY <1>1, <1>2, PlaceFacts
<1>8. \A k, j : <<"dropIndex", e, k>> \in L /\ j \in CreatedIndexes(a, b) => <<"createIndex", e, j>> \in L
  BY <1>1, <1>2, PlaceFacts
<1>9. \A k, j : <<"renameIndex", e, k>> \in L /\ j \in CreatedIndexes(a, b) => <<"createIndex", e, j>> \in L
  BY <1>1, <1>2, PlaceFacts
<1>10. \A k, j : <<"addField", e, k>> \in L /\ j \in CreatedIndexes(a, b) => <<"createIndex", e, j>> \in L
  BY <1>1, <1>2, PlaceFacts
<1>. QED
  BY <1>3, <1>4, <1>5, <1>6, <1>7, <1>8, <1>9, <1>10

\* What is left for an entity is due.
LEMMA LeftIsDue ==
  ASSUME NEW a, NEW b, NEW e, NEW L, StagedIn(a, b, e, L)
  PROVE  /\ \A k : <<"dropField", e, k>> \in L => k \in DroppedFields(a, b)
         /\ \A k : <<"addField", e, k>> \in L => k \in AddedFields(a, b)
         /\ \A k : <<"renameField", e, k>> \in L => k \in RenamedFields(a, b)
         /\ \A k : <<"dropIndex", e, k>> \in L => k \in DroppedIndexes(a, b)
         /\ \A k : <<"createIndex", e, k>> \in L => k \in CreatedIndexes(a, b)
         /\ \A k : <<"renameIndex", e, k>> \in L => k \in RenamedIndexes(a, b) \ ReplacedIndexes(a, b)
BY DEF StagedIn, DueIn

\* Fields on their way have different names unless two renames clash.
LEMMA FieldNamesBetween ==
  ASSUME NEW a, NEW b, NEW x, NEW e, NEW L, StagedIn(a, b, e, L),
         FieldsBetween(a.fields, b.fields, x.fields, e, L),
         UniqueNames(a.fields), UniqueNames(b.fields),
         \A k \in RenamedFields(a, b) : \A j :
           <<"renameField", e, k>> \notin L /\ <<"renameField", e, j>> \in L
             => b.fields[k].name # a.fields[j].name
  PROVE  UniqueNames(x.fields)
<1>. DEFINE f == a.fields
            g == b.fields
            h == x.fields
            Old == {k \in DOMAIN h : \/ k \notin DOMAIN g \/ <<"renameField", e, k>> \in L
                                     \/ k \in DOMAIN f /\ f[k].name = g[k].name}
            New == {k \in DOMAIN h : k \in DOMAIN g /\ <<"renameField", e, k>> \notin L}
<1>1. /\ \A k : k \in DOMAIN h <=>
           (k \in DOMAIN g /\ <<"addField", e, k>> \notin L) \/ <<"dropField", e, k>> \in L
      /\ \A k \in DOMAIN h :
           h[k].name = IF k \notin DOMAIN g \/ <<"renameField", e, k>> \in L THEN f[k].name ELSE g[k].name
  BY DEF FieldsBetween
<1>2. /\ \A k : <<"dropField", e, k>> \in L => k \in DOMAIN f \ DOMAIN g
      /\ \A k : <<"renameField", e, k>> \in L => k \in DOMAIN f \cap DOMAIN g
  BY LeftIsDue DEF DroppedFields, RenamedFields, Kept
<1>3. \A k \in DOMAIN h : k \in Old => k \in DOMAIN f /\ h[k].name = f[k].name
  BY <1>1, <1>2
<1>4. \A k \in DOMAIN h : k \in New => k \in DOMAIN g /\ h[k].name = g[k].name
  BY <1>1
<1>5. \A k \in DOMAIN h : k \in Old \/ k \in New
  OBVIOUS
<1>6. ASSUME NEW k \in DOMAIN h, NEW j \in DOMAIN h, k \in Old, k \notin New, j \in New, j \notin Old
      PROVE  f[k].name # g[j].name
  <2>1. j \in DOMAIN g /\ <<"renameField", e, j>> \notin L /\ <<"addField", e, j>> \notin L
    BY <1>1, <1>2, <1>6
  <2>2. j \in AddedFields(a, b) \/ j \in RenamedFields(a, b)
    BY <1>6, <2>1 DEF AddedFields, RenamedFields, Kept
  <2>3. <<"dropField", e, k>> \in L \/ <<"renameField", e, k>> \in L
    BY <1>1, <1>6
  <2>. HIDE DEF f, g, h, Old, New
  <2>4. <<"renameField", e, k>> \in L /\ j \in RenamedFields(a, b)
    BY <2>1, <2>2, <2>3, LeftInOrder
  <2>. QED
    BY <2>1, <2>4 DEF f, g
<1>7. UniqueNames(f) /\ UniqueNames(g)
  OBVIOUS
<1>. HIDE DEF f, g, h, Old, New
<1>8. NamesFrom(f, g, h, Old, New)
  BY <1>3, <1>4, <1>5, <1>6 DEF NamesFrom
<1>9. UniqueNames(h)
  BY <1>7, <1>8, NamesBetween
<1>. QED
  BY <1>9 DEF h

\* Indexes on their way have different names unless two renames clash.
LEMMA IndexNamesBetween ==
  ASSUME NEW a, NEW b, NEW x, NEW e, NEW L, StagedIn(a, b, e, L),
         IndexesBetween(a.indexes, b.indexes, x.indexes, e, L),
         UniqueNames(a.indexes), UniqueNames(b.indexes),
         \A k \in RenamedIndexes(a, b) \ ReplacedIndexes(a, b) : \A j :
           <<"renameIndex", e, k>> \notin L /\ <<"renameIndex", e, j>> \in L
             => b.indexes[k].name # a.indexes[j].name
  PROVE  UniqueNames(x.indexes)
<1>. DEFINE f == a.indexes
            g == b.indexes
            h == x.indexes
            Old == {k \in DOMAIN h : \/ <<"dropIndex", e, k>> \in L \/ <<"renameIndex", e, k>> \in L
                                     \/ k \in DOMAIN f /\ f[k].name = g[k].name}
            New == {k \in DOMAIN h : <<"dropIndex", e, k>> \notin L /\ <<"renameIndex", e, k>> \notin L}
<1>1. /\ \A k : k \in DOMAIN h <=>
           (k \in DOMAIN g /\ <<"createIndex", e, k>> \notin L) \/ <<"dropIndex", e, k>> \in L
      /\ \A k \in DOMAIN h :
           h[k].name = IF <<"dropIndex", e, k>> \in L \/ <<"renameIndex", e, k>> \in L
                       THEN f[k].name ELSE g[k].name
  BY DEF IndexesBetween
<1>2. /\ \A k : <<"dropIndex", e, k>> \in L => k \in DOMAIN f
      /\ \A k : <<"renameIndex", e, k>> \in L => k \in DOMAIN f \cap DOMAIN g
  BY LeftIsDue DEF DroppedIndexes, RenamedIndexes, ReplacedIndexes, Kept
<1>3. \A k \in DOMAIN h : k \in Old => k \in DOMAIN f /\ h[k].name = f[k].name
  BY <1>1, <1>2
<1>4. \A k \in DOMAIN h : k \in New => k \in DOMAIN g /\ h[k].name = g[k].name
  BY <1>1
<1>5. \A k \in DOMAIN h : k \in Old \/ k \in New
  OBVIOUS
<1>6. ASSUME NEW k \in DOMAIN h, NEW j \in DOMAIN h, k \in Old, k \notin New, j \in New, j \notin Old
      PROVE  f[k].name # g[j].name
  <2>1. j \in DOMAIN g /\ <<"renameIndex", e, j>> \notin L /\ <<"createIndex", e, j>> \notin L
    BY <1>1, <1>6
  <2>2. j \in CreatedIndexes(a, b) \/ j \in RenamedIndexes(a, b) \ ReplacedIndexes(a, b)
    BY <1>6, <2>1 DEF CreatedIndexes, RenamedIndexes, Kept
  <2>3. <<"dropIndex", e, k>> \in L \/ <<"renameIndex", e, k>> \in L
    BY <1>1, <1>6
  <2>. HIDE DEF f, g, h, Old, New
  <2>4. <<"renameIndex", e, k>> \in L /\ j \in RenamedIndexes(a, b) \ ReplacedIndexes(a, b)
    BY <2>1, <2>2, <2>3, LeftInOrder
  <2>. QED
    BY <2>1, <2>4 DEF f, g
<1>7. UniqueNames(f) /\ UniqueNames(g)
  OBVIOUS
<1>. HIDE DEF f, g, h, Old, New
<1>8. NamesFrom(f, g, h, Old, New)
  BY <1>3, <1>4, <1>5, <1>6 DEF NamesFrom
<1>9. UniqueNames(h)
  BY <1>7, <1>8, NamesBetween
<1>. QED
  BY <1>9 DEF h

\* The fields of an index are there as long as the index is.
LEMMA IndexesStayValid ==
  ASSUME NEW a, NEW b, NEW x, NEW e, NEW L, StagedIn(a, b, e, L),
         FieldsBetween(a.fields, b.fields, x.fields, e, L),
         IndexesBetween(a.indexes, b.indexes, x.indexes, e, L),
         \A k \in DOMAIN a.indexes : ValidIndex(a.indexes[k], a.fields),
         \A k \in DOMAIN b.indexes : ValidIndex(b.indexes[k], b.fields),
         NEW k \in DOMAIN x.indexes
  PROVE  ValidIndex(x.indexes[k], x.fields)
<1>1. /\ \A i : i \in DOMAIN x.fields <=>
           (i \in DOMAIN b.fields /\ <<"addField", e, i>> \notin L) \/ <<"dropField", e, i>> \in L
      /\ (k \in DOMAIN b.indexes /\ <<"createIndex", e, k>> \notin L) \/ <<"dropIndex", e, k>> \in L
      /\ x.indexes[k].fields = IF <<"dropIndex", e, k>> \in L THEN a.indexes[k].fields ELSE b.indexes[k].fields
  BY DEF FieldsBetween, IndexesBetween
<1>2. \A i : <<"addField", e, i>> \in L => i \in DOMAIN b.fields \ DOMAIN a.fields
  BY LeftIsDue DEF AddedFields
<1>3. CASE <<"dropIndex", e, k>> \in L
  <2>1. k \in DOMAIN a.indexes
    BY <1>3, LeftIsDue DEF DroppedIndexes, ReplacedIndexes, Kept
  <2>2. \A i \in DOMAIN a.fields : i \in DOMAIN x.fields
    <3>1. \A i \in DroppedFields(a, b) : <<"dropField", e, i>> \in L
      BY <1>3, LeftInOrder
    <3>. QED
      BY <1>1, <1>2, <3>1 DEF DroppedFields
  <2>3. x.indexes[k].fields = a.indexes[k].fields /\ ValidIndex(a.indexes[k], a.fields)
    BY <1>1, <1>3, <2>1
  <2>. QED
    BY <2>2, <2>3 DEF ValidIndex
<1>4. CASE <<"dropIndex", e, k>> \notin L /\ k \in CreatedIndexes(a, b)
  <2>1. k \in DOMAIN b.indexes /\ <<"createIndex", e, k>> \notin L
    BY <1>1, <1>4
  <2>2. \A i : <<"addField", e, i>> \notin L
    BY <1>4, <2>1, LeftInOrder
  <2>3. x.indexes[k].fields = b.indexes[k].fields /\ ValidIndex(b.indexes[k], b.fields)
    BY <1>1, <1>4, <2>1
  <2>. QED
    BY <1>1, <2>2, <2>3 DEF ValidIndex
<1>5. CASE <<"dropIndex", e, k>> \notin L /\ k \notin CreatedIndexes(a, b)
  <2>1. k \in DOMAIN b.indexes /\ k \in DOMAIN a.indexes /\ a.indexes[k].fields = b.indexes[k].fields
    BY <1>1, <1>5 DEF CreatedIndexes, ReplacedIndexes, DefinitionChanged, Kept
  <2>2. \A i \in DOMAIN a.fields \cap DOMAIN b.fields : i \in DOMAIN x.fields
    BY <1>1, <1>2
  <2>3. /\ x.indexes[k].fields = b.indexes[k].fields
        /\ ValidIndex(b.indexes[k], b.fields) /\ ValidIndex(a.indexes[k], a.fields)
    BY <1>1, <1>5, <2>1
  <2>. QED
    BY <2>1, <2>2, <2>3 DEF ValidIndex
<1>. QED
  BY <1>3, <1>4, <1>5

\* A catalog on its way is valid if no names clash.
LEMMA BetweenIsValid ==
  ASSUME NEW s, NEW t, NEW c, NEW L, ValidCatalog(s), ValidCatalog(t), Staged(s, t, L),
         CatalogBetween(s, t, c, L),
         ~ EntityClash(s, t, L), ~ FieldClash(s, t, L), ~ IndexClash(s, t, L)
  PROVE  ValidCatalog(c)
<1>. DEFINE Old == {e \in DOMAIN c : \/ e \notin DOMAIN t \/ <<"renameEntity", e, e>> \in L
                                     \/ e \in DOMAIN s /\ s[e].name = t[e].name}
            New == {e \in DOMAIN c : e \in DOMAIN t /\ <<"renameEntity", e, e>> \notin L}
<1>1. /\ \A e : e \in DOMAIN c <=>
           (e \in DOMAIN t /\ <<"createEntity", e, e>> \notin L) \/ <<"dropEntity", e, e>> \in L
      /\ \A e \in DOMAIN c : (e \notin DOMAIN t => c[e] = s[e]) /\ (e \notin DOMAIN s => c[e] = t[e])
      /\ \A e \in Kept(s, t) : EntityBetween(s[e], t[e], c[e], e, L)
  BY DEF CatalogBetween
<1>2. \A e \in Kept(s, t) : c[e].name = IF <<"renameEntity", e, e>> \in L THEN s[e].name ELSE t[e].name
  BY <1>1 DEF EntityBetween
<1>3. /\ \A e : <<"dropEntity", e, e>> \in L => e \in DOMAIN s \ DOMAIN t
      /\ \A e : <<"createEntity", e, e>> \in L => e \in DOMAIN t \ DOMAIN s
      /\ \A e : <<"renameEntity", e, e>> \in L => e \in DOMAIN s /\ e \in DOMAIN t
  BY DEF Staged, IsDue, DueIn, Kept
<1>4. /\ \A e, d : <<"dropEntity", e, e>> \in L /\ d \in DOMAIN t \ DOMAIN s => <<"createEntity", d, d>> \in L
      /\ \A e, d : <<"renameEntity", e, e>> \in L /\ d \in DOMAIN t \ DOMAIN s => <<"createEntity", d, d>> \in L
      /\ \A e, d : <<"dropEntity", e, e>> \in L /\ d \in Kept(s, t) /\ s[d].name # t[d].name
                     => <<"renameEntity", d, d>> \in L
  <2>1. \A kind, e, k, other, d, h :
          /\ <<kind, e, k>> \in L
          /\ other \in DOMAIN Place /\ IsDue(s, t, other, d, h) /\ Place[kind] < Place[other]
          => <<other, d, h>> \in L
    BY DEF Staged
  <2>2. /\ \A d \in DOMAIN t \ DOMAIN s : IsDue(s, t, "createEntity", d, d)
        /\ \A d \in Kept(s, t) : s[d].name # t[d].name => IsDue(s, t, "renameEntity", d, d)
    BY DEF IsDue
  <2>3. \A e, d : <<"dropEntity", e, e>> \in L /\ d \in DOMAIN t \ DOMAIN s => <<"createEntity", d, d>> \in L
    BY <2>1, <2>2, PlaceFacts
  <2>4. \A e, d : <<"renameEntity", e, e>> \in L /\ d \in DOMAIN t \ DOMAIN s => <<"createEntity", d, d>> \in L
    BY <2>1, <2>2, PlaceFacts
  <2>5. \A e, d : <<"dropEntity", e, e>> \in L /\ d \in Kept(s, t) /\ s[d].name # t[d].name
                    => <<"renameEntity", d, d>> \in L
    BY <2>1, <2>2, PlaceFacts
  <2>. QED
    BY <2>3, <2>4, <2>5
<1>5. UniqueNames(s) /\ UniqueNames(t)
  BY DEF ValidCatalog
<1>6. \A e \in DOMAIN c : e \in Old => e \in DOMAIN s /\ c[e].name = s[e].name
  BY <1>1, <1>2, <1>3 DEF Kept
<1>7. \A e \in DOMAIN c : e \in New => e \in DOMAIN t /\ c[e].name = t[e].name
  BY <1>1, <1>2 DEF Kept
<1>8. \A e \in DOMAIN c : e \in Old \/ e \in New
  OBVIOUS
<1>9. ASSUME NEW e \in DOMAIN c, NEW d \in DOMAIN c, e \in Old, e \notin New, d \in New, d \notin Old
      PROVE  s[e].name # t[d].name
  <2>1. d \in DOMAIN t /\ <<"renameEntity", d, d>> \notin L /\ <<"createEntity", d, d>> \notin L
    BY <1>1, <1>3, <1>9
  <2>2. d \in DOMAIN t \ DOMAIN s \/ (d \in Kept(s, t) /\ s[d].name # t[d].name)
    BY <1>9, <2>1 DEF Kept
  <2>3. <<"dropEntity", e, e>> \in L \/ <<"renameEntity", e, e>> \in L
    BY <1>1, <1>9
  <2>. HIDE DEF Old, New
  <2>4. <<"renameEntity", e, e>> \in L /\ d \in Kept(s, t) /\ s[d].name # t[d].name
    BY <1>4, <2>1, <2>2, <2>3
  <2>. QED
    BY <1>3, <2>1, <2>4 DEF EntityClash, Kept
<1>. HIDE DEF Old, New
<1>10. UniqueNames(c)
  <2>1. NamesFrom(s, t, c, Old, New)
    BY <1>6, <1>7, <1>8, <1>9 DEF NamesFrom
  <2>. QED
    BY <1>5, <2>1, NamesBetween
<1>11. ASSUME NEW e \in DOMAIN c
       PROVE  ValidEntity(c[e])
  <2>1. (e \in DOMAIN s => ValidEntity(s[e])) /\ (e \in DOMAIN t => ValidEntity(t[e]))
    BY DEF ValidCatalog
  <2>2. CASE e \notin DOMAIN t \/ e \notin DOMAIN s
    BY <1>1, <1>3, <2>1, <2>2
  <2>3. CASE e \in DOMAIN t /\ e \in DOMAIN s
    <3>. DEFINE a == s[e]
                b == t[e]
                x == c[e]
    <3>1. e \in Kept(s, t) /\ EntityBetween(a, b, x, e, L) /\ StagedIn(a, b, e, L)
      BY <1>1, <2>3, StagedEntity DEF Kept
    <3>2. ValidEntity(a) /\ ValidEntity(b)
      BY <2>1, <2>3
    <3>3. /\ \A k \in RenamedFields(a, b) : \A j :
               <<"renameField", e, k>> \notin L /\ <<"renameField", e, j>> \in L
                 => b.fields[k].name # a.fields[j].name
          /\ \A k \in RenamedIndexes(a, b) \ ReplacedIndexes(a, b) : \A j :
               <<"renameIndex", e, k>> \notin L /\ <<"renameIndex", e, j>> \in L
                 => b.indexes[k].name # a.indexes[j].name
      BY <3>1 DEF FieldClash, IndexClash
    <3>. HIDE DEF a, b, x
    <3>4. UniqueNames(x.fields)
      BY <3>1, <3>2, <3>3, FieldNamesBetween DEF EntityBetween, ValidEntity
    <3>5. UniqueNames(x.indexes)
      BY <3>1, <3>2, <3>3, IndexNamesBetween DEF EntityBetween, ValidEntity
    <3>6. \A k \in DOMAIN x.indexes : ValidIndex(x.indexes[k], x.fields)
      BY <3>1, <3>2, IndexesStayValid DEF EntityBetween, ValidEntity
    <3>7. ValidEntity(x)
      BY <3>4, <3>5, <3>6 DEF ValidEntity
    <3>. QED
      BY <3>7 DEF x
  <2>. QED
    BY <2>2, <2>3
<1>. QED
  BY <1>10, <1>11 DEF ValidCatalog

\* The next operation takes the catalog on, and a backend accepts it unless names clash.
LEMMA PlanStep ==
  ASSUME NEW s, NEW t, IsCatalog(s), IsCatalog(t), ValidCatalog(s), ValidCatalog(t),
         NEW q, q = DiffCatalog(s, t), NEW i \in 0 .. Len(q) - 1,
         NEW c, IsCatalog(c), CatalogBetween(s, t, c, Left(q, i))
  PROVE  /\ CatalogBetween(s, t, ApplyOperation(c, q[i + 1]), Left(q, i + 1))
         /\ \/ OperationAccepted(c, q[i + 1])
            \/ EntityClash(s, t, Left(q, i + 1))
            \/ FieldClash(s, t, Left(q, i + 1))
            \/ IndexClash(s, t, Left(q, i + 1))
<1>. DEFINE o == q[i + 1]
            L == Left(q, i)
            M == Left(q, i + 1)
            r == ApplyOperation(c, o)
<1>1. Listing(s, t, q)
  BY DiffLists
<1>2. /\ Len(q) \in Nat /\ Staged(s, t, L) /\ Staged(s, t, M)
      /\ Mark(o) \in L /\ M = L \ {Mark(o)}
  <2>1. Len(q) \in Nat
    BY <1>1, LeftFacts
  <2>2. i \in 0 .. Len(q) /\ i + 1 \in 0 .. Len(q)
    BY <2>1
  <2>. QED
    BY <1>1, <2>1, <2>2, LeftFacts
<1>3. i + 1 \in 1 .. Len(q)
  BY <1>2
<1>4. Carries(t, o) /\ o \in AllOps(s, t)
  BY <1>1, <1>3, ElementOfSeq DEF Listing
<1>5. IsOperation(o)
  BY <1>4, DiffOperations
<1>. HIDE DEF o, L, M
<1>6. CatalogBetween(s, t, r, M) /\ Admissible(c, o)
  <2>1. CatalogBetween(s, t, c, L)
    BY DEF L
  <2>. QED
    BY <1>2, <1>4, <1>5, <2>1, CatalogStep
<1>. HIDE DEF r
<1>7. ValidCatalog(r) \/ EntityClash(s, t, M) \/ FieldClash(s, t, M) \/ IndexClash(s, t, M)
  BY <1>2, <1>6, BetweenIsValid
<1>8. ValidCatalog(r) => OperationAccepted(c, o)
  BY <1>6 DEF OperationAccepted, Admissible, r
<1>. QED
  BY <1>6, <1>7, <1>8 DEF r, o, M

\* The rename o takes the name that the rename v of the same bucket gives up.
TakesNameOf(s, o, v) ==
  /\ o.op = v.op
  /\ \/ o.op = "renameEntity" /\ o.value = s[v.entity].name
     \/ o.op = "renameField" /\ o.entity = v.entity /\ o.value = s[v.entity].fields[v.key].name
     \/ o.op = "renameIndex" /\ o.entity = v.entity /\ o.value = s[v.entity].indexes[v.key].name

\* Where names clash, a rename comes before the one that gives its new name up.
LEMMA ClashesCollide ==
  ASSUME NEW s, NEW t, NEW q, Listing(s, t, q), NEW i \in 0 .. Len(q),
         \/ EntityClash(s, t, Left(q, i))
         \/ FieldClash(s, t, Left(q, i))
         \/ IndexClash(s, t, Left(q, i))
  PROVE  \E x, y \in 1 .. Len(q) : x < y /\ TakesNameOf(s, q[x], q[y])
<1>1. Len(q) \in Nat
  BY LeftFacts
<1>2. ASSUME NEW kind, NEW e, NEW k, IsDue(s, t, kind, e, k), <<kind, e, k>> \notin Left(q, i),
             NEW f, NEW j, <<kind, f, j>> \in Left(q, i)
      PROVE  \E x, y \in 1 .. Len(q) :
               /\ x < y /\ q[x].op = kind /\ q[x].entity = e /\ q[x].key = k /\ Carries(t, q[x])
               /\ q[y].op = kind /\ q[y].entity = f /\ q[y].key = j
  <2>1. PICK x \in 1 .. Len(q) : Mark(q[x]) = <<kind, e, k>>
    BY <1>2 DEF Listing
  <2>2. PICK y \in i + 1 .. Len(q) : Mark(q[y]) = <<kind, f, j>>
    BY <1>2 DEF Left
  <2>3. x \notin i + 1 .. Len(q)
    BY <1>2, <2>1 DEF Left
  <2>4. y \in 1 .. Len(q) /\ x < y
    BY <1>1, <2>3
  <2>5. /\ q[x].op = kind /\ q[x].entity = e /\ q[x].key = k
        /\ q[y].op = kind /\ q[y].entity = f /\ q[y].key = j
    BY <2>1, <2>2 DEF Mark
  <2>6. Carries(t, q[x])
    BY DEF Listing
  <2>. QED
    BY <2>4, <2>5, <2>6
<1>3. CASE EntityClash(s, t, Left(q, i))
  <2>1. PICK e, f \in Kept(s, t) :
          /\ s[e].name # t[e].name /\ <<"renameEntity", e, e>> \notin Left(q, i)
          /\ <<"renameEntity", f, f>> \in Left(q, i) /\ t[e].name = s[f].name
    BY <1>3 DEF EntityClash
  <2>2. IsDue(s, t, "renameEntity", e, e)
    BY <2>1 DEF IsDue
  <2>3. PICK x, y \in 1 .. Len(q) :
          /\ x < y /\ q[x].op = "renameEntity" /\ q[x].entity = e /\ Carries(t, q[x])
          /\ q[y].op = "renameEntity" /\ q[y].entity = f
    BY <1>2, <2>1, <2>2
  <2>4. q[x].value = s[q[y].entity].name
    BY <2>1, <2>3 DEF Carries
  <2>. QED
    BY <2>3, <2>4 DEF TakesNameOf
<1>4. CASE FieldClash(s, t, Left(q, i))
  <2>1. PICK e \in Kept(s, t) : \E k \in RenamedFields(s[e], t[e]) : \E j :
          /\ <<"renameField", e, k>> \notin Left(q, i) /\ <<"renameField", e, j>> \in Left(q, i)
          /\ t[e].fields[k].name = s[e].fields[j].name
    BY <1>4 DEF FieldClash
  <2>2. PICK k \in RenamedFields(s[e], t[e]) : \E j :
          /\ <<"renameField", e, k>> \notin Left(q, i) /\ <<"renameField", e, j>> \in Left(q, i)
          /\ t[e].fields[k].name = s[e].fields[j].name
    BY <2>1
  <2>3. PICK j :
          /\ <<"renameField", e, k>> \notin Left(q, i) /\ <<"renameField", e, j>> \in Left(q, i)
          /\ t[e].fields[k].name = s[e].fields[j].name
    BY <2>2
  <2>4. IsDue(s, t, "renameField", e, k)
    BY DEF IsDue, DueIn
  <2>5. PICK x, y \in 1 .. Len(q) :
          /\ x < y /\ q[x].op = "renameField" /\ q[x].entity = e /\ q[x].key = k /\ Carries(t, q[x])
          /\ q[y].op = "renameField" /\ q[y].entity = e /\ q[y].key = j
    BY <1>2, <2>3, <2>4
  <2>6. q[x].value = s[q[y].entity].fields[q[y].key].name
    BY <2>3, <2>5 DEF Carries
  <2>. QED
    BY <2>5, <2>6 DEF TakesNameOf
<1>5. CASE IndexClash(s, t, Left(q, i))
  <2>1. PICK e \in Kept(s, t) : \E k \in RenamedIndexes(s[e], t[e]) \ ReplacedIndexes(s[e], t[e]) : \E j :
          /\ <<"renameIndex", e, k>> \notin Left(q, i) /\ <<"renameIndex", e, j>> \in Left(q, i)
          /\ t[e].indexes[k].name = s[e].indexes[j].name
    BY <1>5 DEF IndexClash
  <2>2. PICK k \in RenamedIndexes(s[e], t[e]) \ ReplacedIndexes(s[e], t[e]) : \E j :
          /\ <<"renameIndex", e, k>> \notin Left(q, i) /\ <<"renameIndex", e, j>> \in Left(q, i)
          /\ t[e].indexes[k].name = s[e].indexes[j].name
    BY <2>1
  <2>3. PICK j :
          /\ <<"renameIndex", e, k>> \notin Left(q, i) /\ <<"renameIndex", e, j>> \in Left(q, i)
          /\ t[e].indexes[k].name = s[e].indexes[j].name
    BY <2>2
  <2>4. IsDue(s, t, "renameIndex", e, k)
    BY DEF IsDue, DueIn
  <2>5. PICK x, y \in 1 .. Len(q) :
          /\ x < y /\ q[x].op = "renameIndex" /\ q[x].entity = e /\ q[x].key = k /\ Carries(t, q[x])
          /\ q[y].op = "renameIndex" /\ q[y].entity = e /\ q[y].key = j
    BY <1>2, <2>3, <2>4
  <2>6. q[x].value = s[q[y].entity].indexes[q[y].key].name
    BY <2>3, <2>5 DEF Carries
  <2>. QED
    BY <2>5, <2>6 DEF TakesNameOf
<1>. QED
  BY <1>3, <1>4, <1>5
=============================================================================
