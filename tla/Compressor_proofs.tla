-------------------------- MODULE Compressor_proofs --------------------------
(***************************************************************************)
(* Proofs about the grouper and about Compressor with its readers, for any *)
(* calls, limits, chunk size and stored types: the groups of a call, the   *)
(* safety of every image a run leaves, the plan a run follows, and what an *)
(* image that a seekable reader accepts holds.  How a finished archive is  *)
(* read back and laid out is in Archive_proofs.                            *)
(***************************************************************************)
EXTENDS Compressor, SequenceTheorems, FunctionTheorems, FiniteSetTheorems, TLAPS

IsSeq(s) == \E S : s \in Seq(S)

------------------------------------------------------------------------------
(* Sequences.                                                              *)

\* A sequence is a function on an interval.
LEMMA SeqDomain == ASSUME NEW s, IsSeq(s) PROVE Len(s) \in Nat /\ DOMAIN s = 1 .. Len(s)
  <1>1. PICK S : s \in Seq(S)
    BY DEF IsSeq
  <1> QED BY <1>1, LenProperties

\* A function on an interval is a sequence.
LEMMA IntervalSeq ==
    ASSUME NEW n \in Nat, NEW s, s = [i \in 1 .. n |-> s[i]]
    PROVE  IsSeq(s) /\ Len(s) = n
  <1> DEFINE S == {s[i] : i \in 1 .. n}
  <1>1. s \in [1 .. n -> S]
    OBVIOUS
  <1> HIDE DEF S
  <1>2. s \in Seq(S)
    BY <1>1, IsASeq
  <1>3. DOMAIN s = 1 .. n
    BY <1>1
  <1>4. Len(s) = n
    BY <1>2, <1>3, LenProperties
  <1> QED BY <1>2, <1>4 DEF IsSeq

\* One more element.
LEMMA AppendSeq ==
    ASSUME NEW s, IsSeq(s), NEW x
    PROVE  /\ IsSeq(Append(s, x)) /\ Len(Append(s, x)) = Len(s) + 1
           /\ \A i \in 1 .. Len(s) : Append(s, x)[i] = s[i]
           /\ Append(s, x)[Len(s) + 1] = x
  <1>1. PICK S : s \in Seq(S)
    BY DEF IsSeq
  <1>2. s \in Seq(S \cup {x})
    <2>1. s \in [1 .. Len(s) -> S] /\ Len(s) \in Nat
      BY <1>1, LenProperties
    <2>2. s \in [1 .. Len(s) -> S \cup {x}]
      BY <2>1
    <2> QED BY <2>1, <2>2, IsASeq
  <1>3. x \in S \cup {x}
    OBVIOUS
  <1> HIDE DEF IsSeq
  <1>4. Append(s, x) \in Seq(S \cup {x})
    BY <1>2, <1>3, AppendProperties
  <1> QED BY <1>2, <1>3, <1>4, AppendProperties DEF IsSeq

\* One element replaced.
LEMMA ReplaceSeq ==
    ASSUME NEW s, IsSeq(s), NEW i, NEW x, NEW t, t = [s EXCEPT ![i] = x]
    PROVE  IsSeq(t) /\ Len(t) = Len(s)
  <1>1. Len(s) \in Nat /\ DOMAIN s = 1 .. Len(s)
    BY SeqDomain
  <1>2. t = [j \in 1 .. Len(s) |-> t[j]]
    BY <1>1
  <1> QED BY <1>1, <1>2, IntervalSeq

------------------------------------------------------------------------------
(* Sorting.                                                                *)

\* R is a strict total order on S.
StrictOrder(S, R) ==
    /\ \A x, y \in S : <<x, y>> \in R => ~(<<y, x>> \in R)
    /\ \A x, y, z \in S : <<x, y>> \in R /\ <<y, z>> \in R => <<x, z>> \in R
    /\ \A x, y \in S : x = y \/ <<x, y>> \in R \/ <<y, x>> \in R

\* The place of an element: how many come before it.
Rank(S, R) == [x \in S |-> Cardinality({y \in S : <<y, x>> \in R})]

\* s lists the elements of S, each once, in the order R.
Lists(s, S, R) ==
    /\ DOMAIN s = 1 .. Cardinality(S) /\ Cardinality(S) \in Nat
    /\ \A k \in DOMAIN s : s[k] \in S
    /\ \A x \in S : \E k \in DOMAIN s : s[k] = x
    /\ \A j, k \in DOMAIN s : j < k => s[j] # s[k] /\ <<s[j], s[k]>> \in R

\* What comes before another has a lower rank.
LEMMA RankOrder ==
    ASSUME NEW S, IsFiniteSet(S), NEW R, StrictOrder(S, R),
           NEW x \in S, NEW y \in S, <<x, y>> \in R
    PROVE  /\ Rank(S, R)[x] \in Nat /\ Rank(S, R)[y] \in Nat
           /\ Rank(S, R)[x] < Rank(S, R)[y]
  <1> DEFINE P(z) == {w \in S : <<w, z>> \in R}
  <1>1. P(x) \subseteq S /\ P(y) \subseteq S
    OBVIOUS
  <1>2. x \notin P(x) /\ P(x) \cup {x} \subseteq P(y)
    BY DEF StrictOrder
  <1>3. Rank(S, R)[x] = Cardinality(P(x)) /\ Rank(S, R)[y] = Cardinality(P(y))
    BY DEF Rank
  <1> HIDE DEF P
  <1>4. IsFiniteSet(P(x)) /\ IsFiniteSet(P(y))
    BY <1>1, FS_Subset
  <1>5. Cardinality(P(x)) \in Nat /\ Cardinality(P(y)) \in Nat
    BY <1>4, FS_CardinalityType
  <1>6. Cardinality(P(x) \cup {x}) = Cardinality(P(x)) + 1
    BY <1>2, <1>4, FS_AddElement
  <1>7. Cardinality(P(x) \cup {x}) <= Cardinality(P(y))
    BY <1>2, <1>4, FS_Subset
  <1> QED BY <1>3, <1>5, <1>6, <1>7

\* Every element has a rank below the number of elements.
LEMMA RankRange ==
    ASSUME NEW S, IsFiniteSet(S), NEW R, StrictOrder(S, R), NEW x \in S
    PROVE  Rank(S, R)[x] \in 0 .. Cardinality(S) - 1
  <1> DEFINE P == {w \in S : <<w, x>> \in R}
  <1>1. P \subseteq S /\ x \notin P /\ P \cup {x} \subseteq S
    BY DEF StrictOrder
  <1>2. Rank(S, R)[x] = Cardinality(P)
    BY DEF Rank
  <1> HIDE DEF P
  <1>3. IsFiniteSet(P)
    BY <1>1, FS_Subset
  <1>4. Cardinality(P) \in Nat /\ Cardinality(S) \in Nat
    BY <1>3, FS_CardinalityType
  <1>5. Cardinality(P \cup {x}) = Cardinality(P) + 1
    BY <1>1, <1>3, FS_AddElement
  <1>6. Cardinality(P \cup {x}) <= Cardinality(S)
    BY <1>1, FS_Subset
  <1> QED BY <1>2, <1>4, <1>5, <1>6

\* Listing the elements by rank lists them all, in order.
LEMMA RankedList ==
    ASSUME NEW S, IsFiniteSet(S), NEW R, StrictOrder(S, R), NEW s,
           s = [k \in 1 .. Cardinality(S) |-> CHOOSE x \in S : Rank(S, R)[x] = k - 1]
    PROVE  Lists(s, S, R)
  <1> DEFINE n == Cardinality(S)
             r == Rank(S, R)
             T == 0 .. n - 1
  <1>1. n \in Nat
    BY FS_CardinalityType
  <1>2. IsFiniteSet(T) /\ Cardinality(T) = n
    <2> HIDE DEF n
    <2>1. 0 \in Int /\ n - 1 \in Int /\ (0 > n - 1 <=> n = 0) /\ n - 1 - 0 + 1 = n
      BY <1>1
    <2> QED BY <2>1, FS_Interval
  <1>3. r \in [S -> T]
    <2>1. \A x \in S : r[x] \in T
      BY RankRange
    <2>2. r = [x \in S |-> r[x]]
      BY DEF Rank
    <2> HIDE DEF r, T
    <2> QED BY <2>1, <2>2
  <1>4. \A x, y \in S : r[x] = r[y] => x = y
    <2> SUFFICES ASSUME NEW x \in S, NEW y \in S, r[x] = r[y], x # y PROVE FALSE
      OBVIOUS
    <2>1. <<x, y>> \in R \/ <<y, x>> \in R
      BY DEF StrictOrder
    <2>2. /\ r[x] \in Nat /\ r[y] \in Nat
          /\ r[x] < r[y] \/ r[y] < r[x]
      <3> HIDE DEF r
      <3> QED BY <2>1, RankOrder DEF r
    <2> QED BY <2>2
  <1> HIDE DEF r, T, n
  <1>5. r \in Surjection(S, T)
    <2>1. r \in Injection(S, T)
      BY <1>3, <1>4 DEF Injection, IsInjective
    <2> QED BY <1>2, <2>1, FS_Injection DEF n
  <1>6. \A k \in 1 .. n : \E x \in S : r[x] = k - 1
    <2> SUFFICES ASSUME NEW k \in 1 .. n PROVE \E x \in S : r[x] = k - 1
      OBVIOUS
    <2>1. k - 1 \in T
      BY <1>1 DEF T
    <2> QED BY <1>5, <2>1 DEF Surjection
  <1>7. \A k \in 1 .. n : s[k] \in S /\ r[s[k]] = k - 1
    <2> SUFFICES ASSUME NEW k \in 1 .. n PROVE s[k] \in S /\ r[s[k]] = k - 1
      OBVIOUS
    <2>1. s[k] = CHOOSE x \in S : r[x] = k - 1
      BY DEF n, r
    <2> QED BY <1>6, <2>1
  <1>8. DOMAIN s = 1 .. n
    BY DEF n
  <1>9. \A x \in S : \E k \in 1 .. n : s[k] = x
    <2> SUFFICES ASSUME NEW x \in S PROVE \E k \in 1 .. n : s[k] = x
      OBVIOUS
    <2>1. r[x] \in 0 .. n - 1
      BY <1>3 DEF T
    <2>2. PICK k \in 1 .. n : k - 1 = r[x]
      BY <1>1, <2>1
    <2>3. s[k] \in S /\ r[s[k]] = r[x]
      BY <1>7, <2>2
    <2> QED BY <1>4, <2>3
  <1>10. ASSUME NEW j \in 1 .. n, NEW k \in 1 .. n, j < k
         PROVE  s[j] # s[k] /\ <<s[j], s[k]>> \in R
    <2>1. s[j] \in S /\ s[k] \in S /\ r[s[j]] = j - 1 /\ r[s[k]] = k - 1
      BY <1>7
    <2>2. r[s[j]] < r[s[k]] /\ r[s[j]] \in Int /\ r[s[k]] \in Int
      BY <1>1, <1>10, <2>1
    <2>3. ~(<<s[k], s[j]>> \in R)
      <3> SUFFICES ASSUME <<s[k], s[j]>> \in R PROVE FALSE
        OBVIOUS
      <3>1. r[s[k]] < r[s[j]]
        BY <2>1, RankOrder DEF r
      <3> QED BY <2>2, <3>1
    <2>4. s[j] # s[k]
      BY <2>2
    <2> DEFINE x == s[j]
               y == s[k]
    <2>5. x = y \/ <<x, y>> \in R \/ <<y, x>> \in R
      BY <2>1 DEF StrictOrder
    <2> QED BY <2>3, <2>4, <2>5
  <1> QED BY <1>1, <1>7, <1>8, <1>9, <1>10 DEF Lists, n

\* Files to group: types and extensions are numbers.
FileList(files) ==
    /\ \E N \in Nat : DOMAIN files = 1 .. N
    /\ \A i \in DOMAIN files :
          files[i].type \in Int /\ files[i].ext \in Int /\ files[i].size \in Nat

OfType(files, t) == {i \in DOMAIN files : files[i].type = t}

Types(files) == {files[i].type : i \in DOMAIN files}

\* A bucket lists the files of its type, each once.
LEMMA BucketLists ==
    ASSUME NEW files, FileList(files), NEW t
    PROVE  LET q == Bucket(files, t) IN
           \E n \in Nat :
              /\ DOMAIN q = 1 .. n
              /\ \A k \in 1 .. n : q[k] \in OfType(files, t)
              /\ \A i \in OfType(files, t) : \E k \in 1 .. n : q[k] = i
              /\ \A j, k \in 1 .. n : q[j] = q[k] => j = k
  <1> DEFINE S == OfType(files, t)
             R == {p \in S \X S : Before(files, p[1], p[2])}
             q == Bucket(files, t)
  <1>1. PICK N \in Nat : DOMAIN files = 1 .. N
    BY DEF FileList
  <1>2. IsFiniteSet(S) /\ S \subseteq 1 .. N
    <2>1. IsFiniteSet(1 .. N)
      BY <1>1, FS_Interval
    <2>2. S \subseteq 1 .. N
      BY <1>1 DEF OfType
    <2> HIDE DEF S
    <2> QED BY <2>1, <2>2, FS_Subset
  <1>3. \A i, j \in S : <<i, j>> \in R <=> Before(files, i, j)
    OBVIOUS
  <1>4. \A i \in S : /\ i \in Int /\ files[i].ext \in Int /\ files[i].size \in Int
    BY <1>1 DEF FileList, OfType
  <1>5. StrictOrder(S, R)
    <2> HIDE DEF S, R
    <2>1. \A i, j \in S : <<i, j>> \in R => ~(<<j, i>> \in R)
      BY <1>3, <1>4 DEF Before
    <2>2. \A i, j, k \in S : <<i, j>> \in R /\ <<j, k>> \in R => <<i, k>> \in R
      BY <1>3, <1>4 DEF Before
    <2>3. ASSUME NEW i \in S, NEW j \in S PROVE i = j \/ <<i, j>> \in R \/ <<j, i>> \in R
      <3>1. (<<i, j>> \in R <=> Before(files, i, j)) /\ (<<j, i>> \in R <=> Before(files, j, i))
        BY <1>3
      <3>2. i = j \/ Before(files, i, j) \/ Before(files, j, i)
        BY <1>4 DEF Before
      <3> QED BY <3>1, <3>2
    <2> QED BY <2>1, <2>2, <2>3 DEF StrictOrder
  <1>6. q = [k \in 1 .. Cardinality(S) |-> CHOOSE x \in S : Rank(S, R)[x] = k - 1]
    <2>1. q = [k \in 1 .. Cardinality(S) |->
                 CHOOSE x \in S : Cardinality({y \in S : Before(files, y, x)}) = k - 1]
      BY DEF Bucket, Sorted, OfType
    <2>2. \A x \in S : {y \in S : Before(files, y, x)} = {y \in S : <<y, x>> \in R}
      BY <1>3
    <2> HIDE DEF S, R
    <2>3. \A x \in S : Cardinality({y \in S : Before(files, y, x)}) = Rank(S, R)[x]
      BY <2>2 DEF Rank
    <2>4. \A k : (CHOOSE x \in S : Cardinality({y \in S : Before(files, y, x)}) = k - 1)
                 = (CHOOSE x \in S : Rank(S, R)[x] = k - 1)
      BY <2>3
    <2> QED BY <2>1, <2>4
  <1> HIDE DEF S, R, q
  <1>7. Lists(q, S, R)
    BY <1>2, <1>5, <1>6, RankedList
  <1>8. \A j, k \in DOMAIN q : q[j] = q[k] => j = k
    <2> SUFFICES ASSUME NEW j \in DOMAIN q, NEW k \in DOMAIN q, q[j] = q[k], j # k PROVE FALSE
      OBVIOUS
    <2>1. j \in Nat /\ k \in Nat
      BY <1>7 DEF Lists
    <2>2. j < k \/ k < j
      BY <2>1
    <2> QED BY <1>7, <2>2 DEF Lists
  <1> QED BY <1>7, <1>8 DEF Lists, S, q

\* The buckets are visited in the order of their types.
LEMMA TypesListed ==
    ASSUME NEW files, FileList(files)
    PROVE  LET q == Sorted(Types(files), <) IN
           \E n \in Nat :
              /\ DOMAIN q = 1 .. n
              /\ \A k \in 1 .. n : q[k] \in Types(files)
              /\ \A t \in Types(files) : \E k \in 1 .. n : q[k] = t
              /\ \A j, k \in 1 .. n : j < k => q[j] < q[k]
  <1> DEFINE S == Types(files)
             R == {p \in S \X S : p[1] < p[2]}
             q == Sorted(S, <)
  <1>1. PICK N \in Nat : DOMAIN files = 1 .. N
    BY DEF FileList
  <1>2. IsFiniteSet(S)
    <2> DEFINE f == [i \in DOMAIN files |-> files[i].type]
    <2>1. IsFiniteSet(DOMAIN files)
      BY <1>1, FS_Interval
    <2>2. f \in Surjection(DOMAIN files, S)
      BY DEF Surjection, Types
    <2> HIDE DEF f, S
    <2> QED BY <2>1, <2>2, FS_Surjection
  <1>3. \A t, u \in S : <<t, u>> \in R <=> t < u
    OBVIOUS
  <1>4. S \subseteq Int
    BY DEF FileList, Types
  <1>5. StrictOrder(S, R)
    <2> HIDE DEF S, R
    <2>1. \A t, u \in S : <<t, u>> \in R => ~(<<u, t>> \in R)
      BY <1>3, <1>4
    <2>2. \A t, u, v \in S : <<t, u>> \in R /\ <<u, v>> \in R => <<t, v>> \in R
      BY <1>3, <1>4
    <2>3. ASSUME NEW t \in S, NEW u \in S PROVE t = u \/ <<t, u>> \in R \/ <<u, t>> \in R
      <3>1. (<<t, u>> \in R <=> t < u) /\ (<<u, t>> \in R <=> u < t)
        BY <1>3
      <3>2. t = u \/ t < u \/ u < t
        BY <1>4
      <3> QED BY <3>1, <3>2
    <2> QED BY <2>1, <2>2, <2>3 DEF StrictOrder
  <1>6. q = [k \in 1 .. Cardinality(S) |-> CHOOSE x \in S : Rank(S, R)[x] = k - 1]
    <2>1. q = [k \in 1 .. Cardinality(S) |->
                 CHOOSE x \in S : Cardinality({y \in S : y < x}) = k - 1]
      BY DEF Sorted
    <2>2. \A x \in S : {y \in S : y < x} = {y \in S : <<y, x>> \in R}
      BY <1>3
    <2> HIDE DEF S, R
    <2>3. \A x \in S : Cardinality({y \in S : y < x}) = Rank(S, R)[x]
      BY <2>2 DEF Rank
    <2>4. \A k : (CHOOSE x \in S : Cardinality({y \in S : y < x}) = k - 1)
                 = (CHOOSE x \in S : Rank(S, R)[x] = k - 1)
      BY <2>3
    <2> QED BY <2>1, <2>4
  <1> HIDE DEF S, R, q
  <1>7. Lists(q, S, R)
    BY <1>2, <1>5, <1>6, RankedList
  <1>8. \A j, k \in DOMAIN q : j < k => q[j] < q[k]
    BY <1>3, <1>7 DEF Lists
  <1> QED BY <1>7, <1>8 DEF Lists, S, q

------------------------------------------------------------------------------
(* A group, and a table of groups.                                         *)

\* The indices are some files of type t, each once; total is their size, and
\* it is within the limit unless it is that of one file.
GroupOk(files, t, indices, total) ==
    /\ IsSeq(indices)
    /\ \A k \in 1 .. Len(indices) : indices[k] \in OfType(files, t)
    /\ \A j, k \in 1 .. Len(indices) : indices[j] = indices[k] => j = k
    /\ total \in Nat /\ total = TotalSize(files, indices)
    /\ total <= MaxSolidGroupSize \/ Len(indices) = 1

\* A group of type t that starts with file i may follow in the table: the file
\* did not fit into a last group of its type.
MayFollow(files, table, t, i) ==
    (Len(table) > 0 /\ table[Len(table)].type = t) =>
       table[Len(table)].total + files[i].size > MaxSolidGroupSize

\* The groups of the table are disjoint and hold the files in D.
TableOk(files, table, D) ==
    /\ IsSeq(table)
    /\ \A k \in 1 .. Len(table) :
          /\ table[k].group_id = k - 1 /\ Len(table[k].indices) > 0
          /\ GroupOk(files, table[k].type, table[k].indices, table[k].total)
    /\ \A j, k \in 1 .. Len(table) : \A i \in Members(table[j]) : i \in Members(table[k]) => j = k
    /\ \A i : i \in D <=> \E k \in 1 .. Len(table) : i \in Members(table[k])
    /\ \A k \in 1 .. Len(table) - 1 :
          table[k + 1].type = table[k].type =>
             table[k].total + files[table[k + 1].indices[1]].size > MaxSolidGroupSize

AddSize(files, sum, i) == sum + files[i].size
AnySum(files, q, n, sum) == TRUE
Adding == INSTANCE FoldInduction WITH Step <- AddSize, Good <- AnySum

\* The size of one file more.
LEMMA TotalAppend ==
    ASSUME NEW files, NEW indices, IsSeq(indices), NEW i
    PROVE  TotalSize(files, Append(indices, i)) = TotalSize(files, indices) + files[i].size
  <1> DEFINE r == Append(indices, i)
  <1>1. /\ Len(indices) \in Nat /\ DOMAIN indices = 1 .. Len(indices)
        /\ IsSeq(r) /\ Len(r) = Len(indices) + 1
        /\ \A n \in 1 .. Len(indices) : r[n] = indices[n]
        /\ r[Len(indices) + 1] = i
    BY SeqDomain, AppendSeq
  <1> HIDE DEF r
  <1>2. DOMAIN r = 1 .. Len(indices) + 1
    BY <1>1, SeqDomain
  <1>3. Adding!Loop(files, 0, r) = AddSize(files, Adding!Loop(files, 0, indices), i)
    BY <1>1, <1>2, Adding!LoopAppend
  <1>4. \A s : TotalSize(files, s) = Adding!Loop(files, 0, s)
    BY DEF TotalSize, AddSize, Adding!Loop, FoldLeft, MapThenFoldSet, Max,
       Adding!FoldLeft, Adding!MapThenFoldSet, Adding!Max
  <1> QED BY <1>3, <1>4 DEF AddSize, r

\* The size of no files.
LEMMA TotalEmpty == ASSUME NEW files PROVE TotalSize(files, << >>) = 0
  <1>1. DOMAIN << >> = 1 .. 0
    OBVIOUS
  <1>2. Adding!Loop(files, 0, << >>) = 0
    BY <1>1, Adding!LoopEmpty
  <1> QED BY <1>2 DEF TotalSize, AddSize, Adding!Loop, FoldLeft, MapThenFoldSet, Max,
       Adding!FoldLeft, Adding!MapThenFoldSet, Adding!Max

\* The members of a group are the files at its places.
LEMMA MembersOf ==
    ASSUME NEW g, IsSeq(g.indices)
    PROVE  \A i : i \in Members(g) <=> \E k \in 1 .. Len(g.indices) : g.indices[k] = i
  BY SeqDomain DEF Members, Range

\* An empty group.
LEMMA EmptyGroupOk == ASSUME NEW files, NEW t PROVE GroupOk(files, t, << >>, 0)
  <1>1. IsSeq(<< >>) /\ Len(<< >>) = 0
    <2>1. << >> \in Seq({})
      OBVIOUS
    <2> QED BY <2>1 DEF IsSeq
  <1> QED BY <1>1, TotalEmpty, MaxSolidGroupSizeAssumption DEF GroupOk

\* A file of its type that is not in the group joins it.
LEMMA GroupJoin ==
    ASSUME NEW files, FileList(files), NEW t, NEW indices, NEW total,
           GroupOk(files, t, indices, total), NEW i \in OfType(files, t),
           \A k \in 1 .. Len(indices) : indices[k] # i,
           Len(indices) = 0 \/ total + files[i].size <= MaxSolidGroupSize
    PROVE  GroupOk(files, t, Append(indices, i), total + files[i].size)
  <1> DEFINE r == Append(indices, i)
  <1>1. /\ Len(indices) \in Nat /\ IsSeq(r) /\ Len(r) = Len(indices) + 1
        /\ \A n \in 1 .. Len(indices) : r[n] = indices[n]
        /\ r[Len(indices) + 1] = i
    BY SeqDomain, AppendSeq DEF GroupOk
  <1>2. TotalSize(files, r) = TotalSize(files, indices) + files[i].size
    BY TotalAppend DEF GroupOk
  <1>3. files[i].size \in Nat
    BY DEF FileList, OfType
  <1> HIDE DEF r
  <1>4. \A n \in 1 .. Len(r) : n \in 1 .. Len(indices) \/ n = Len(indices) + 1
    BY <1>1
  <1>5. \A k \in 1 .. Len(r) : r[k] \in OfType(files, t)
    BY <1>1, <1>4 DEF GroupOk
  <1>6. \A j, k \in 1 .. Len(r) : r[j] = r[k] => j = k
    BY <1>1, <1>4 DEF GroupOk
  <1>7. total + files[i].size \in Nat /\ total + files[i].size = TotalSize(files, r)
    BY <1>2, <1>3 DEF GroupOk
  <1>8. total + files[i].size <= MaxSolidGroupSize \/ Len(r) = 1
    BY <1>1
  <1> QED BY <1>1, <1>5, <1>6, <1>7, <1>8 DEF GroupOk, r

\* A group is entered at the end of a table.
LEMMA TableAppend ==
    ASSUME NEW files, NEW table, NEW D, TableOk(files, table, D), NEW g,
           g.group_id = Len(table), Len(g.indices) > 0,
           GroupOk(files, g.type, g.indices, g.total),
           Members(g) \cap D = {}, MayFollow(files, table, g.type, g.indices[1])
    PROVE  TableOk(files, Append(table, g), D \cup Members(g))
  <1> DEFINE t == Append(table, g)
             m == Len(table)
  <1>1. /\ m \in Nat /\ IsSeq(t) /\ Len(t) = m + 1
        /\ \A n \in 1 .. m : t[n] = table[n]
        /\ t[m + 1] = g
    BY SeqDomain, AppendSeq DEF TableOk
  <1> HIDE DEF t, m
  <1>2. \A n \in 1 .. Len(t) : n \in 1 .. m \/ n = m + 1
    BY <1>1
  <1>3. \A k \in 1 .. Len(t) :
           /\ t[k].group_id = k - 1 /\ Len(t[k].indices) > 0
           /\ GroupOk(files, t[k].type, t[k].indices, t[k].total)
    <2> SUFFICES ASSUME NEW k \in 1 .. Len(t)
                 PROVE  /\ t[k].group_id = k - 1 /\ Len(t[k].indices) > 0
                        /\ GroupOk(files, t[k].type, t[k].indices, t[k].total)
      OBVIOUS
    <2>1. CASE k \in 1 .. m
      BY <1>1, <2>1 DEF TableOk, m
    <2>2. CASE k = m + 1
      <3>1. t[k].group_id = k - 1
        BY <1>1, <2>2 DEF m
      <3> QED BY <1>1, <2>2, <3>1
    <2> QED BY <1>2, <2>1, <2>2
  <1>4. \A i : i \in D <=> \E k \in 1 .. m : i \in Members(table[k])
    BY DEF TableOk, m
  <1>5. ASSUME NEW j \in 1 .. Len(t), NEW k \in 1 .. Len(t), NEW i \in Members(t[j]),
               i \in Members(t[k])
        PROVE  j = k
    <2>1. CASE j \in 1 .. m /\ k \in 1 .. m
      BY <1>1, <1>5, <2>1 DEF TableOk, m
    <2>2. CASE j \in 1 .. m /\ k = m + 1
      BY <1>1, <1>4, <1>5, <2>2
    <2>3. CASE j = m + 1 /\ k \in 1 .. m
      BY <1>1, <1>4, <1>5, <2>3
    <2> QED BY <1>2, <2>1, <2>2, <2>3
  <1>6. \A i : i \in D \cup Members(g) <=> \E k \in 1 .. Len(t) : i \in Members(t[k])
    <2> SUFFICES ASSUME NEW i
                 PROVE  i \in D \cup Members(g) <=> \E k \in 1 .. Len(t) : i \in Members(t[k])
      OBVIOUS
    <2>1. ASSUME i \in D PROVE \E k \in 1 .. Len(t) : i \in Members(t[k])
      <3>1. PICK k \in 1 .. m : i \in Members(table[k])
        BY <1>4, <2>1
      <3>2. k \in 1 .. Len(t) /\ t[k] = table[k]
        BY <1>1
      <3> QED BY <3>1, <3>2
    <2>2. ASSUME i \in Members(g) PROVE \E k \in 1 .. Len(t) : i \in Members(t[k])
      <3>1. m + 1 \in 1 .. Len(t)
        BY <1>1
      <3> QED BY <1>1, <2>2, <3>1
    <2>3. ASSUME NEW k \in 1 .. Len(t), i \in Members(t[k]) PROVE i \in D \cup Members(g)
      BY <1>1, <1>2, <1>4, <2>3
    <2> QED BY <2>1, <2>2, <2>3
  <1>7. \A k \in 1 .. Len(t) - 1 :
           t[k + 1].type = t[k].type =>
              t[k].total + files[t[k + 1].indices[1]].size > MaxSolidGroupSize
    <2> SUFFICES ASSUME NEW k \in 1 .. Len(t) - 1, t[k + 1].type = t[k].type
                 PROVE  t[k].total + files[t[k + 1].indices[1]].size > MaxSolidGroupSize
      OBVIOUS
    <2>1. k \in 1 .. m
      BY <1>1
    <2>2. CASE k = m
      <3>1. t[k] = table[m] /\ t[k + 1] = g /\ m > 0
        BY <1>1, <2>1, <2>2
      <3>2. table[m].type = g.type
        BY <3>1
      <3> QED BY <3>1, <3>2 DEF MayFollow, m
    <2>3. CASE k # m
      <3>1. k \in 1 .. m - 1 /\ k + 1 \in 1 .. m
        BY <1>1, <2>1, <2>3
      <3>2. t[k] = table[k] /\ t[k + 1] = table[k + 1]
        BY <1>1, <2>1, <3>1
      <3> QED BY <3>1, <3>2 DEF TableOk, m
    <2> QED BY <2>2, <2>3
  <1> QED BY <1>1, <1>3, <1>5, <1>6, <1>7 DEF TableOk, t

------------------------------------------------------------------------------
(* The loops.                                                              *)

\* The files of lower types.
Earlier(files, t) == {i \in DOMAIN files : files[i].type < t}

\* The loop over a bucket q: after n files the closed groups hold the files
\* of lower types and those of the bucket so far, but for the open group's.
Filling(files, q, n, acc) ==
    LET t == acc.open.type
        placed == {q[j] : j \in 1 .. n}
    IN  /\ acc = [groups |-> acc.groups, open |-> acc.open]
        /\ acc.open = [type |-> t, indices |-> acc.open.indices, total |-> acc.open.total]
        /\ q = Bucket(files, t)
        /\ GroupOk(files, t, acc.open.indices, acc.open.total)
        /\ Members(acc.open) \subseteq placed
        /\ n > 0 => Len(acc.open.indices) > 0
        /\ TableOk(files, acc.groups, (Earlier(files, t) \cup placed) \ Members(acc.open))
        /\ IF Len(acc.open.indices) > 0
           THEN MayFollow(files, acc.groups, t, acc.open.indices[1])
           ELSE \A k \in 1 .. Len(acc.groups) : acc.groups[k].type # t

\* The loop over the buckets: after n of them the table holds the files of
\* their types.
Filled(files, q, n, table) ==
    /\ q = Sorted(Types(files), <)
    /\ TableOk(files, table, {i \in DOMAIN files : \E j \in 1 .. n : files[i].type = q[j]})

InBucket == INSTANCE FoldInduction WITH Step <- PlaceFile, Good <- Filling
OverBuckets == INSTANCE FoldInduction WITH Step <- PlaceBucket, Good <- Filled

\* Only the empty sequence has no elements.
LEMMA EmptyOrNot == ASSUME NEW s, IsSeq(s) PROVE s = << >> <=> Len(s) = 0
  <1>1. PICK S : s \in Seq(S)
    BY DEF IsSeq
  <1> QED BY <1>1, EmptySeq

\* Room for a file: the open group, or a new one when it must be flushed.
LEMMA MakeRoom ==
    ASSUME NEW files, FileList(files), NEW q, NEW N \in Nat, DOMAIN q = 1 .. N, NEW n \in 1 .. N,
           NEW acc, Filling(files, q, n - 1, acc), MustFlush(acc.open, files[q[n]])
    PROVE  LET t == acc.open.type IN
           /\ TableOk(files, Flush(acc), Earlier(files, t) \cup {q[j] : j \in 1 .. n - 1})
           /\ MayFollow(files, Flush(acc), t, q[n])
  <1> DEFINE t == acc.open.type
             g == [group_id |-> Len(acc.groups), type |-> t,
                   indices |-> acc.open.indices, total |-> acc.open.total]
             placed == {q[j] : j \in 1 .. n - 1}
             D == (Earlier(files, t) \cup placed) \ Members(acc.open)
  <1>1. Flush(acc) = Append(acc.groups, g)
    BY DEF Flush
  <1>2. /\ g.group_id = Len(acc.groups) /\ g.type = t /\ g.indices = acc.open.indices
        /\ g.total = acc.open.total /\ Members(g) = Members(acc.open)
    BY DEF Members
  <1> HIDE DEF g
  <1>3. /\ GroupOk(files, t, acc.open.indices, acc.open.total) /\ TableOk(files, acc.groups, D)
        /\ Members(acc.open) \subseteq placed
    BY DEF Filling
  <1>4. Len(acc.open.indices) > 0
    <2>1. acc.open.indices # << >>
      BY DEF MustFlush
    <2> QED BY <1>3, <2>1, SeqDomain, EmptyOrNot DEF GroupOk
  <1>5. MayFollow(files, acc.groups, t, acc.open.indices[1])
    BY <1>4 DEF Filling
  <1>6. TableOk(files, Append(acc.groups, g), D \cup Members(g))
    <2>1. Members(g) \cap D = {}
      BY <1>2
    <2> QED BY <1>2, <1>3, <1>4, <1>5, <2>1, TableAppend
  <1>7. D \cup Members(g) = Earlier(files, t) \cup placed
    BY <1>2, <1>3
  <1>8. MayFollow(files, Append(acc.groups, g), t, q[n])
    <2>1. Len(Append(acc.groups, g)) = Len(acc.groups) + 1
          /\ Append(acc.groups, g)[Len(acc.groups) + 1] = g
      BY <1>3, AppendSeq DEF TableOk
    <2>2. g.total + files[q[n]].size > MaxSolidGroupSize
      BY <1>2 DEF MustFlush
    <2> QED BY <2>1, <2>2 DEF MayFollow
  <1> QED BY <1>1, <1>6, <1>7, <1>8

\* What a bucket lists.
LEMMA InBucketAt ==
    ASSUME NEW files, FileList(files), NEW q, NEW N \in Nat, DOMAIN q = 1 .. N, NEW n \in 1 .. N,
           NEW t, q = Bucket(files, t)
    PROVE  q[n] \in OfType(files, t) /\ q[n] \notin {q[j] : j \in 1 .. n - 1}
  <1>1. PICK m \in Nat :
              /\ DOMAIN q = 1 .. m
              /\ \A k \in 1 .. m : q[k] \in OfType(files, t)
              /\ \A j, k \in 1 .. m : q[j] = q[k] => j = k
    <2> DEFINE b == Bucket(files, t)
    <2>1. \E m \in Nat :
             /\ DOMAIN b = 1 .. m
             /\ \A k \in 1 .. m : b[k] \in OfType(files, t)
             /\ \A j, k \in 1 .. m : b[j] = b[k] => j = k
      BY BucketLists
    <2>2. b = q
      OBVIOUS
    <2> HIDE DEF b
    <2> QED BY <2>1, <2>2
  <1>2. n \in 1 .. m /\ \A j \in 1 .. n - 1 : j \in 1 .. m /\ j # n
    BY <1>1
  <1> QED BY <1>1, <1>2

\* One file is placed.
LEMMA PlaceFileOk ==
    ASSUME NEW files, FileList(files), NEW q, NEW N \in Nat, DOMAIN q = 1 .. N, NEW n \in 1 .. N,
           NEW acc, Filling(files, q, n - 1, acc)
    PROVE  Filling(files, q, n, PlaceFile(files, acc, q[n]))
  <1> DEFINE t == acc.open.type
             i == q[n]
             before == {q[j] : j \in 1 .. n - 1}
             placed == {q[j] : j \in 1 .. n}
             o == acc.open
             E == Earlier(files, t)
             new == PlaceFile(files, acc, i)
  <1>1. i \in OfType(files, t) /\ i \notin before /\ placed = before \cup {i}
    <2>1. i \in OfType(files, t) /\ i \notin before
      BY InBucketAt DEF Filling
    <2>2. \A j : j \in 1 .. n <=> j \in 1 .. n - 1 \/ j = n
      OBVIOUS
    <2> QED BY <2>1, <2>2
  <1>2. files[i].type = t /\ files[i].size \in Nat /\ i \notin E
    BY <1>1 DEF OfType, FileList, Earlier
  <1>3. /\ GroupOk(files, t, o.indices, o.total) /\ Members(o) \subseteq before
        /\ q = Bucket(files, t) /\ acc = [groups |-> acc.groups, open |-> o]
        /\ o = [type |-> t, indices |-> o.indices, total |-> o.total]
        /\ TableOk(files, acc.groups, (E \cup before) \ Members(o))
    BY DEF Filling
  <1> HIDE DEF before, placed, E
  <1>4. CASE MustFlush(o, files[i])
    <2>1. TableOk(files, Flush(acc), E \cup before) /\ MayFollow(files, Flush(acc), t, i)
      BY <1>4, MakeRoom DEF E, before
    <2>2. new = [groups |-> Flush(acc),
                 open |-> [type |-> t, indices |-> Append(<< >>, i), total |-> 0 + files[i].size]]
      <3> DEFINE room == [groups |-> Flush(acc), open |-> OpenGroup(files[i].type)]
      <3>1. new = [room EXCEPT !.open.indices = Append(@, i), !.open.total = @ + files[i].size]
        BY <1>4 DEF PlaceFile
      <3>2. room = [groups |-> Flush(acc), open |-> [type |-> t, indices |-> << >>, total |-> 0]]
        BY <1>2 DEF OpenGroup
      <3> HIDE DEF room, new
      <3> QED BY <3>1, <3>2
    <2>3. GroupOk(files, t, Append(<< >>, i), 0 + files[i].size)
      <3>1. Len(<< >>) = 0 /\ \A k \in 1 .. Len(<< >>) : << >>[k] # i
        OBVIOUS
      <3> QED BY <1>1, <3>1, EmptyGroupOk, GroupJoin
    <2>4. Append(<< >>, i) = <<i>> /\ Len(<<i>>) = 1 /\ <<i>>[1] = i
      OBVIOUS
    <2> HIDE DEF new, o
    <2>5. /\ new.open.type = t /\ new.open.indices = <<i>> /\ new.open.total = 0 + files[i].size
          /\ new.groups = Flush(acc) /\ new = [groups |-> new.groups, open |-> new.open]
          /\ new.open = [type |-> t, indices |-> new.open.indices, total |-> new.open.total]
      BY <2>2, <2>4
    <2>6. Members(new.open) = {i}
      BY <2>5 DEF Members, Range
    <2>7. (E \cup placed) \ Members(new.open) = E \cup before
      BY <1>1, <1>2, <2>6
    <2>8. Len(new.open.indices) > 0 /\ new.open.indices[1] = i
      BY <2>4, <2>5
    <2>9. Members(new.open) \subseteq placed
      BY <1>1, <2>6
    <2>10. /\ GroupOk(files, t, new.open.indices, new.open.total)
           /\ TableOk(files, new.groups, (E \cup placed) \ Members(new.open))
           /\ MayFollow(files, new.groups, t, new.open.indices[1])
      BY <2>1, <2>3, <2>4, <2>5, <2>7, <2>8
    <2>11. Filling(files, q, n, new)
      BY <1>3, <2>5, <2>8, <2>9, <2>10 DEF Filling, E, placed
    <2> QED BY <2>11 DEF new
  <1>5. CASE ~MustFlush(o, files[i])
    <2>1. new = [groups |-> acc.groups,
                 open |-> [type |-> t, indices |-> Append(o.indices, i),
                           total |-> o.total + files[i].size]]
      <3>1. new = [acc EXCEPT !.open.indices = Append(@, i), !.open.total = @ + files[i].size]
        BY <1>5 DEF PlaceFile
      <3> HIDE DEF new
      <3> QED BY <1>3, <3>1
    <2>2. Len(o.indices) = 0 \/ o.total + files[i].size <= MaxSolidGroupSize
      <3>1. o.indices = << >> \/ ~(o.total + files[i].size > MaxSolidGroupSize)
        BY <1>5 DEF MustFlush
      <3>2. o.total \in Nat
        BY <1>3 DEF GroupOk
      <3>3. CASE o.indices = << >>
        <4>1. Len(o.indices) = 0
          BY <1>3, <3>3, EmptyOrNot DEF GroupOk
        <4> QED BY <4>1
      <3> QED BY <1>2, <3>1, <3>2, <3>3, MaxSolidGroupSizeAssumption
    <2>3. /\ Len(o.indices) \in Nat /\ IsSeq(Append(o.indices, i))
          /\ Len(Append(o.indices, i)) = Len(o.indices) + 1
          /\ \A k \in 1 .. Len(o.indices) : Append(o.indices, i)[k] = o.indices[k]
          /\ Append(o.indices, i)[Len(o.indices) + 1] = i
      BY <1>3, SeqDomain, AppendSeq DEF GroupOk
    <2>4. \A x : x \in Members(o) <=> \E k \in 1 .. Len(o.indices) : o.indices[k] = x
      BY <1>3, MembersOf DEF GroupOk
    <2>5. GroupOk(files, t, Append(o.indices, i), o.total + files[i].size)
      <3>1. \A k \in 1 .. Len(o.indices) : o.indices[k] # i
        BY <1>1, <1>3, <2>4
      <3> QED BY <1>1, <1>3, <2>2, <3>1, GroupJoin
    <2> HIDE DEF new, o
    <2>6. /\ new.open.type = t /\ new.open.indices = Append(o.indices, i)
          /\ new.open.total = o.total + files[i].size
          /\ new.groups = acc.groups /\ new = [groups |-> new.groups, open |-> new.open]
          /\ new.open = [type |-> t, indices |-> new.open.indices, total |-> new.open.total]
      BY <2>1
    <2>7. Members(new.open) = Members(o) \cup {i}
      <3>1. \A x : x \in Members(new.open) <=>
                     \E k \in 1 .. Len(new.open.indices) : new.open.indices[k] = x
        BY <2>3, <2>6, MembersOf
      <3>2. \A k : k \in 1 .. Len(new.open.indices) <=>
                     k \in 1 .. Len(o.indices) \/ k = Len(o.indices) + 1
        BY <2>3, <2>6
      <3>3. \A x : x \in Members(new.open) => x \in Members(o) \cup {i}
        BY <2>3, <2>4, <2>6, <3>1, <3>2
      <3>4. \A x : x \in Members(o) \cup {i} => x \in Members(new.open)
        BY <2>3, <2>4, <2>6, <3>1, <3>2
      <3> QED BY <3>3, <3>4
    <2>8. (E \cup placed) \ Members(new.open) = (E \cup before) \ Members(o)
      BY <1>1, <1>2, <2>7
    <2>9. MayFollow(files, new.groups, t, new.open.indices[1])
      <3>1. CASE Len(o.indices) > 0
        <4>1. new.open.indices[1] = o.indices[1]
          BY <2>3, <2>6, <3>1
        <4> QED BY <2>6, <3>1, <4>1 DEF Filling, o
      <3>2. CASE Len(o.indices) = 0
        <4>1. \A k \in 1 .. Len(acc.groups) : acc.groups[k].type # t
          BY <3>2 DEF Filling, o
        <4>2. Len(acc.groups) \in Nat
          BY <1>3, SeqDomain DEF TableOk
        <4>3. Len(acc.groups) > 0 => acc.groups[Len(acc.groups)].type # t
          BY <4>1, <4>2
        <4> QED BY <2>6, <4>3 DEF MayFollow
      <3> QED BY <2>3, <3>1, <3>2
    <2>10. Len(new.open.indices) > 0
      BY <2>3, <2>6
    <2>11. Members(new.open) \subseteq placed
      BY <1>1, <1>3, <2>7
    <2>12. /\ GroupOk(files, t, new.open.indices, new.open.total)
           /\ TableOk(files, new.groups, (E \cup placed) \ Members(new.open))
      BY <1>3, <2>5, <2>6, <2>8
    <2>13. Filling(files, q, n, new)
      BY <1>3, <2>6, <2>9, <2>10, <2>11, <2>12 DEF Filling, E, placed
    <2> QED BY <2>13 DEF new
  <1> QED BY <1>4, <1>5

\* The types of the groups of a table are those of the files they hold.
LEMMA GroupTypes ==
    ASSUME NEW files, NEW table, NEW D, TableOk(files, table, D), NEW k \in 1 .. Len(table)
    PROVE  \E i \in D : files[i].type = table[k].type
  <1>1. /\ Len(table[k].indices) > 0
        /\ GroupOk(files, table[k].type, table[k].indices, table[k].total)
    BY DEF TableOk
  <1>2. Len(table[k].indices) \in Nat /\ 1 \in 1 .. Len(table[k].indices)
    BY <1>1, SeqDomain DEF GroupOk
  <1> DEFINE i == table[k].indices[1]
  <1>3. i \in Members(table[k]) /\ files[i].type = table[k].type
    BY <1>1, <1>2, MembersOf DEF GroupOk, OfType
  <1>4. i \in D
    BY <1>3 DEF TableOk
  <1> QED BY <1>3, <1>4

\* One bucket is placed.
LEMMA PlaceBucketOk ==
    ASSUME NEW files, FileList(files), NEW table, NEW t, t \in Int,
           TableOk(files, table, Earlier(files, t))
    PROVE  TableOk(files, PlaceBucket(files, table, t), Earlier(files, t) \cup OfType(files, t))
  <1> DEFINE q == Bucket(files, t)
             start == [groups |-> table, open |-> OpenGroup(t)]
             filled == InBucket!Loop(files, start, q)
             E == Earlier(files, t)
  <1>1. PICK n \in Nat :
           /\ DOMAIN q = 1 .. n
           /\ \A k \in 1 .. n : q[k] \in OfType(files, t)
           /\ \A i \in OfType(files, t) : \E k \in 1 .. n : q[k] = i
    BY BucketLists
  <1>2. Filling(files, q, 0, start)
    <2>1. /\ start.open.type = t /\ start.open.indices = << >> /\ start.open.total = 0
          /\ start.groups = table /\ start = [groups |-> start.groups, open |-> start.open]
          /\ start.open = [type |-> t, indices |-> start.open.indices, total |-> start.open.total]
      BY DEF OpenGroup
    <2>2. Len(<< >>) = 0 /\ Members(start.open) = {} /\ {q[j] : j \in 1 .. 0} = {}
      BY <2>1 DEF Members, Range
    <2>3. \A k \in 1 .. Len(table) : table[k].type # t
      <3> SUFFICES ASSUME NEW k \in 1 .. Len(table), table[k].type = t PROVE FALSE
        OBVIOUS
      <3>1. PICK i \in E : files[i].type = t
        BY GroupTypes
      <3> QED BY <3>1 DEF Earlier
    <2> HIDE DEF q, start
    <2>4. (E \cup {q[j] : j \in 1 .. 0}) \ Members(start.open) = E
      BY <2>2
    <2> HIDE DEF E
    <2>5. GroupOk(files, t, start.open.indices, start.open.total)
      BY <2>1, EmptyGroupOk
    <2>6. TableOk(files, start.groups, (E \cup {q[j] : j \in 1 .. 0}) \ Members(start.open))
      BY <2>1, <2>4 DEF E
    <2>7. q = Bucket(files, start.open.type)
      BY <2>1 DEF q
    <2> QED BY <2>1, <2>2, <2>3, <2>5, <2>6, <2>7 DEF Filling, E
  <1>3. \A k \in 1 .. n : \A acc :
          Filling(files, q, k - 1, acc) => Filling(files, q, k, PlaceFile(files, acc, q[k]))
    <2> HIDE DEF q
    <2> QED BY <1>1, PlaceFileOk
  <1>4. Filling(files, q, n, filled)
    <2> HIDE DEF q, start
    <2> QED BY <1>1, <1>2, <1>3, InBucket!LoopInvariant
  <1>5. PlaceBucket(files, table, t) =
          IF filled.open.indices = << >> THEN filled.groups ELSE Flush(filled)
    BY DEF PlaceBucket, InBucket!Loop, FoldLeft, MapThenFoldSet, Max,
       InBucket!FoldLeft, InBucket!MapThenFoldSet, InBucket!Max
  <1> HIDE DEF filled, start
  <1> DEFINE u == filled.open.type
             placed == {q[j] : j \in 1 .. n}
  <1>6. placed = OfType(files, t)
    <2> HIDE DEF q
    <2> QED BY <1>1
  <1>7. /\ GroupOk(files, u, filled.open.indices, filled.open.total)
        /\ TableOk(files, filled.groups, (Earlier(files, u) \cup placed) \ Members(filled.open))
        /\ Members(filled.open) \subseteq placed /\ q = Bucket(files, u)
    <2> HIDE DEF q
    <2> QED BY <1>4 DEF Filling
  <1>8. CASE n = 0
    <2>1. filled = start
      BY <1>1, <1>8, InBucket!LoopEmpty DEF filled
    <2>2. filled.open.indices = << >> /\ filled.groups = table
      BY <2>1 DEF start, OpenGroup
    <2>3. OfType(files, t) = {}
      <3> HIDE DEF q
      <3> QED BY <1>6, <1>8
    <2> QED BY <1>5, <2>2, <2>3
  <1>9. CASE n # 0
    <2>1. u = t
      <3> HIDE DEF q
      <3>1. 1 \in 1 .. n /\ q[1] \in OfType(files, t)
        BY <1>1, <1>9
      <3>2. q[1] \in OfType(files, u)
        BY <1>1, <1>7, <3>1, InBucketAt
      <3> QED BY <3>1, <3>2 DEF OfType
    <2>2. Len(filled.open.indices) > 0
      <3> HIDE DEF q
      <3> QED BY <1>4, <1>9 DEF Filling
    <2>3. filled.open.indices # << >>
      BY <1>7, <2>2, EmptyOrNot DEF GroupOk
    <2> DEFINE g == [group_id |-> Len(filled.groups), type |-> u,
                     indices |-> filled.open.indices, total |-> filled.open.total]
               D == (E \cup placed) \ Members(filled.open)
    <2>4. /\ g.group_id = Len(filled.groups) /\ g.type = u /\ g.indices = filled.open.indices
          /\ g.total = filled.open.total /\ Members(g) = Members(filled.open)
      BY DEF Members
    <2>5. Flush(filled) = Append(filled.groups, g)
      BY DEF Flush
    <2> HIDE DEF g
    <2>6. TableOk(files, filled.groups, D)
      BY <1>7, <2>1
    <2>7. MayFollow(files, filled.groups, u, g.indices[1])
      <3> HIDE DEF q
      <3> QED BY <1>4, <2>2, <2>4 DEF Filling
    <2>8. TableOk(files, Append(filled.groups, g), D \cup Members(g))
      <3>1. Members(g) \cap D = {}
        BY <2>4
      <3> HIDE DEF D
      <3> QED BY <1>7, <2>2, <2>4, <2>6, <2>7, <3>1, TableAppend
    <2>9. D \cup Members(g) = E \cup OfType(files, t)
      BY <1>6, <1>7, <2>4
    <2> QED BY <1>5, <2>3, <2>5, <2>8, <2>9
  <1> QED BY <1>8, <1>9

\* The table holds every file.
LEMMA GroupsTable ==
    ASSUME NEW files, FileList(files)
    PROVE  TableOk(files, group_files(files), DOMAIN files)
  <1> DEFINE q == Sorted(Types(files), <)
             D(n) == {i \in DOMAIN files : \E j \in 1 .. n : files[i].type = q[j]}
  <1>1. PICK n \in Nat :
           /\ DOMAIN q = 1 .. n
           /\ \A k \in 1 .. n : q[k] \in Types(files)
           /\ \A t \in Types(files) : \E k \in 1 .. n : q[k] = t
           /\ \A j, k \in 1 .. n : j < k => q[j] < q[k]
    BY TypesListed
  <1>2. Filled(files, q, 0, << >>)
    <2>1. IsSeq(<< >>) /\ Len(<< >>) = 0
      <3>1. << >> \in Seq({})
        OBVIOUS
      <3> QED BY <3>1 DEF IsSeq
    <2> HIDE DEF q
    <2>2. D(0) = {}
      OBVIOUS
    <2>3. TableOk(files, << >>, {})
      BY <2>1 DEF TableOk
    <2> QED BY <2>2, <2>3 DEF Filled, q
  <1>3. \A k \in 1 .. n : \A table :
          Filled(files, q, k - 1, table) => Filled(files, q, k, PlaceBucket(files, table, q[k]))
    <2> SUFFICES ASSUME NEW k \in 1 .. n, NEW table, Filled(files, q, k - 1, table)
                 PROVE  Filled(files, q, k, PlaceBucket(files, table, q[k]))
      OBVIOUS
    <2>1. TableOk(files, table, D(k - 1)) /\ q = Sorted(Types(files), <)
      BY DEF Filled
    <2> HIDE DEF q
    <2>2. \A i \in DOMAIN files : files[i].type \in Types(files) /\ files[i].type \in Int
      BY DEF Types, FileList
    <2>3. q[k] \in Int
      BY <1>1 DEF Types, FileList
    <2>4. \A i \in DOMAIN files : files[i].type < q[k] <=>
                                   \E j \in 1 .. k - 1 : files[i].type = q[j]
      <3> SUFFICES ASSUME NEW i \in DOMAIN files
                   PROVE  files[i].type < q[k] <=> \E j \in 1 .. k - 1 : files[i].type = q[j]
        OBVIOUS
      <3>1. PICK m \in 1 .. n : q[m] = files[i].type
        BY <1>1, <2>2
      <3>2. CASE m < k
        <4>1. m \in 1 .. k - 1 /\ q[m] < q[k]
          BY <1>1, <3>2
        <4> QED BY <3>1, <4>1
      <3>3. CASE ~(m < k)
        <4>1. ~(q[m] < q[k])
          <5>1. m = k \/ q[k] < q[m]
            BY <1>1, <3>3
          <5> QED BY <2>2, <2>3, <3>1, <5>1
        <4>2. \A j \in 1 .. k - 1 : q[j] < q[k] /\ j \in 1 .. n
          BY <1>1
        <4>3. \A j \in 1 .. k - 1 : q[j] # q[m]
          BY <4>1, <4>2
        <4> QED BY <3>1, <4>1, <4>3
      <3> QED BY <3>2, <3>3
    <2>5. D(k - 1) = Earlier(files, q[k])
      BY <2>4 DEF Earlier
    <2>6. D(k) = Earlier(files, q[k]) \cup OfType(files, q[k])
      <3>1. \A j : j \in 1 .. k <=> j \in 1 .. k - 1 \/ j = k
        OBVIOUS
      <3>2. D(k) = D(k - 1) \cup OfType(files, q[k])
        BY <3>1 DEF OfType
      <3> QED BY <2>5, <3>2
    <2> HIDE DEF D
    <2>7. TableOk(files, PlaceBucket(files, table, q[k]), D(k))
      <3>1. TableOk(files, table, Earlier(files, q[k]))
        BY <2>1, <2>5
      <3>2. TableOk(files, PlaceBucket(files, table, q[k]),
                    Earlier(files, q[k]) \cup OfType(files, q[k]))
        BY <2>3, <3>1, PlaceBucketOk
      <3> QED BY <2>6, <3>2
    <2> QED BY <2>1, <2>7 DEF Filled, D
  <1>4. Filled(files, q, n, OverBuckets!Loop(files, << >>, q))
    <2> HIDE DEF q
    <2> QED BY <1>1, <1>2, <1>3, OverBuckets!LoopInvariant
  <1>5. group_files(files) = OverBuckets!Loop(files, << >>, q)
    BY DEF group_files, Types, OverBuckets!Loop, FoldLeft, MapThenFoldSet, Max,
       OverBuckets!FoldLeft, OverBuckets!MapThenFoldSet, OverBuckets!Max
  <1>6. D(n) = DOMAIN files
    <2> HIDE DEF q
    <2>1. \A i \in DOMAIN files : files[i].type \in Types(files)
      BY DEF Types
    <2> QED BY <1>1, <2>1
  <1>7. TableOk(files, OverBuckets!Loop(files, << >>, q), D(n))
    BY <1>4 DEF Filled
  <1> QED BY <1>5, <1>6, <1>7

\* group_files loses no file and duplicates none: every file is in exactly one
\* group of the table, in a group of its type, whatever the files are.
THEOREM GroupsAreExact ==
    \A files : FileList(files) => Partitions(group_files(files), files)
  <1> SUFFICES ASSUME NEW files, FileList(files) PROVE Partitions(group_files(files), files)
    OBVIOUS
  <1> DEFINE made == group_files(files)
  <1>1. TableOk(files, made, DOMAIN files)
    BY GroupsTable
  <1> HIDE DEF made
  <1>2. DOMAIN made = 1 .. Len(made)
    BY <1>1, SeqDomain DEF TableOk
  <1>3. ASSUME NEW i \in DOMAIN files
        PROVE  Cardinality({k \in DOMAIN made : i \in Members(made[k])}) = 1
    <2>1. PICK k \in 1 .. Len(made) : i \in Members(made[k])
      BY <1>1 DEF TableOk
    <2>2. {j \in DOMAIN made : i \in Members(made[j])} = {k}
      BY <1>1, <1>2, <2>1 DEF TableOk
    <2> QED BY <2>2, FS_Singleton
  <1>4. ASSUME NEW k \in DOMAIN made
        PROVE  /\ made[k].group_id = k - 1
               /\ Len(made[k].indices) = Cardinality(Members(made[k]))
               /\ \A i \in Members(made[k]) :
                     i \in DOMAIN files /\ files[i].type = made[k].type
    <2> DEFINE s == made[k].indices
    <2>1. GroupOk(files, made[k].type, s, made[k].total) /\ made[k].group_id = k - 1
      BY <1>1, <1>2 DEF TableOk
    <2>2. Len(s) \in Nat /\ DOMAIN s = 1 .. Len(s) /\ Members(made[k]) = Range(s)
      BY <2>1, SeqDomain DEF GroupOk, Members
    <2> HIDE DEF s
    <2>3. Cardinality(Range(s)) = Len(s)
      <3>1. s \in Bijection(1 .. Len(s), Range(s))
        <4>1. s = [j \in 1 .. Len(s) |-> s[j]]
          BY <2>1, <2>2 DEF GroupOk, IsSeq
        <4>2. \A j \in 1 .. Len(s) : s[j] \in Range(s)
          BY <2>2 DEF Range
        <4>3. s \in [1 .. Len(s) -> Range(s)]
          BY <4>1, <4>2
        <4>4. s \in Injection(1 .. Len(s), Range(s))
          BY <2>1, <2>2, <4>3 DEF GroupOk, Injection, IsInjective
        <4>5. s \in Surjection(1 .. Len(s), Range(s))
          BY <2>2, <4>3 DEF Surjection, Range
        <4> QED BY <4>4, <4>5 DEF Bijection
      <3>2. ExistsBijection(1 .. Len(s), Range(s))
        BY <3>1 DEF ExistsBijection
      <3> QED BY <2>2, <3>2, FS_CountingElements
    <2>4. \A i \in Members(made[k]) : i \in DOMAIN files /\ files[i].type = made[k].type
      BY <2>1, <2>2 DEF GroupOk, OfType, Range
    <2> QED BY <2>1, <2>2, <2>3, <2>4 DEF s
  <1> QED BY <1>3, <1>4 DEF Partitions, made

\* A group is larger than MAX_SOLID_GROUP_SIZE only when it is one single file,
\* and it is closed only when the next file of its type does not fit.
THEOREM GroupsAreBounded ==
    \A files : FileList(files) => WithinBound(group_files(files), files)
  <1> SUFFICES ASSUME NEW files, FileList(files) PROVE WithinBound(group_files(files), files)
    OBVIOUS
  <1> DEFINE made == group_files(files)
  <1>1. TableOk(files, made, DOMAIN files)
    BY GroupsTable
  <1> HIDE DEF made
  <1>2. DOMAIN made = 1 .. Len(made) /\ Len(made) \in Nat
    BY <1>1, SeqDomain DEF TableOk
  <1>3. ASSUME NEW k \in DOMAIN made
        PROVE  /\ made[k].total = TotalSize(files, made[k].indices)
               /\ made[k].total <= MaxSolidGroupSize \/ Len(made[k].indices) = 1
               /\ (k < Len(made) /\ made[k + 1].type = made[k].type) =>
                     made[k].total + files[made[k + 1].indices[1]].size > MaxSolidGroupSize
    <2>1. GroupOk(files, made[k].type, made[k].indices, made[k].total)
      BY <1>1, <1>2 DEF TableOk
    <2>2. k < Len(made) => k \in 1 .. Len(made) - 1
      BY <1>2
    <2> QED BY <1>1, <2>1, <2>2 DEF TableOk, GroupOk
  <1> QED BY <1>3 DEF WithinBound, made

------------------------------------------------------------------------------
(* The image and the tables in memory.                                     *)

\* Where the file table of a call starts.
Offset(c) == 1 + Len(Prefix(c))

\* e is an entry of file i of the call: only its group and its range are open.
EntryOf(c, i, e) ==
    e = [k |-> "file", path |-> StoredPath(c.files[i]),
         original_size |-> Len(c.files[i].data), blake3_hash |-> c.files[i].data,
         solid_group_id |-> e.solid_group_id,
         chunk_start_idx |-> e.chunk_start_idx, chunk_count |-> e.chunk_count]

GroupEntry(e) ==
    e = [k |-> "group", group_id |-> e.group_id, content_type |-> e.content_type,
         first_block_idx |-> e.first_block_idx, block_count |-> e.block_count,
         file_count |-> e.file_count]

\* A header of a call with n files.  It names no file table, or the file table.
HeaderOf(c, n, h) ==
    /\ h.k = "header" /\ h.file_count = n
    /\ h.encrypted = c.encrypted /\ h.dictionary = c.dictionary
    /\ h.file_table_offset \in {0, Offset(c)}

\* What the record at a position may be, in an archive of n files and m groups.
RecordOk(c, n, m, pos, rec) ==
    /\ rec.k \in Kinds
    /\ pos = 1 => HeaderOf(c, n, rec)
    /\ \A i \in 1 .. n : pos = Offset(c) + i => EntryOf(c, i, rec)
    /\ \A g \in 1 .. m : pos = Offset(c) + n + g => rec.k = "group"
    /\ rec.k = "footer" => rec.file_table_offset > 0
    /\ rec.k = "payload" => rec.tail \in {NestedFooter, Absent}

ImageOk(c, n, m, img) == \A pos \in 1 .. Len(img) : RecordOk(c, n, m, pos, img[pos])

Typed ==
    /\ call \in Calls
    /\ IsSeq(entries) /\ IsSeq(groups) /\ IsSeq(solid_group_entries) /\ IsSeq(results)
    /\ IsSeq(all_block_indices) /\ IsSeq(disk)
    /\ block_id_counter = Len(all_block_indices)
    /\ Len(results) = Len(groups) /\ Len(solid_group_entries) = Len(groups)

\* The tables in memory describe the files of the call.
Tables ==
    /\ Len(entries) <= Len(input)
    /\ \A i \in 1 .. Len(entries) : EntryOf(call, i, entries[i])
    /\ \A g \in 1 .. Len(groups) : GroupEntry(solid_group_entries[g])
    /\ \A b \in 1 .. Len(all_block_indices) : all_block_indices[b].k = "index"

\* The tables are complete before the first record is written, and on disk
\* before the first block.
Phases ==
    /\ pc \in {"scan", "header"} => Len(disk) = 0
    /\ pc \notin {"scan", "header", "error"} => Len(disk) > 0
    /\ pc \notin {"scan", "error"} \/ Len(disk) > 0 => Len(entries) = Len(input)
    /\ pc \in {"compress", "blocks", "payload", "trailer", "patch_header", "patch_files"} =>
          Len(disk) >= Offset(call) + Len(entries) + Len(groups)

\* The inductive invariant.
IInv == Typed /\ Tables /\ Phases /\ ImageOk(call, Len(entries), Len(groups), disk)

------------------------------------------------------------------------------
(* Steps.                                                                  *)

\* A record that may replace another in place.
Patches(old, rec) ==
    /\ rec.k = old.k /\ old.k \in {"header", "file", "group"}
    /\ old.k = "file" => rec.path = old.path /\ rec.blake3_hash = old.blake3_hash

\* What a step does to the image: nothing, one more record, or one replaced.
Grows ==
    \E rec : /\ disk' = Append(disk, rec)
             /\ RecordOk(call, Len(entries), Len(groups), Len(disk) + 1, rec)

Patched ==
    \E pos \in 1 .. Len(disk) : \E rec :
       /\ disk' = [disk EXCEPT ![pos] = rec]
       /\ RecordOk(call, Len(entries), Len(groups), pos, rec)
       /\ Patches(disk[pos], rec)

DiskStep == disk' = disk \/ Grows \/ Patched

\* What every step but the first two leaves of the tables.
TablesKept ==
    /\ call' = call /\ groups' = groups
    /\ IsSeq(entries') /\ Len(entries') = Len(entries)
    /\ \A i \in 1 .. Len(entries) : EntryOf(call, i, entries'[i])
    /\ IsSeq(solid_group_entries') /\ Len(solid_group_entries') = Len(solid_group_entries)
    /\ \A g \in 1 .. Len(groups) : GroupEntry(solid_group_entries'[g])
    /\ IsSeq(results') /\ Len(results') = Len(results)
    /\ IsSeq(all_block_indices') /\ block_id_counter' = Len(all_block_indices')
    /\ \A b \in 1 .. Len(all_block_indices') : all_block_indices'[b].k = "index"

\* A step on the image keeps it parseable, and shorter it never gets.
LEMMA ImageKept ==
    ASSUME IInv, DiskStep
    PROVE  /\ IsSeq(disk') /\ Len(disk') >= Len(disk)
           /\ ImageOk(call, Len(entries), Len(groups), disk')
           /\ (disk' = disk \/ Patched => Len(disk') = Len(disk))
           /\ (Grows => Len(disk') = Len(disk) + 1)
  <1>1. IsSeq(disk) /\ Len(disk) \in Nat /\ DOMAIN disk = 1 .. Len(disk)
    BY SeqDomain DEF IInv, Typed
  <1>2. \A pos \in 1 .. Len(disk) : RecordOk(call, Len(entries), Len(groups), pos, disk[pos])
    BY DEF IInv, ImageOk
  <1>3. ASSUME disk' = disk PROVE IsSeq(disk') /\ Len(disk') = Len(disk)
                                  /\ ImageOk(call, Len(entries), Len(groups), disk')
    <2>1. ImageOk(call, Len(entries), Len(groups), disk)
      BY DEF IInv
    <2> QED BY <1>1, <1>3, <2>1
  <1>4. ASSUME Grows PROVE IsSeq(disk') /\ Len(disk') = Len(disk) + 1
                           /\ ImageOk(call, Len(entries), Len(groups), disk')
    <2>1. PICK rec : /\ disk' = Append(disk, rec)
                     /\ RecordOk(call, Len(entries), Len(groups), Len(disk) + 1, rec)
      BY <1>4 DEF Grows
    <2>2. /\ IsSeq(disk') /\ Len(disk') = Len(disk) + 1
          /\ \A i \in 1 .. Len(disk) : disk'[i] = disk[i]
          /\ disk'[Len(disk) + 1] = rec
      BY <1>1, <2>1, AppendSeq
    <2> QED BY <1>1, <1>2, <2>1, <2>2 DEF ImageOk
  <1>5. ASSUME Patched PROVE IsSeq(disk') /\ Len(disk') = Len(disk)
                             /\ ImageOk(call, Len(entries), Len(groups), disk')
    <2>0. PICK pos \in 1 .. Len(disk) : \E rec :
             /\ disk' = [disk EXCEPT ![pos] = rec]
             /\ RecordOk(call, Len(entries), Len(groups), pos, rec)
      BY <1>5 DEF Patched
    <2>1. PICK rec :
             /\ disk' = [disk EXCEPT ![pos] = rec]
             /\ RecordOk(call, Len(entries), Len(groups), pos, rec)
      BY <2>0
    <2>2. IsSeq(disk') /\ Len(disk') = Len(disk)
      BY <1>1, <2>1, ReplaceSeq
    <2>3. \A i \in 1 .. Len(disk) : disk'[i] = IF i = pos THEN rec ELSE disk[i]
      BY <1>1, <2>1
    <2> QED BY <1>2, <2>1, <2>2, <2>3 DEF ImageOk
  <1> QED BY <1>1, <1>3, <1>4, <1>5 DEF DiskStep

\* So much of a step is enough for the invariant.
LEMMA StepInv == ASSUME IInv, TablesKept, DiskStep, Phases' PROVE IInv'
  <1>1. IsSeq(disk') /\ ImageOk(call, Len(entries), Len(groups), disk')
    BY ImageKept
  <1>2. Typed'
    BY <1>1 DEF IInv, Typed, TablesKept
  <1>3. Tables'
    BY DEF IInv, Tables, TablesKept, input
  <1>4. ImageOk(call, Len(entries), Len(groups), disk)'
    BY <1>1 DEF TablesKept
  <1> QED BY <1>2, <1>3, <1>4 DEF IInv

\* The sizes of the tables.
LEMMA Sizes ==
    ASSUME IInv
    PROVE  /\ Len(disk) \in Nat /\ DOMAIN disk = 1 .. Len(disk)
           /\ Len(entries) \in Nat /\ DOMAIN entries = 1 .. Len(entries)
           /\ Len(groups) \in Nat /\ DOMAIN groups = 1 .. Len(groups)
           /\ Len(all_block_indices) \in Nat
           /\ DOMAIN solid_group_entries = 1 .. Len(groups)
           /\ DOMAIN results = 1 .. Len(groups)
           /\ Len(input) \in Nat /\ DOMAIN input = 1 .. Len(input)
  <1>1. call.files \in Seq(Range(call.files))
    BY CompressorAssumption DEF IInv, Typed
  <1>2. Len(input) \in Nat /\ DOMAIN input = 1 .. Len(input)
    BY <1>1, LenProperties DEF input
  <1> QED BY <1>2, SeqDomain DEF IInv, Typed

\* The file table starts behind the header and its companions.
LEMMA Offsets ==
    ASSUME IInv
    PROVE  /\ file_table_offset = Offset(call)
           /\ Offset(call) \in Nat /\ Offset(call) >= 1
           /\ \A i \in 1 .. Offset(call) - 1 : Prefix(placeholder_header)[i] \in {"enc", "dict"}
  <1> DEFINE h == placeholder_header
  <1>1. h.encrypted = call.encrypted /\ h.dictionary = call.dictionary
    BY DEF placeholder_header, Header
  <1> HIDE DEF h
  <1>2. Prefix(h) = Prefix(call)
    BY <1>1 DEF Prefix
  <1>3. call.encrypted \in BOOLEAN /\ call.dictionary \in BOOLEAN
    BY CompressorAssumption DEF IInv, Typed
  <1>4. Prefix(call) \in Seq({"enc", "dict"})
    <2> DEFINE S == {"enc", "dict"}
    <2>1. <<"enc">> \in Seq(S) /\ <<"dict">> \in Seq(S) /\ << >> \in Seq(S)
      OBVIOUS
    <2> HIDE DEF S
    <2>2. \A s, t \in Seq(S) : s \o t \in Seq(S)
      BY ConcatProperties
    <2> QED BY <2>1, <2>2 DEF Prefix, S
  <1>5. /\ Len(Prefix(call)) \in Nat
        /\ \A i \in 1 .. Len(Prefix(call)) : Prefix(call)[i] \in {"enc", "dict"}
    BY <1>4, LenProperties
  <1>6. Offset(call) - 1 = Len(Prefix(call)) /\ Offset(call) \in Nat /\ Offset(call) >= 1
    BY <1>5 DEF Offset
  <1>7. file_table_offset = 1 + Len(Prefix(h))
    BY DEF file_table_offset, h
  <1> QED BY <1>2, <1>5, <1>6, <1>7 DEF Offset, h

\* The steps that leave the tables in memory as they are.
LEMMA TablesSame ==
    ASSUME IInv, UNCHANGED <<call, entries, groups, solid_group_entries, results, block_id_counter,
                             all_block_indices>>
    PROVE  TablesKept
  BY DEF IInv, Typed, Tables, TablesKept

\* Records that belong to no table: behind the tables anything goes.
Plain(rec) ==
    /\ rec.k \in Kinds
    /\ rec.k = "footer" => rec.file_table_offset > 0
    /\ rec.k = "payload" => rec.tail \in {NestedFooter, Absent}

\* A record written behind the tables.
LEMMA GrowsBehind ==
    ASSUME IInv, NEW rec, disk' = Append(disk, rec), Plain(rec),
           Len(disk) >= Offset(call) + Len(entries) + Len(groups)
    PROVE  Grows
  <1>1. RecordOk(call, Len(entries), Len(groups), Len(disk) + 1, rec)
    BY Sizes, Offsets DEF RecordOk, Plain
  <1> QED BY <1>1 DEF Grows

\* What the entries say of themselves.
LEMMA GroupEntryKind == ASSUME NEW e, GroupEntry(e) PROVE e.k = "group"
  BY DEF GroupEntry

\* What a file entry says of the file.
LEMMA FileEntryFields ==
    ASSUME NEW c, NEW i, NEW e, EntryOf(c, i, e)
    PROVE  /\ e.k = "file" /\ e.path = StoredPath(c.files[i]) /\ e.blake3_hash = c.files[i].data
           /\ e.original_size = Len(c.files[i].data)
  BY DEF EntryOf

StepOk == TablesKept /\ DiskStep /\ Phases'

\* The first record is the placeholder header.
LEMMA WritePlaceholderOk == ASSUME IInv, WritePlaceholder PROVE StepOk
  <1> DEFINE h == placeholder_header
  <1>1. /\ pc = "header" /\ pc' = "tables" /\ disk' = Append(disk, h)
        /\ UNCHANGED <<call, entries, groups, results, block_id_counter, all_block_indices,
                       solid_group_entries>>
    BY DEF WritePlaceholder, Append1, counters
  <1>2. Len(disk) = 0 /\ Len(entries) = Len(input)
    BY <1>1 DEF IInv, Phases
  <1>3. /\ h.k = "header" /\ h.encrypted = call.encrypted /\ h.dictionary = call.dictionary
        /\ h.file_count = Len(entries) /\ h.file_table_offset = 0
    BY DEF placeholder_header, Header
  <1> HIDE DEF h
  <1>4. RecordOk(call, Len(entries), Len(groups), Len(disk) + 1, h)
    BY <1>2, <1>3, Sizes, Offsets DEF RecordOk, HeaderOf, Kinds
  <1>5. Grows
    BY <1>1, <1>4 DEF Grows
  <1>6. Phases'
    <2>1. Len(disk') = 1
      BY <1>2, <1>5, ImageKept DEF DiskStep
    <2> QED BY <1>1, <1>2, <2>1 DEF Phases, input
  <1> QED BY <1>1, <1>5, <1>6, TablesSame DEF StepOk, DiskStep

\* Its companions come between the header and the file table.
LEMMA WritePrefixOk == ASSUME IInv, WritePrefix PROVE StepOk
  <1> DEFINE rec == [k |-> Prefix(placeholder_header)[Len(disk)]]
  <1>1. /\ pc = "tables" /\ pc' = pc /\ disk' = Append(disk, rec) /\ Len(disk) < file_table_offset
        /\ UNCHANGED <<call, entries, groups, results, block_id_counter, all_block_indices,
                       solid_group_entries>>
    BY DEF WritePrefix, Append1, counters
  <1>2. Len(disk) > 0 /\ Len(entries) = Len(input)
    BY <1>1 DEF IInv, Phases
  <1>3. rec.k \in {"enc", "dict"}
    <2>1. Len(disk) \in 1 .. Offset(call) - 1
      BY <1>1, <1>2, Sizes, Offsets
    <2> QED BY <2>1, Offsets
  <1> HIDE DEF rec
  <1>4. RecordOk(call, Len(entries), Len(groups), Len(disk) + 1, rec)
    BY <1>1, <1>2, <1>3, Sizes, Offsets DEF RecordOk, Kinds
  <1>5. Grows
    BY <1>1, <1>4 DEF Grows
  <1>6. Phases'
    <2>1. Len(disk') = Len(disk) + 1
      BY <1>5, ImageKept DEF DiskStep
    <2> QED BY <1>1, <1>2, <2>1, Sizes DEF Phases, input
  <1> QED BY <1>1, <1>5, <1>6, TablesSame DEF StepOk, DiskStep

\* The file entries come at the places the readers look for them.
LEMMA WriteFileEntryOk == ASSUME IInv, WriteFileEntry PROVE StepOk
  <1> DEFINE i == Len(disk) - file_table_offset + 1
  <1>1. /\ pc = "tables" /\ pc' = pc /\ disk' = Append(disk, entries[i]) /\ i \in DOMAIN entries
        /\ UNCHANGED <<call, entries, groups, results, block_id_counter, all_block_indices,
                       solid_group_entries>>
    BY DEF WriteFileEntry, Append1, counters
  <1>2. Len(disk) > 0 /\ Len(entries) = Len(input)
    BY <1>1 DEF IInv, Phases
  <1>3. i \in 1 .. Len(entries) /\ Len(disk) + 1 = Offset(call) + i
    BY <1>1, Sizes, Offsets
  <1> HIDE DEF i
  <1>4. EntryOf(call, i, entries[i]) /\ entries[i].k = "file"
    BY <1>3, FileEntryFields DEF IInv, Tables
  <1>5. RecordOk(call, Len(entries), Len(groups), Len(disk) + 1, entries[i])
    BY <1>2, <1>3, <1>4, Sizes, Offsets DEF RecordOk, Kinds
  <1>6. Grows
    BY <1>1, <1>5 DEF Grows
  <1>7. Phases'
    <2>1. Len(disk') = Len(disk) + 1
      BY <1>6, ImageKept DEF DiskStep
    <2> QED BY <1>1, <1>2, <2>1, Sizes DEF Phases, input
  <1> QED BY <1>1, <1>6, <1>7, TablesSame DEF StepOk, DiskStep

\* So do the group entries.
LEMMA WriteGroupEntryOk == ASSUME IInv, WriteGroupEntry PROVE StepOk
  <1> DEFINE g == Len(disk) - file_table_offset - Len(entries) + 1
  <1>1. /\ pc = "tables" /\ pc' = pc /\ disk' = Append(disk, solid_group_entries[g])
        /\ g \in DOMAIN groups
        /\ UNCHANGED <<call, entries, groups, results, block_id_counter, all_block_indices,
                       solid_group_entries>>
    BY DEF WriteGroupEntry, Append1, counters
  <1>2. Len(disk) > 0 /\ Len(entries) = Len(input)
    BY <1>1 DEF IInv, Phases
  <1>3. g \in 1 .. Len(groups) /\ Len(disk) + 1 = Offset(call) + Len(entries) + g
    BY <1>1, Sizes, Offsets
  <1> HIDE DEF g
  <1>4. solid_group_entries[g].k = "group"
    BY <1>3, GroupEntryKind DEF IInv, Tables
  <1>5. RecordOk(call, Len(entries), Len(groups), Len(disk) + 1, solid_group_entries[g])
    BY <1>2, <1>3, <1>4, Sizes, Offsets DEF RecordOk, Kinds
  <1>6. Grows
    BY <1>1, <1>5 DEF Grows
  <1>7. Phases'
    <2>1. Len(disk') = Len(disk) + 1
      BY <1>6, ImageKept DEF DiskStep
    <2> QED BY <1>1, <1>2, <2>1, Sizes DEF Phases, input
  <1> QED BY <1>1, <1>6, <1>7, TablesSame DEF StepOk, DiskStep

\* Behind the tables the image only gets longer.
LEMMA BehindPhases ==
    ASSUME IInv, TablesKept, pc \in {"blocks", "payload", "trailer"},
           pc' \in {"blocks", "payload", "trailer", "patch_header"},
           Len(disk') = Len(disk) + 1
    PROVE  Phases'
  <1>1. /\ Len(disk) >= Offset(call) + Len(entries) + Len(groups)
        /\ Len(disk) > 0 /\ Len(entries) = Len(input)
    BY DEF IInv, Phases
  <1>2. call' = call /\ input' = input /\ Len(entries') = Len(entries) /\ groups' = groups
    BY DEF TablesKept, input
  <1>3. Len(disk) \in Nat /\ Len(entries) \in Nat /\ Len(groups) \in Nat /\ Offset(call) \in Nat
    BY Sizes, Offsets
  <1>4. Len(disk') > 0 /\ Len(disk') >= Offset(call) + Len(entries) + Len(groups)
    <2> DEFINE n == Len(disk)
               m == Len(disk')
               t == Offset(call) + Len(entries) + Len(groups)
    <2>1. n \in Nat /\ t \in Nat /\ m = n + 1 /\ n >= t
      BY <1>1, <1>3
    <2> HIDE DEF n, m, t
    <2>2. m > 0 /\ m >= t
      BY <2>1
    <2> QED BY <2>2 DEF m, t
  <1> QED BY <1>1, <1>2, <1>4 DEF Phases

\* A record of a block, an index entry or the footer.
LEMMA BehindOk ==
    ASSUME IInv, TablesKept, pc \in {"blocks", "payload", "trailer"},
           pc' \in {"blocks", "payload", "trailer", "patch_header"},
           NEW rec, Plain(rec), disk' = Append(disk, rec)
    PROVE  StepOk
  <1>1. Len(disk) >= Offset(call) + Len(entries) + Len(groups)
    BY DEF IInv, Phases
  <1>2. Grows
    BY <1>1, GrowsBehind
  <1>3. Len(disk') = Len(disk) + 1
    BY <1>2, ImageKept DEF DiskStep
  <1>4. Phases'
    BY <1>3, BehindPhases
  <1> QED BY <1>2, <1>4 DEF StepOk, DiskStep

\* The blocks.
LEMMA WriteBlockHeaderOk == ASSUME IInv, WriteBlockHeader PROVE StepOk
  <1> DEFINE rec == [k |-> "bhdr", block_id |-> block_id_counter,
                     solid_group_id |-> groups[cur.g].group_id,
                     uncompressed_size |-> Len(CurrentChunk)]
  <1>1. /\ pc = "blocks" /\ pc' = "payload" /\ disk' = Append(disk, rec)
        /\ UNCHANGED <<call, entries, groups, results, block_id_counter, all_block_indices,
                       solid_group_entries>>
    BY DEF WriteBlockHeader, Append1, counters, AtFile
  <1>2. rec.k = "bhdr"
    OBVIOUS
  <1> HIDE DEF rec
  <1>3. Plain(rec)
    BY <1>2 DEF Plain, Kinds
  <1> QED BY <1>1, <1>3, TablesSame, BehindOk

\* The end of a payload may be that of an archive that is archived itself.
LEMMA WritePayloadOk == ASSUME IInv, WritePayload PROVE StepOk
  <1> DEFINE rec == Payload(CurrentChunk, groups[cur.g].type)
  <1>1. /\ pc = "payload" /\ pc' = "trailer" /\ disk' = Append(disk, rec)
        /\ UNCHANGED <<call, entries, groups, results, block_id_counter, all_block_indices,
                       solid_group_entries>>
    BY DEF WritePayload, Append1, counters
  <1>2. rec.k = "payload" /\ rec.tail \in {NestedFooter, Absent}
    BY DEF Payload
  <1> HIDE DEF rec
  <1>3. Plain(rec)
    BY <1>2 DEF Plain, Kinds
  <1> QED BY <1>1, <1>3, TablesSame, BehindOk

\* With the trailer the block gets its index entry and its id is used up.
LEMMA WriteTrailerOk == ASSUME IInv, WriteTrailer PROVE StepOk
  <1> DEFINE rec == [k |-> "btrl", content_blake3 |-> CurrentChunk]
             x == [k |-> "index", block_id |-> block_id_counter,
                   archive_offset |-> Len(disk) - 2,
                   uncompressed_size |-> Len(CurrentChunk),
                   solid_group_id |-> groups[cur.g].group_id]
  <1>1. /\ pc = "trailer" /\ pc' = "blocks" /\ disk' = Append(disk, rec)
        /\ all_block_indices' = Append(all_block_indices, x)
        /\ block_id_counter' = block_id_counter + 1
        /\ UNCHANGED <<call, entries, groups, results, solid_group_entries>>
    BY DEF WriteTrailer, Append1, NextBlockId
  <1>2. rec.k = "btrl" /\ x.k = "index"
    OBVIOUS
  <1> HIDE DEF rec, x
  <1>3. Plain(rec)
    BY <1>2 DEF Plain, Kinds
  <1>4. TablesKept
    <2>1. /\ IsSeq(all_block_indices') /\ Len(all_block_indices') = Len(all_block_indices) + 1
          /\ \A b \in 1 .. Len(all_block_indices) : all_block_indices'[b] = all_block_indices[b]
          /\ all_block_indices'[Len(all_block_indices) + 1] = x
      BY <1>1, AppendSeq DEF IInv, Typed
    <2>2. \A b \in 1 .. Len(all_block_indices') : all_block_indices'[b].k = "index"
      BY <1>2, <2>1, Sizes DEF IInv, Tables
    <2> QED BY <1>1, <2>1, <2>2 DEF IInv, Typed, Tables, TablesKept
  <1> QED BY <1>1, <1>3, <1>4, BehindOk

\* The index.
LEMMA WriteIndexEntryOk == ASSUME IInv, WriteIndexEntry PROVE StepOk
  <1> DEFINE b == Len(disk) - block_index_offset + 1
             rec == all_block_indices[b]
  <1>1. /\ pc = "blocks" /\ pc' = "blocks" /\ disk' = Append(disk, rec)
        /\ b \in DOMAIN all_block_indices
        /\ UNCHANGED <<call, entries, groups, results, block_id_counter, all_block_indices,
                       solid_group_entries>>
    BY DEF WriteIndexEntry, Append1, counters
  <1> HIDE DEF b
  <1>2. b \in 1 .. Len(all_block_indices)
    BY <1>1, SeqDomain DEF IInv, Typed
  <1>3. rec.k = "index"
    BY <1>2 DEF IInv, Tables
  <1> HIDE DEF rec
  <1>4. Plain(rec)
    BY <1>3 DEF Plain, Kinds
  <1> QED BY <1>1, <1>4, TablesSame, BehindOk

\* The footer names the file table.
LEMMA WriteFooterOk == ASSUME IInv, WriteFooter PROVE StepOk
  <1> DEFINE rec == [k |-> "footer", block_index_offset |-> block_index_offset,
                     file_table_offset |-> file_table_offset,
                     block_count |-> block_id_counter, file_count |-> Len(entries)]
  <1>1. /\ pc = "blocks" /\ pc' = "patch_header" /\ disk' = Append(disk, rec)
        /\ UNCHANGED <<call, entries, groups, results, block_id_counter, all_block_indices,
                       solid_group_entries>>
    BY DEF WriteFooter, Append1, counters
  <1>2. rec.k = "footer" /\ rec.file_table_offset > 0
    BY Offsets
  <1> HIDE DEF rec
  <1>3. Plain(rec)
    BY <1>2 DEF Plain, Kinds
  <1> QED BY <1>1, <1>3, TablesSame, BehindOk

\* The steps that leave the image as it is.
LEMMA QuietOk ==
    ASSUME IInv, TablesKept, disk' = disk,
           \/ pc' = pc
           \/ pc' = "error"
           \/ pc = "patch_files" /\ pc' = "done"
           \/ pc = "compress" /\ pc' = "blocks"
           \/ /\ pc = "tables" /\ pc' = "compress"
              /\ Len(disk) = file_table_offset + Len(entries) + Len(groups)
    PROVE  StepOk
  <1>1. call' = call /\ input' = input /\ Len(entries') = Len(entries) /\ groups' = groups
    BY DEF TablesKept, input
  <1>2. /\ Len(disk) \in Nat /\ Len(entries) \in Nat /\ Len(groups) \in Nat
        /\ Offset(call) \in Nat /\ file_table_offset = Offset(call)
    BY Sizes, Offsets
  <1>3. Phases
    BY DEF IInv
  <1>4. CASE pc' = pc
    BY <1>1, <1>3, <1>4 DEF Phases, StepOk, DiskStep
  <1>5. CASE pc' = "error"
    BY <1>1, <1>3, <1>5 DEF Phases, StepOk, DiskStep
  <1>6. CASE pc = "patch_files" /\ pc' = "done"
    BY <1>1, <1>3, <1>6 DEF Phases, StepOk, DiskStep
  <1>7. CASE pc = "compress" /\ pc' = "blocks"
    BY <1>1, <1>3, <1>7 DEF Phases, StepOk, DiskStep
  <1>8. CASE /\ pc = "tables" /\ pc' = "compress"
             /\ Len(disk) = file_table_offset + Len(entries) + Len(groups)
    <2>1. Len(disk) >= Offset(call) + Len(entries) + Len(groups)
      BY <1>2, <1>8
    <2> QED BY <1>1, <1>3, <1>8, <2>1 DEF Phases, StepOk, DiskStep
  <1> QED BY <1>4, <1>5, <1>6, <1>7, <1>8

\* Ranges change, entries stay those of their files.
LEMMA StartEntry ==
    ASSUME NEW c, NEW i, NEW e, EntryOf(c, i, e), NEW x, NEW f, f = [e EXCEPT !.chunk_start_idx = x]
    PROVE  EntryOf(c, i, f)
  <1>1. f = [k |-> "file", path |-> StoredPath(c.files[i]),
             original_size |-> Len(c.files[i].data), blake3_hash |-> c.files[i].data,
             solid_group_id |-> e.solid_group_id,
             chunk_start_idx |-> x, chunk_count |-> e.chunk_count]
    BY DEF EntryOf
  <1> QED BY <1>1 DEF EntryOf

\* The other half of the range.
LEMMA CountEntry ==
    ASSUME NEW c, NEW i, NEW e, EntryOf(c, i, e), NEW x, NEW f, f = [e EXCEPT !.chunk_count = x]
    PROVE  EntryOf(c, i, f)
  <1>1. f = [k |-> "file", path |-> StoredPath(c.files[i]),
             original_size |-> Len(c.files[i].data), blake3_hash |-> c.files[i].data,
             solid_group_id |-> e.solid_group_id,
             chunk_start_idx |-> e.chunk_start_idx, chunk_count |-> x]
    BY DEF EntryOf
  <1> QED BY <1>1 DEF EntryOf

\* So both halves of a range may change, of any file.
LEMMA RangeKept ==
    ASSUME IInv, NEW i, NEW x, NEW y,
           entries' = [entries EXCEPT ![i].chunk_start_idx = x, ![i].chunk_count = y]
    PROVE  /\ IsSeq(entries') /\ Len(entries') = Len(entries)
           /\ \A j \in 1 .. Len(entries) : EntryOf(call, j, entries'[j])
  <1> DEFINE e == [entries[i] EXCEPT !.chunk_start_idx = x]
             f == [e EXCEPT !.chunk_count = y]
  <1>1. \A j \in 1 .. Len(entries) : EntryOf(call, j, entries[j])
    BY DEF IInv, Tables
  <1>2. DOMAIN entries = 1 .. Len(entries) /\ IsSeq(entries)
    BY Sizes DEF IInv, Typed
  <1>3. entries' = [entries EXCEPT ![i] = f]
    BY <1>2
  <1>4. IsSeq(entries') /\ Len(entries') = Len(entries)
    <2> HIDE DEF f
    <2> QED BY <1>2, <1>3, ReplaceSeq, ZenonT(60)
  <1>5. ASSUME NEW j \in 1 .. Len(entries) PROVE EntryOf(call, j, entries'[j])
    <2>1. CASE j = i
      <3>1. EntryOf(call, i, e)
        BY <1>1, <2>1, StartEntry
      <3> HIDE DEF e
      <3>2. EntryOf(call, i, f)
        BY <3>1, CountEntry
      <3> HIDE DEF f
      <3> QED BY <1>2, <1>3, <2>1, <3>2
    <2>2. CASE j # i
      <3> HIDE DEF f
      <3>1. entries'[j] = entries[j]
        BY <1>2, <1>3, <2>2
      <3> QED BY <1>1, <3>1
    <2> QED BY <2>1, <2>2
  <1> QED BY <1>4, <1>5

\* The steps of the two loops that write nothing.
LEMMA StartPhaseAOk == ASSUME IInv, StartPhaseA PROVE StepOk
  <1>1. /\ pc = "tables" /\ pc' = "compress" /\ disk' = disk
        /\ Len(disk) = file_table_offset + Len(entries) + Len(groups)
    BY DEF StartPhaseA
  <1>2. TablesKept
    BY TablesSame DEF StartPhaseA, counters
  <1> QED BY <1>1, <1>2, QuietOk

\* A pool thread enters a result.
LEMMA CompressFileOk == ASSUME IInv, NEW g \in DOMAIN groups, CompressFile(g) PROVE StepOk
  <1> DEFINE r == Append(results[g], CompressedFile(g, groups[g].indices[Len(results[g]) + 1]))
  <1>1. /\ pc' = pc /\ disk' = disk /\ results' = [results EXCEPT ![g] = r]
        /\ UNCHANGED <<call, entries, groups, block_id_counter, all_block_indices,
                       solid_group_entries>>
    BY DEF CompressFile, PushResult, counters
  <1> HIDE DEF r
  <1>2. IsSeq(results') /\ Len(results') = Len(results)
    <2>1. IsSeq(results)
      BY DEF IInv, Typed
    <2> QED BY <1>1, <2>1, ReplaceSeq
  <1>3. TablesKept
    BY <1>1, <1>2 DEF IInv, Typed, Tables, TablesKept
  <1> QED BY <1>1, <1>3, QuietOk

\* The pool is joined.
LEMMA JoinGroupsOk == ASSUME IInv, JoinGroups PROVE StepOk
  <1>1. pc = "compress" /\ pc' = "blocks" /\ disk' = disk
    BY DEF JoinGroups
  <1>2. TablesKept
    BY TablesSame DEF JoinGroups, counters
  <1> QED BY <1>1, <1>2, QuietOk

\* A duplicate gets its original's range.
LEMMA ShareBlocksOk == ASSUME IInv, ShareBlocks PROVE StepOk
  <1> DEFINE x == entries[Current.dup_of].chunk_start_idx
             y == entries[Current.dup_of].chunk_count
             i == Current.file_idx
  <1>1. /\ pc' = pc /\ disk' = disk
        /\ entries' = [entries EXCEPT ![i].chunk_start_idx = x, ![i].chunk_count = y]
        /\ UNCHANGED <<call, groups, results, block_id_counter, all_block_indices,
                       solid_group_entries>>
    BY DEF ShareBlocks, counters
  <1> HIDE DEF x, y, i
  <1>2. /\ IsSeq(entries') /\ Len(entries') = Len(entries)
        /\ \A j \in 1 .. Len(entries) : EntryOf(call, j, entries'[j])
    BY <1>1, RangeKept
  <1>3. TablesKept
    BY <1>1, <1>2 DEF IInv, Typed, Tables, TablesKept
  <1> QED BY <1>1, <1>3, QuietOk

\* Any other file gets the range of its blocks.
LEMMA EndFileOk == ASSUME IInv, EndFile PROVE StepOk
  <1> DEFINE y == Len(Current.blocks)
             i == Current.file_idx
  <1>1. /\ pc' = pc /\ disk' = disk
        /\ entries' = [entries EXCEPT ![i].chunk_start_idx = global_chunk_idx, ![i].chunk_count = y]
        /\ UNCHANGED <<call, groups, results, block_id_counter, all_block_indices,
                       solid_group_entries>>
    BY DEF EndFile
  <1> HIDE DEF y, i
  <1>2. /\ IsSeq(entries') /\ Len(entries') = Len(entries)
        /\ \A j \in 1 .. Len(entries) : EntryOf(call, j, entries'[j])
    BY <1>1, RangeKept
  <1>3. TablesKept
    BY <1>1, <1>2 DEF IInv, Typed, Tables, TablesKept
  <1> QED BY <1>1, <1>3, QuietOk

\* A group entry with another range.
LEMMA GroupRange ==
    ASSUME NEW e, GroupEntry(e), NEW x, NEW y, NEW f,
           f = [e EXCEPT !.first_block_idx = x, !.block_count = y]
    PROVE  GroupEntry(f)
  <1>1. f = [k |-> "group", group_id |-> e.group_id, content_type |-> e.content_type,
             first_block_idx |-> x, block_count |-> y, file_count |-> e.file_count]
    <2> DEFINE h == [e EXCEPT !.first_block_idx = x]
    <2>1. h = [k |-> "group", group_id |-> e.group_id, content_type |-> e.content_type,
               first_block_idx |-> x, block_count |-> e.block_count, file_count |-> e.file_count]
      BY DEF GroupEntry
    <2>2. f = [h EXCEPT !.block_count = y]
      OBVIOUS
    <2> HIDE DEF h
    <2> QED BY <2>1, <2>2
  <1> QED BY <1>1 DEF GroupEntry

\* A group gets its range.
LEMMA EndGroupOk == ASSUME IInv, EndGroup PROVE StepOk
  <1> DEFINE s == solid_group_entries
             f == [s[cur.g] EXCEPT !.first_block_idx = cur.first,
                                   !.block_count = block_id_counter - cur.first]
  <1>1. DOMAIN s = 1 .. Len(groups) /\ IsSeq(s) /\ Len(s) = Len(groups)
    BY Sizes DEF IInv, Typed
  <1>2. /\ pc' = pc /\ disk' = disk /\ s' = [s EXCEPT ![cur.g] = f]
        /\ UNCHANGED <<call, entries, groups, results, block_id_counter, all_block_indices>>
    BY <1>1 DEF EndGroup, counters
  <1>3. \A g \in 1 .. Len(groups) : GroupEntry(s[g])
    BY DEF IInv, Tables
  <1>4. ASSUME cur.g \in 1 .. Len(groups) PROVE GroupEntry(f)
    <2> DEFINE e == s[cur.g]
    <2>1. GroupEntry(e)
      BY <1>3, <1>4
    <2> HIDE DEF e
    <2>2. f = [e EXCEPT !.first_block_idx = cur.first, !.block_count = block_id_counter - cur.first]
      BY DEF e
    <2> HIDE DEF f
    <2> QED BY <2>1, <2>2, GroupRange
  <1> HIDE DEF f
  <1>5. IsSeq(s') /\ Len(s') = Len(s)
    <2>1. IsSeq(s)
      BY <1>1
    <2>2. s' = [s EXCEPT ![cur.g] = f]
      BY <1>2
    <2> QED BY <2>1, <2>2, ReplaceSeq, ZenonT(60)
  <1>6. \A g \in 1 .. Len(groups) : GroupEntry(s'[g])
    BY <1>1, <1>2, <1>3, <1>4
  <1>7. TablesKept
    BY <1>2, <1>5, <1>6 DEF IInv, Typed, Tables, TablesKept
  <1> QED BY <1>2, <1>7, QuietOk

\* The end of the call.
LEMMA FinishOk == ASSUME IInv, Finish PROVE StepOk
  <1>1. pc = "patch_files" /\ pc' = "done" /\ disk' = disk
    BY DEF Finish
  <1>2. TablesKept
    BY TablesSame DEF Finish, counters
  <1> QED BY <1>1, <1>2, QuietOk

\* An error leaves everything as it is.
LEMMA FailOk == ASSUME IInv, Fail PROVE StepOk
  <1>1. pc' = "error" /\ disk' = disk
    BY DEF Fail
  <1>2. TablesKept
    BY TablesSame DEF Fail, counters
  <1> QED BY <1>1, <1>2, QuietOk

------------------------------------------------------------------------------
(* Patching in place.                                                      *)

\* A patch in the last two phases.
LEMMA InPlaceOk ==
    ASSUME IInv, TablesKept, pc \in {"patch_header", "patch_files"},
           pc' \in {"patch_header", "patch_files"}, Patched
    PROVE  StepOk
  <1>1. Len(disk') = Len(disk)
    BY ImageKept DEF DiskStep
  <1>2. /\ Len(disk) >= Offset(call) + Len(entries) + Len(groups)
        /\ Len(disk) > 0 /\ Len(entries) = Len(input)
    BY DEF IInv, Phases
  <1>3. call' = call /\ input' = input /\ Len(entries') = Len(entries) /\ groups' = groups
    BY DEF TablesKept, input
  <1>4. Phases'
    BY <1>1, <1>2, <1>3 DEF Phases
  <1> QED BY <1>4 DEF StepOk, DiskStep

\* The image reaches beyond the tables when they are patched.
LEMMA TablesOnDisk ==
    ASSUME IInv, pc \in {"patch_header", "patch_files"}
    PROVE  /\ 1 \in 1 .. Len(disk) /\ disk[1].k = "header"
           /\ \A i \in 1 .. Len(entries) : /\ Offset(call) + i \in 1 .. Len(disk)
                                           /\ EntryOf(call, i, disk[Offset(call) + i])
           /\ \A g \in 1 .. Len(groups) : /\ Offset(call) + Len(entries) + g \in 1 .. Len(disk)
                                          /\ disk[Offset(call) + Len(entries) + g].k = "group"
  <1>1. Len(disk) >= Offset(call) + Len(entries) + Len(groups) /\ Len(disk) > 0
    BY DEF IInv, Phases
  <1>2. \A pos \in 1 .. Len(disk) : RecordOk(call, Len(entries), Len(groups), pos, disk[pos])
    BY DEF IInv, ImageOk
  <1>3. 1 \in 1 .. Len(disk)
    BY <1>1, Sizes
  <1>4. disk[1].k = "header"
    BY <1>2, <1>3 DEF RecordOk, HeaderOf
  <1>5. ASSUME NEW i \in 1 .. Len(entries)
        PROVE  Offset(call) + i \in 1 .. Len(disk) /\ EntryOf(call, i, disk[Offset(call) + i])
    <2>1. Offset(call) + i \in 1 .. Len(disk)
      BY <1>1, Sizes, Offsets
    <2> QED BY <1>2, <2>1 DEF RecordOk
  <1>6. ASSUME NEW g \in 1 .. Len(groups)
        PROVE  /\ Offset(call) + Len(entries) + g \in 1 .. Len(disk)
               /\ disk[Offset(call) + Len(entries) + g].k = "group"
    <2>1. Offset(call) + Len(entries) + g \in 1 .. Len(disk)
      BY <1>1, Sizes, Offsets
    <2> QED BY <1>2, <2>1 DEF RecordOk
  <1> QED BY <1>3, <1>4, <1>5, <1>6

\* A new header.
LEMMA HeaderPatched ==
    ASSUME IInv, pc \in {"patch_header", "patch_files"},
           NEW h, h.k = "header", HeaderOf(call, Len(entries), h),
           disk' = [disk EXCEPT ![1] = h]
    PROVE  Patched
  <1>1. 1 \in 1 .. Len(disk) /\ disk[1].k = "header"
    BY TablesOnDisk
  <1>2. RecordOk(call, Len(entries), Len(groups), 1, h)
    BY Sizes, Offsets DEF RecordOk, Kinds
  <1>3. Patches(disk[1], h)
    BY <1>1 DEF Patches
  <1> QED BY <1>1, <1>2, <1>3 DEF Patched

\* A new entry of the same file.
LEMMA FileEntryPatched ==
    ASSUME IInv, pc \in {"patch_header", "patch_files"},
           NEW i \in 1 .. Len(entries), NEW e, EntryOf(call, i, e),
           disk' = [disk EXCEPT ![Offset(call) + i] = e]
    PROVE  Patched
  <1> DEFINE pos == Offset(call) + i
  <1>1. pos \in 1 .. Len(disk) /\ EntryOf(call, i, disk[pos])
    BY TablesOnDisk
  <1>2. RecordOk(call, Len(entries), Len(groups), pos, e)
    <2>1. e.k = "file"
      BY FileEntryFields
    <2>2. \A j \in 1 .. Len(entries) : pos = Offset(call) + j => j = i
      BY Sizes, Offsets
    <2>3. pos # 1 /\ \A g \in 1 .. Len(groups) : pos # Offset(call) + Len(entries) + g
      BY Sizes, Offsets
    <2> HIDE DEF pos
    <2> QED BY <2>1, <2>2, <2>3 DEF RecordOk, Kinds
  <1>3. Patches(disk[pos], e)
    BY <1>1, FileEntryFields DEF Patches
  <1>4. disk' = [disk EXCEPT ![pos] = e]
    OBVIOUS
  <1> HIDE DEF pos
  <1> QED BY <1>1, <1>2, <1>3, <1>4 DEF Patched

\* A new entry of a group.
LEMMA GroupEntryPatched ==
    ASSUME IInv, pc \in {"patch_header", "patch_files"},
           NEW g \in 1 .. Len(groups), NEW e, e.k = "group",
           disk' = [disk EXCEPT ![Offset(call) + Len(entries) + g] = e]
    PROVE  Patched
  <1> DEFINE pos == Offset(call) + Len(entries) + g
  <1>1. pos \in 1 .. Len(disk) /\ disk[pos].k = "group"
    BY TablesOnDisk
  <1>2. RecordOk(call, Len(entries), Len(groups), pos, e)
    <2>1. pos # 1 /\ \A i \in 1 .. Len(entries) : pos # Offset(call) + i
      BY Sizes, Offsets
    <2> HIDE DEF pos
    <2> QED BY <2>1 DEF RecordOk, Kinds
  <1>3. Patches(disk[pos], e)
    BY <1>1 DEF Patches
  <1>4. disk' = [disk EXCEPT ![pos] = e]
    OBVIOUS
  <1> HIDE DEF pos
  <1> QED BY <1>1, <1>2, <1>3, <1>4 DEF Patched

\* What the final header says, torn or not.
LEMMA FinalHeader ==
    ASSUME IInv, NEW x \in BOOLEAN
    PROVE  /\ [final_header EXCEPT !.intact = x].k = "header"
           /\ HeaderOf(call, Len(entries), [final_header EXCEPT !.intact = x])
  <1> DEFINE h == [final_header EXCEPT !.intact = x]
  <1>1. /\ h.k = "header" /\ h.file_count = Len(entries) /\ h.encrypted = call.encrypted
        /\ h.dictionary = call.dictionary /\ h.file_table_offset = file_table_offset
    BY DEF final_header, Header
  <1> HIDE DEF h
  <1>2. HeaderOf(call, Len(entries), h)
    BY <1>1, Offsets DEF HeaderOf
  <1> QED BY <1>1, <1>2 DEF h

\* The header while it is rewritten, and then.
LEMMA TearHeaderOk == ASSUME IInv, TearHeader PROVE StepOk
  <1> DEFINE h == [final_header EXCEPT !.intact = FALSE]
  <1>1. pc = "patch_header" /\ pc' = pc /\ disk' = [disk EXCEPT ![0 + 1] = h]
    BY DEF TearHeader, Overwrite
  <1>2. h.k = "header" /\ HeaderOf(call, Len(entries), h)
    BY FinalHeader
  <1> HIDE DEF h
  <1>3. 0 + 1 = 1
    OBVIOUS
  <1>4. Patched
    BY <1>1, <1>2, <1>3, HeaderPatched
  <1>5. TablesKept
    BY TablesSame DEF TearHeader, counters
  <1> QED BY <1>1, <1>4, <1>5, InPlaceOk

\* The final header is completed in place.
LEMMA PatchHeaderOk == ASSUME IInv, PatchHeader PROVE StepOk
  <1> DEFINE h == [final_header EXCEPT !.intact = TRUE]
  <1>0. h = final_header
    <2>1. final_header.intact = TRUE /\ "intact" \in DOMAIN final_header
      BY DEF final_header, Header
    <2>2. final_header = [i \in DOMAIN final_header |-> final_header[i]]
      BY DEF final_header, Header
    <2> QED BY <2>1, <2>2
  <1>1. /\ pc = "patch_header" /\ pc' = "patch_files"
        /\ disk' = [disk EXCEPT ![0 + 1] = final_header]
    BY DEF PatchHeader, Overwrite
  <1>2. h.k = "header" /\ HeaderOf(call, Len(entries), h)
    BY FinalHeader
  <1> HIDE DEF h
  <1>3. 0 + 1 = 1
    OBVIOUS
  <1>4. Patched
    BY <1>0, <1>1, <1>2, <1>3, HeaderPatched
  <1>5. TablesKept
    BY TablesSame DEF PatchHeader, counters
  <1> QED BY <1>1, <1>4, <1>5, InPlaceOk

\* The range of a file, first half first.
LEMMA PatchChunkStartOk == ASSUME IInv, PatchChunkStart PROVE StepOk
  <1> DEFINE pos == FileEntryOffset(cur.f) + 1
             e == disk[Offset(call) + cur.f]
             f == [e EXCEPT !.chunk_start_idx = entries[cur.f].chunk_start_idx]
  <1>1. /\ pc = "patch_files" /\ pc' = pc /\ cur.f \in 1 .. Len(entries)
        /\ disk' = [disk EXCEPT ![pos] =
                      [disk[pos] EXCEPT !.chunk_start_idx = entries[cur.f].chunk_start_idx]]
    BY Sizes DEF PatchChunkStart, Overwrite
  <1>2. pos = Offset(call) + cur.f
    BY <1>1, Sizes, Offsets DEF FileEntryOffset
  <1>3. disk' = [disk EXCEPT ![Offset(call) + cur.f] = f]
    BY <1>1, <1>2
  <1>4. EntryOf(call, cur.f, e)
    BY <1>1, TablesOnDisk
  <1>5. EntryOf(call, cur.f, f)
    <2> HIDE DEF e
    <2> QED BY <1>4, StartEntry
  <1> HIDE DEF f
  <1>6. Patched
    BY <1>1, <1>3, <1>5, FileEntryPatched
  <1>7. TablesKept
    BY TablesSame DEF PatchChunkStart, counters
  <1> QED BY <1>1, <1>6, <1>7, InPlaceOk

\* The second half of a file entry, its chunk count, is patched in place.
LEMMA PatchChunkCountOk == ASSUME IInv, PatchChunkCount PROVE StepOk
  <1> DEFINE pos == FileEntryOffset(cur.f) + 1
  <1>1. /\ pc = "patch_files" /\ pc' = pc /\ cur.f \in 1 .. Len(entries)
        /\ disk' = [disk EXCEPT ![pos] = entries[cur.f]]
    BY Sizes DEF PatchChunkCount, Overwrite
  <1>2. pos = Offset(call) + cur.f
    BY <1>1, Sizes, Offsets DEF FileEntryOffset
  <1>3. EntryOf(call, cur.f, entries[cur.f])
    BY <1>1 DEF IInv, Tables
  <1>4. Patched
    BY <1>1, <1>2, <1>3, FileEntryPatched
  <1>5. TablesKept
    BY TablesSame DEF PatchChunkCount, counters
  <1> QED BY <1>1, <1>4, <1>5, InPlaceOk

\* The range of a group.
LEMMA PatchGroupEntryOk == ASSUME IInv, PatchGroupEntry PROVE StepOk
  <1> DEFINE pos == file_table_offset + Len(entries) + cur.g - 1 + 1
  <1>1. /\ pc = "patch_files" /\ pc' = pc /\ cur.g \in 1 .. Len(groups)
        /\ disk' = [disk EXCEPT ![pos] = solid_group_entries[cur.g]]
    BY Sizes DEF PatchGroupEntry, Overwrite
  <1>2. pos = Offset(call) + Len(entries) + cur.g
    BY <1>1, Sizes, Offsets
  <1>3. solid_group_entries[cur.g].k = "group"
    BY <1>1, GroupEntryKind DEF IInv, Tables
  <1>4. Patched
    BY <1>1, <1>2, <1>3, GroupEntryPatched
  <1>5. TablesKept
    BY TablesSame DEF PatchGroupEntry, counters
  <1> QED BY <1>1, <1>4, <1>5, InPlaceOk

------------------------------------------------------------------------------
(* Before the first record.                                                *)

\* While nothing is written, the tables may still change.
LEMMA EmptyImage ==
    ASSUME IInv, pc = "scan", disk' = disk,
           Typed', Tables', pc' \in {"scan", "error"} \/ Len(entries') = Len(input'),
           pc' \in {"scan", "header", "error"}
    PROVE  IInv'
  <1>1. Len(disk) = 0
    BY DEF IInv, Phases
  <1>2. ImageOk(call, Len(entries), Len(groups), disk)'
    BY <1>1 DEF ImageOk
  <1>3. Phases'
    BY <1>1 DEF Phases
  <1> QED BY <1>2, <1>3 DEF IInv

\* A file is read and entered, or the input is too large.
LEMMA ScanFileOk == ASSUME IInv, ScanFile PROVE IInv' /\ disk' = disk
  <1> DEFINE i == Len(entries) + 1
             e == [k |-> "file", path |-> StoredPath(input[i]),
                   original_size |-> Len(input[i].data),
                   blake3_hash |-> input[i].data, solid_group_id |-> 0,
                   chunk_start_idx |-> 0, chunk_count |-> 0]
  <1>1. /\ pc = "scan" /\ disk' = disk /\ i <= Len(input)
        /\ UNCHANGED <<call, groups, results, block_id_counter, all_block_indices,
                       solid_group_entries>>
    BY DEF ScanFile, counters
  <1>2. CASE pc' = "error" /\ entries' = entries
    <2>1. Typed' /\ Tables'
      BY <1>1, <1>2 DEF IInv, Typed, Tables, input
    <2> QED BY <1>1, <1>2, <2>1, EmptyImage
  <1>3. CASE pc' = pc /\ entries' = Append(entries, e)
    <2>1. EntryOf(call, i, e)
      BY DEF EntryOf, input
    <2> HIDE DEF e
    <2>2. /\ IsSeq(entries') /\ Len(entries') = Len(entries) + 1
          /\ \A j \in 1 .. Len(entries) : entries'[j] = entries[j]
          /\ entries'[Len(entries) + 1] = e
      <3>1. IsSeq(entries)
        BY DEF IInv, Typed
      <3> QED BY <1>3, <3>1, AppendSeq
    <2>3. Typed'
      BY <1>1, <2>2 DEF IInv, Typed
    <2>4. \A j \in 1 .. Len(entries') : EntryOf(call, j, entries'[j])
      <3>1. \A j \in 1 .. Len(entries) : EntryOf(call, j, entries[j])
        BY DEF IInv, Tables
      <3> QED BY <2>1, <2>2, <3>1, Sizes
    <2>5. Tables'
      BY <1>1, <2>2, <2>4 DEF IInv, Tables, input
    <2> QED BY <1>1, <1>3, <2>3, <2>5, EmptyImage
  <1> QED BY <1>1, <1>2, <1>3 DEF ScanFile

\* A file entry is given its group.
LEMMA GroupOfEntry ==
    ASSUME NEW c, NEW i, NEW e, EntryOf(c, i, e), NEW x, NEW f, f = [e EXCEPT !.solid_group_id = x]
    PROVE  EntryOf(c, i, f)
  <1>1. f = [k |-> "file", path |-> StoredPath(c.files[i]),
             original_size |-> Len(c.files[i].data), blake3_hash |-> c.files[i].data,
             solid_group_id |-> x,
             chunk_start_idx |-> e.chunk_start_idx, chunk_count |-> e.chunk_count]
    BY DEF EntryOf
  <1> QED BY <1>1 DEF EntryOf

\* What the grouper is given of a call.
Infos(c) == [i \in DOMAIN c.files |-> [type |-> c.files[i].type, ext |-> c.files[i].ext,
                                      size |-> Len(c.files[i].data)]]

\* What the assumption says of a file.
LEMMA CallFiles ==
    ASSUME NEW c \in Calls
    PROVE  /\ Len(c.files) \in Nat /\ DOMAIN c.files = 1 .. Len(c.files)
           /\ \A i \in DOMAIN c.files :
                 /\ c.files[i].type \in Int /\ c.files[i].ext \in Int
                 /\ c.files[i].data \in Seq(Range(c.files[i].data))
                 /\ Len(c.files[i].data) \in Nat
                 /\ Range(c.files[i].data) \cap Range(NoData) = {}
  <1>1. c.files \in Seq(Range(c.files))
    BY CompressorAssumption
  <1>2. Len(c.files) \in Nat /\ DOMAIN c.files = 1 .. Len(c.files)
    BY <1>1, LenProperties
  <1>3. ASSUME NEW i \in DOMAIN c.files
        PROVE  /\ c.files[i].type \in Int /\ c.files[i].ext \in Int
               /\ c.files[i].data \in Seq(Range(c.files[i].data))
               /\ Len(c.files[i].data) \in Nat
               /\ Range(c.files[i].data) \cap Range(NoData) = {}
    <2> DEFINE f == c.files[i]
    <2>1. f \in Range(c.files)
      BY DEF Range
    <2> HIDE DEF f
    <2>2. /\ f.type \in Int /\ f.ext \in Int /\ f.data \in Seq(Range(f.data))
          /\ Range(f.data) \cap Range(NoData) = {}
      BY <2>1, CompressorAssumption
    <2>3. Len(f.data) \in Nat
      BY <2>2, LenProperties
    <2> QED BY <2>2, <2>3 DEF f
  <1> QED BY <1>2, <1>3

\* The grouper accepts them.
LEMMA InfosOk == ASSUME NEW c \in Calls PROVE FileList(Infos(c))
  <1> DEFINE f(i) == [type |-> c.files[i].type, ext |-> c.files[i].ext,
                      size |-> Len(c.files[i].data)]
  <1>1. \A i \in DOMAIN c.files :
           f(i).type \in Int /\ f(i).ext \in Int /\ f(i).size \in Nat
    BY CallFiles
  <1>2. Infos(c) = [i \in DOMAIN c.files |-> f(i)]
    BY DEF Infos
  <1> HIDE DEF f
  <1>3. DOMAIN Infos(c) = DOMAIN c.files /\ \A i \in DOMAIN c.files : Infos(c)[i] = f(i)
    BY <1>2
  <1> QED BY <1>1, <1>3, CallFiles DEF FileList

\* When all files are scanned, that is what it gets.
LEMMA InfosAre == ASSUME IInv, Len(entries) = Len(input) PROVE FileInfos = Infos(call)
  <1>1. DOMAIN entries = 1 .. Len(entries) /\ DOMAIN input = 1 .. Len(input)
    BY Sizes
  <1>2. \A i \in DOMAIN entries : entries[i].original_size = Len(input[i].data)
    BY <1>1, FileEntryFields DEF IInv, Tables, input
  <1> QED BY <1>1, <1>2 DEF FileInfos, Infos, input

\* The files are grouped and the group table is built.
LEMMA GroupFilesOk == ASSUME IInv, GroupFiles PROVE IInv' /\ disk' = disk
  <1> DEFINE G(i) == (CHOOSE g \in Range(groups') : i \in Range(g.indices)).group_id
             f(i) == [entries[i] EXCEPT !.solid_group_id = G(i)]
             e(g) == [k |-> "group", group_id |-> groups'[g].group_id,
                      content_type |-> groups'[g].type,
                      first_block_idx |-> 0, block_count |-> 0,
                      file_count |-> Len(groups'[g].indices)]
  <1>1. /\ pc = "scan" /\ pc' = "header" /\ disk' = disk /\ Len(entries) = Len(input)
        /\ groups' = group_files(FileInfos)
        /\ entries' = [i \in DOMAIN entries |-> f(i)]
        /\ solid_group_entries' = [g \in DOMAIN groups' |-> e(g)]
        /\ results' = [g \in DOMAIN groups' |-> << >>]
        /\ UNCHANGED <<call, block_id_counter, all_block_indices>>
    BY DEF GroupFiles, counters
  <1>2. /\ Len(entries) \in Nat /\ DOMAIN entries = 1 .. Len(entries)
        /\ \A i \in 1 .. Len(entries) : EntryOf(call, i, entries[i])
    BY Sizes DEF IInv, Tables
  <1>3. IsSeq(groups')
    <2>1. FileInfos = Infos(call) /\ FileList(Infos(call))
      BY <1>1, InfosAre, InfosOk DEF IInv, Typed
    <2>2. TableOk(Infos(call), group_files(Infos(call)), DOMAIN Infos(call))
      BY <2>1, GroupsTable
    <2> QED BY <1>1, <2>1, <2>2 DEF TableOk
  <1>4. Len(groups') \in Nat /\ DOMAIN groups' = 1 .. Len(groups')
    BY <1>3, SeqDomain
  <1>5. \A i \in 1 .. Len(entries) : EntryOf(call, i, f(i))
    <2> SUFFICES ASSUME NEW i \in 1 .. Len(entries) PROVE EntryOf(call, i, f(i))
      OBVIOUS
    <2> DEFINE x == G(i)
               old == entries[i]
               new == f(i)
    <2>1. EntryOf(call, i, old) /\ new = [old EXCEPT !.solid_group_id = x]
      BY <1>2
    <2> HIDE DEF x, old, new
    <2>2. EntryOf(call, i, new)
      BY <2>1, GroupOfEntry
    <2> QED BY <2>2 DEF new
  <1>6. \A g \in 1 .. Len(groups') : GroupEntry(e(g))
    BY DEF GroupEntry
  <1> HIDE DEF f, e, G
  <1>7. /\ IsSeq(entries') /\ Len(entries') = Len(entries)
        /\ \A i \in 1 .. Len(entries') : EntryOf(call, i, entries'[i])
    <2>1. entries' = [i \in 1 .. Len(entries) |-> entries'[i]]
      BY <1>1, <1>2
    <2>2. IsSeq(entries') /\ Len(entries') = Len(entries)
      BY <1>2, <2>1, IntervalSeq
    <2> QED BY <1>1, <1>2, <1>5, <2>2
  <1>8. /\ IsSeq(solid_group_entries') /\ Len(solid_group_entries') = Len(groups')
        /\ \A g \in 1 .. Len(groups') : GroupEntry(solid_group_entries'[g])
    <2>1. solid_group_entries' = [g \in 1 .. Len(groups') |-> solid_group_entries'[g]]
      BY <1>1, <1>4
    <2>2. IsSeq(solid_group_entries') /\ Len(solid_group_entries') = Len(groups')
      BY <1>4, <2>1, IntervalSeq
    <2> QED BY <1>1, <1>4, <1>6, <2>2
  <1>9. IsSeq(results') /\ Len(results') = Len(groups')
    <2>1. results' = [g \in 1 .. Len(groups') |-> results'[g]]
      BY <1>1, <1>4
    <2> QED BY <1>4, <2>1, IntervalSeq
  <1>10. Typed'
    BY <1>1, <1>3, <1>7, <1>8, <1>9 DEF IInv, Typed
  <1>11. Tables'
    BY <1>1, <1>2, <1>7, <1>8 DEF IInv, Tables, input
  <1>12. Len(entries') = Len(input')
    BY <1>1, <1>7 DEF input
  <1> QED BY <1>1, <1>10, <1>11, <1>12, EmptyImage

------------------------------------------------------------------------------
(* The invariant.                                                          *)

\* What a step does: the invariant is kept, and the image is changed by one
\* record at most.
LEMMA NextOk == ASSUME IInv, Next PROVE IInv' /\ DiskStep
  <1>1. CASE ScanFile \/ GroupFiles
    BY <1>1, ScanFileOk, GroupFilesOk DEF DiskStep
  <1>2. CASE StepOk
    BY <1>2, StepInv DEF StepOk
  <1>3. Write => StepOk
    BY WritePlaceholderOk, WritePrefixOk, WriteFileEntryOk, WriteGroupEntryOk, WriteBlockHeaderOk,
       WritePayloadOk, WriteTrailerOk, WriteIndexEntryOk, WriteFooterOk, TearHeaderOk,
       PatchHeaderOk, PatchChunkStartOk, PatchChunkCountOk, PatchGroupEntryOk DEF Write
  <1> QED BY <1>1, <1>2, <1>3, StartPhaseAOk, CompressFileOk, JoinGroupsOk, ShareBlocksOk, EndFileOk,
             EndGroupOk, FinishOk, FailOk DEF Next, Proceed

\* Before the first step nothing is on disk.
LEMMA InitOk == ASSUME Init PROVE IInv
  <1>1. IsSeq(<< >>) /\ Len(<< >>) = 0
    <2>1. << >> \in Seq({})
      OBVIOUS
    <2> QED BY <2>1 DEF IsSeq
  <1>2. call.files \in Seq(Range(call.files))
    BY CompressorAssumption DEF Init
  <1>3. Len(input) \in Nat
    BY <1>2, LenProperties DEF input
  <1>4. Typed
    BY <1>1 DEF Init, Typed
  <1>5. Tables
    BY <1>1, <1>3 DEF Init, Tables
  <1>6. Phases
    BY <1>1 DEF Init, Phases
  <1>7. ImageOk(call, Len(entries), Len(groups), disk)
    BY <1>1 DEF Init, ImageOk
  <1> QED BY <1>4, <1>5, <1>6, <1>7 DEF IInv

\* A step that changes nothing keeps the invariant.
LEMMA StutterOk == ASSUME IInv, UNCHANGED vars PROVE IInv'
  <1>1. Typed' /\ Tables' /\ Phases'
    BY DEF IInv, Typed, Tables, Phases, vars, input, counters
  <1>2. ImageOk(call, Len(entries), Len(groups), disk)'
    BY DEF IInv, vars
  <1> QED BY <1>1, <1>2 DEF IInv

\* The invariant holds in every state.
THEOREM Invariance == Spec => []IInv
  <1>1. Init => IInv
    BY InitOk
  <1>2. IInv /\ [Next]_vars => IInv'
    BY NextOk, StutterOk
  <1> QED BY <1>1, <1>2, PTL DEF Spec

\* The writer's tables stay in step, and every record it writes is one that
\* the readers know, whatever the calls and the interleaving of the pool.
THEOREM TypeCorrect == Spec => []TypeOK
  <1>1. IInv => TypeOK
    <2> SUFFICES ASSUME IInv PROVE TypeOK
      OBVIOUS
    <2>1. \A i \in DOMAIN disk : disk[i].k \in Kinds
      BY Sizes DEF IInv, ImageOk, RecordOk
    <2> QED BY <2>1 DEF IInv, Typed, Tables, TypeOK
  <1> QED BY <1>1, Invariance, PTL

\* What a step leaves of the image.
LEMMA DiskStepKeeps ==
    ASSUME IInv, DiskStep
    PROVE  /\ Len(disk') >= Len(disk)
           /\ \A i \in DOMAIN disk :
                 /\ disk'[i].k = disk[i].k
                 /\ disk[i].k \notin {"header", "file", "group"} => disk'[i] = disk[i]
                 /\ disk[i].k = "file" => /\ disk'[i].path = disk[i].path
                                          /\ disk'[i].blake3_hash = disk[i].blake3_hash
  <1>1. IsSeq(disk) /\ DOMAIN disk = 1 .. Len(disk) /\ Len(disk') >= Len(disk)
    BY Sizes, ImageKept DEF IInv, Typed
  <1>2. CASE disk' = disk
    BY <1>1, <1>2
  <1>3. CASE Grows
    <2>1. PICK rec : disk' = Append(disk, rec)
      BY <1>3 DEF Grows
    <2>2. \A i \in 1 .. Len(disk) : disk'[i] = disk[i]
      BY <1>1, <2>1, AppendSeq
    <2> QED BY <1>1, <2>2
  <1>4. CASE Patched
    <2>0. PICK pos \in 1 .. Len(disk) : \E rec :
             disk' = [disk EXCEPT ![pos] = rec] /\ Patches(disk[pos], rec)
      BY <1>4 DEF Patched
    <2>1. PICK rec :
             disk' = [disk EXCEPT ![pos] = rec] /\ Patches(disk[pos], rec)
      BY <2>0
    <2>2. \A i \in 1 .. Len(disk) : disk'[i] = IF i = pos THEN rec ELSE disk[i]
      BY <1>1, <2>1
    <2> QED BY <1>1, <2>1, <2>2 DEF Patches
  <1> QED BY <1>2, <1>3, <1>4 DEF DiskStep

\* Patching in place overwrites the header and the tables only, each record by
\* one of its kind, and a file entry by one with the same path and hash.
THEOREM BlocksKept == Spec => PatchKeepsBlocks
  <1> DEFINE A == /\ Len(disk') >= Len(disk)
                  /\ \A i \in DOMAIN disk :
                        /\ disk'[i].k = disk[i].k
                        /\ disk[i].k \notin {"header", "file", "group"} => disk'[i] = disk[i]
                        /\ disk[i].k = "file" => /\ disk'[i].path = disk[i].path
                                                 /\ disk'[i].blake3_hash = disk[i].blake3_hash
  <1>1. IInv /\ [Next]_vars => [A]_vars
    BY NextOk, DiskStepKeeps
  <1>2. PatchKeepsBlocks <=> [][A]_vars
    BY DEF PatchKeepsBlocks
  <1> HIDE DEF A
  <1> QED BY <1>1, <1>2, Invariance, PTL DEF Spec

------------------------------------------------------------------------------
(* What the readers make of the image.                                     *)

\* A table that describes the files of a call.
TableOf(c, n, table) ==
    DOMAIN table = 1 .. n /\ \A i \in 1 .. n : EntryOf(c, i, table[i])

FilesOf(c) == {<<StoredPath(c.files[i]), c.files[i].data>> : i \in DOMAIN c.files}

\* Files extracted by such a table are those of the call: a file is written
\* only when it has the hash that was taken of the input.
LEMMA ExtractedFiles ==
    ASSUME NEW c, NEW n \in Nat, DOMAIN c.files = 1 .. n,
           NEW table, TableOf(c, n, table), NEW blocks
    PROVE  LET outcome == ExtractFiles(table, blocks)
           IN  /\ outcome.written \subseteq FilesOf(c)
               /\ outcome.ok => outcome.written = FilesOf(c)
  <1> DEFINE Good(i) == FileIntact(table[i], blocks) /\ validate_extraction_path(table[i].path)
             upto == {i \in DOMAIN table : \A j \in 1 .. i : Good(j)}
             F(i) == <<table[i].path, Reassemble(table[i], blocks)>>
             D(i) == <<StoredPath(c.files[i]), c.files[i].data>>
             outcome == ExtractFiles(table, blocks)
  <1>1. outcome.ok = (upto = DOMAIN table) /\ outcome.written = {F(i) : i \in upto}
    BY DEF ExtractFiles
  <1>2. \A i \in upto : i \in 1 .. n /\ F(i) = D(i)
    <2> SUFFICES ASSUME NEW i \in upto PROVE i \in 1 .. n /\ F(i) = D(i)
      OBVIOUS
    <2>1. i \in 1 .. n /\ \A j \in 1 .. i : Good(j)
      BY DEF TableOf
    <2>2. Good(i)
      <3> HIDE DEF Good
      <3>1. i \in 1 .. i
        BY <2>1
      <3> QED BY <2>1, <3>1
    <2>3. Reassemble(table[i], blocks) = table[i].blake3_hash
      BY <2>2 DEF FileIntact
    <2>4. table[i].path = StoredPath(c.files[i]) /\ table[i].blake3_hash = c.files[i].data
      BY <2>1, FileEntryFields DEF TableOf
    <2> QED BY <2>1, <2>3, <2>4
  <1> HIDE DEF F, upto, outcome
  <1>3. FilesOf(c) = {D(i) : i \in 1 .. n}
    BY DEF FilesOf
  <1> HIDE DEF D
  <1>4. outcome.written \subseteq FilesOf(c)
    BY <1>1, <1>2, <1>3
  <1>5. outcome.ok => outcome.written = FilesOf(c)
    <2> SUFFICES ASSUME outcome.ok PROVE outcome.written = FilesOf(c)
      OBVIOUS
    <2>1. upto = 1 .. n
      BY <1>1 DEF TableOf
    <2> QED BY <1>1, <1>2, <1>3, <2>1
  <1> QED BY <1>4, <1>5 DEF outcome

\* What a header that the readers take says.
LEMMA ReadHeader ==
    ASSUME IInv, HeaderOk(disk)
    PROVE  /\ Len(disk) > 0 /\ At(disk, 0) = disk[1]
           /\ HeaderOf(call, Len(entries), disk[1]) /\ Len(entries) = Len(input)
  <1>1. At(disk, 0).k = "header"
    BY DEF HeaderOk, IsAt
  <1>2. 0 \in 0 .. Len(disk) - 1
    BY <1>1 DEF At, Absent
  <1>3. Len(disk) > 0 /\ At(disk, 0) = disk[1]
    BY <1>2, Sizes DEF At
  <1>4. RecordOk(call, Len(entries), Len(groups), 1, disk[1])
    BY <1>3, Sizes DEF IInv, ImageOk
  <1>5. HeaderOf(call, Len(entries), disk[1])
    BY <1>4 DEF RecordOk
  <1>6. Len(entries) = Len(input)
    BY <1>3 DEF IInv, Phases
  <1> QED BY <1>3, <1>5, <1>6

\* The table read from where the writer put it.
LEMMA ReadTable ==
    ASSUME IInv, HeaderOk(disk), TablesOk(disk, At(disk, 0), Offset(call))
    PROVE  TableOf(call, Len(input), FileTable(disk, At(disk, 0), Offset(call)))
  <1> DEFINE n == Len(entries)
             h == At(disk, 0)
             o == Offset(call)
             table == FileTable(disk, h, o)
  <1>1. h.file_count = n /\ n = Len(input)
    BY ReadHeader DEF HeaderOf
  <1>2. table = [i \in 1 .. n |-> At(disk, o + i - 1)]
    BY <1>1 DEF FileTable
  <1>3. ASSUME NEW i \in 1 .. n PROVE EntryOf(call, i, table[i])
    <2>1. n \in Nat /\ o \in Nat /\ Len(disk) \in Nat
      BY Sizes, Offsets
    <2> HIDE DEF n, o
    <2>2. i - 1 \in 0 .. n - 1 /\ o + (i - 1) = o + i - 1
      BY <2>1
    <2>3. At(disk, o + i - 1).k = "file"
      <3>1. \A j \in 0 .. n - 1 : At(disk, o + j).k = "file"
        BY <1>1 DEF TablesOk, IsAt, o
      <3> QED BY <2>2, <3>1
    <2>4. o + i - 1 \in 0 .. Len(disk) - 1 /\ At(disk, o + i - 1) = disk[o + i - 1 + 1]
      BY <2>3 DEF At, Absent
    <2>5. o + i - 1 + 1 = o + i /\ o + i \in 1 .. Len(disk)
      BY <2>1, <2>4
    <2>6. RecordOk(call, n, Len(groups), o + i, disk[o + i])
      BY <2>5 DEF IInv, ImageOk, n
    <2>7. EntryOf(call, i, disk[o + i])
      BY <2>6 DEF RecordOk, o
    <2> QED BY <1>2, <2>4, <2>5, <2>7
  <1> HIDE DEF table, n
  <1>4. DOMAIN table = 1 .. n
    BY <1>2
  <1> QED BY <1>1, <1>3, <1>4 DEF TableOf, table

\* A footer the seekable readers take, the writer's own or that of an archive
\* which is a file of the call, names a place behind the header; the header
\* agrees with it only when it names the file table.
LEMMA ReadFooter ==
    ASSUME IInv, MetadataOk(disk)
    PROVE  LastFooter(disk).file_table_offset = Offset(call)
  <1> DEFINE f == LastFooter(disk)
             n == Len(disk)
             last == At(disk, n - 1)
  <1>1. /\ f.k = "footer" /\ HeaderOk(disk)
        /\ At(disk, 0).file_table_offset = f.file_table_offset
    BY DEF MetadataOk, HeaderMatchesFooter
  <1>2. At(disk, 0) = disk[1] /\ HeaderOf(call, Len(entries), disk[1]) /\ n > 0
    BY <1>1, ReadHeader
  <1>3. n \in Nat /\ n - 1 \in 0 .. n - 1 /\ n - 1 + 1 = n /\ n \in 1 .. n
    BY <1>2, Sizes
  <1>4. last = disk[n]
    BY <1>3 DEF At
  <1>5. RecordOk(call, Len(entries), Len(groups), n, disk[n])
    BY <1>3 DEF IInv, ImageOk
  <1>6. f = IF last.k = "footer" THEN last ELSE IF last.k = "payload" THEN last.tail ELSE Absent
    BY DEF LastFooter
  <1> HIDE DEF f, n, last
  <1>7. f.file_table_offset > 0
    <2>1. CASE last.k = "footer"
      BY <1>4, <1>5, <1>6, <2>1 DEF RecordOk
    <2>2. CASE last.k = "payload"
      <3>1. f \in {NestedFooter, Absent}
        BY <1>4, <1>5, <1>6, <2>2 DEF RecordOk
      <3> QED BY <1>1, <3>1, CompressorAssumption DEF Absent
    <2>3. CASE last.k \notin {"footer", "payload"}
      BY <1>1, <1>6, <2>3 DEF Absent
    <2> QED BY <2>1, <2>2, <2>3
  <1>8. f.file_table_offset \in {0, Offset(call)}
    BY <1>1, <1>2 DEF HeaderOf
  <1> QED BY <1>7, <1>8 DEF f

\* The streaming readers find the table behind the header they read.
LEMMA ReadPrefix ==
    ASSUME IInv, HeaderOk(disk)
    PROVE  1 + Len(Prefix(At(disk, 0))) = Offset(call)
  <1>1. At(disk, 0).encrypted = call.encrypted /\ At(disk, 0).dictionary = call.dictionary
    BY ReadHeader DEF HeaderOf
  <1> QED BY <1>1 DEF Offset, Prefix

\* Crash safety: whatever moment the output is read at, what the extractors
\* write is in the input, and success means all of it.
THEOREM CrashSafety == Spec => []CrashSafe
  <1>1. IInv => CrashSafe
    <2> SUFFICES ASSUME IInv PROVE CrashSafe
      OBVIOUS
    <2> DEFINE Safe(x) == x.written \subseteq Files /\ (x.ok => x.written = Files)
    <2>1. Len(input) \in Nat /\ DOMAIN input = 1 .. Len(input)
      BY Sizes
    <2>2. Files = FilesOf(call)
      BY DEF Files, FilesOf, input
    <2>3. \A table, blocks : TableOf(call, Len(input), table) => Safe(ExtractFiles(table, blocks))
      BY <2>1, <2>2, ExtractedFiles DEF input
    <2>4. Safe(Refused)
      BY DEF Refused
    <2> HIDE DEF Safe
    <2>5. Safe(extract_all(disk))
      <3>1. CASE MetadataOk(disk) /\ BlocksOk(DecodedIndex(disk))
        <4>1. HeaderOk(disk) /\ TablesOk(disk, At(disk, 0), Offset(call))
          BY <3>1, ReadFooter DEF MetadataOk
        <4>2. TableOf(call, Len(input), FileTable(disk, At(disk, 0), Offset(call)))
          BY <4>1, ReadTable
        <4> QED BY <2>3, <3>1, <4>2, ReadFooter DEF extract_all
      <3>2. CASE ~(MetadataOk(disk) /\ BlocksOk(DecodedIndex(disk)))
        BY <2>4, <3>2 DEF extract_all
      <3> QED BY <3>1, <3>2
    <2>6. Safe(extract_all_streaming(disk))
      <3>1. CASE MetadataOkStreaming(disk) /\ BlocksOk(DecodedStream(disk))
        <4>1. HeaderOk(disk) /\ TablesOk(disk, At(disk, 0), Offset(call))
          BY <3>1, ReadPrefix DEF MetadataOkStreaming
        <4>2. TableOf(call, Len(input), FileTable(disk, At(disk, 0), Offset(call)))
          BY <4>1, ReadTable
        <4> QED BY <2>3, <3>1, <4>1, <4>2, ReadPrefix DEF extract_all_streaming
      <3>2. CASE ~(MetadataOkStreaming(disk) /\ BlocksOk(DecodedStream(disk)))
        BY <2>4, <3>2 DEF extract_all_streaming
      <3> QED BY <3>1, <3>2
    <2> QED BY <2>5, <2>6 DEF CrashSafe, Safe
  <1> QED BY <1>1, Invariance, PTL

\* No two different files of a call are stored under one path.
PathsDistinct ==
    \A c \in Calls : \A i, j \in DOMAIN c.files :
       StoredPath(c.files[i]) = StoredPath(c.files[j]) => c.files[i].data = c.files[j].data

\* What extract_file returns for a path is the content of the first file that
\* is stored under it.
LEMMA ExtractedFile ==
    ASSUME IInv, NEW path, extract_file(disk, path) # NoData
    PROVE  \E j \in DOMAIN input : /\ StoredPath(input[j]) = path
                                   /\ extract_file(disk, path) = input[j].data
  <1> DEFINE table == FileTable(disk, At(disk, 0), LastFooter(disk).file_table_offset)
             blocks == DecodedIndex(disk)
             found == {i \in DOMAIN table : table[i].path = path}
             first == CHOOSE i \in found : \A j \in found : i <= j
             used == [i \in 1 .. table[first].chunk_count |->
                        blocks[table[first].chunk_start_idx + i]]
             ok == /\ MetadataOk(disk) /\ found # {}
                   /\ FileIntact(table[first], blocks)
                   /\ Total(used) <= MaxTotalDecompressed
  <1>1. extract_file(disk, path) = IF ok THEN Reassemble(table[first], blocks) ELSE NoData
    BY DEF extract_file
  <1>2. /\ MetadataOk(disk) /\ found # {} /\ FileIntact(table[first], blocks)
        /\ extract_file(disk, path) = Reassemble(table[first], blocks)
    BY <1>1
  <1>3. TableOf(call, Len(input), table)
    <2>1. HeaderOk(disk) /\ TablesOk(disk, At(disk, 0), Offset(call))
      BY <1>2, ReadFooter DEF MetadataOk
    <2> QED BY <1>2, <2>1, ReadTable, ReadFooter
  <1> HIDE DEF table, blocks
  <1>4. first \in found
    <2>1. Len(input) \in Nat /\ found \subseteq 1 .. Len(input)
      BY <1>3, Sizes DEF TableOf
    <2>2. found \subseteq Nat
      BY <2>1
    <2> HIDE DEF found
    <2>3. \E i \in found : \A j \in found : i <= j
      BY <1>2, <2>2, InBucket!LeastNat
    <2> QED BY <2>3
  <1> HIDE DEF first
  <1>5. first \in DOMAIN input /\ table[first].path = path /\ EntryOf(call, first, table[first])
    BY <1>3, <1>4, Sizes DEF TableOf
  <1>6. /\ table[first].path = StoredPath(input[first])
        /\ table[first].blake3_hash = input[first].data
    BY <1>5, FileEntryFields DEF input
  <1> QED BY <1>2, <1>5, <1>6 DEF FileIntact

\* The same for extract_file, when the call stores no two different files
\* under one path: whatever moment it reads at, it returns nothing or the
\* content of the file asked for.
THEOREM SingleFiles == ASSUME PathsDistinct PROVE Spec => []SingleFileSafe
  <1>1. IInv => SingleFileSafe
    <2> SUFFICES ASSUME IInv, NEW i \in DOMAIN input,
                        extract_file(disk, StoredPath(input[i])) # NoData
                 PROVE  extract_file(disk, StoredPath(input[i])) = input[i].data
      BY DEF SingleFileSafe
    <2>1. PICK j \in DOMAIN input :
             /\ StoredPath(input[j]) = StoredPath(input[i])
             /\ extract_file(disk, StoredPath(input[i])) = input[j].data
      BY ExtractedFile
    <2>2. call \in Calls
      BY DEF IInv, Typed
    <2> QED BY <2>1, <2>2 DEF PathsDistinct, input
  <1> QED BY <1>1, Invariance, PTL

------------------------------------------------------------------------------
(* The plan of a call: its groups, what the pool makes of them, and how    *)
(* far the writing is.                                                     *)

\* A group table for the files of the call: every place in it holds a file,
\* no two places the same one.
PlanOk(c, table) ==
    /\ IsSeq(table)
    /\ \A g \in 1 .. Len(table) :
          /\ table[g].group_id = g - 1 /\ IsSeq(table[g].indices)
          /\ \A k \in 1 .. Len(table[g].indices) : table[g].indices[k] \in DOMAIN c.files
    /\ \A g, h \in 1 .. Len(table) :
          \A k \in 1 .. Len(table[g].indices), j \in 1 .. Len(table[h].indices) :
             table[g].indices[k] = table[h].indices[j] => g = h /\ k = j

\* No file is missing in it.
PlanWhole(c, table) ==
    \A i \in DOMAIN c.files :
       \E g \in 1 .. Len(table) : \E k \in 1 .. Len(table[g].indices) : table[g].indices[k] = i

\* The groups of a call are those of the grouper, from the first record on.
Grouped ==
    /\ groups = << >> \/ groups = group_files(Infos(call))
    /\ pc = "scan" => groups = << >>
    /\ pc \notin {"scan", "error"} \/ Len(disk) > 0 => groups = group_files(Infos(call))

\* Result k of a group whose files are s.
ResultOk(c, s, row, k) ==
    /\ row[k].file_idx = s[k]
    /\ row[k].dup_of = 0 =>
          /\ row[k].blocks = Chunks(c.files[s[k]].data)
          /\ \A j \in 1 .. k - 1 : c.files[s[j]].data # c.files[s[k]].data
    /\ row[k].dup_of # 0 =>
          /\ row[k].blocks = << >>
          /\ \E j \in 1 .. k - 1 : /\ row[k].dup_of = s[j] /\ row[j].dup_of = 0
                                   /\ c.files[s[j]].data = c.files[s[k]].data

RowOk(c, s, row) ==
    /\ IsSeq(row) /\ Len(row) <= Len(s)
    /\ \A k \in 1 .. Len(row) : ResultOk(c, s, row, k)

Results == \A g \in 1 .. Len(groups) : RowOk(call, groups[g].indices, results[g])

Writing == pc \in {"blocks", "payload", "trailer"}

\* The results are complete before the first block is written.
Joined == Writing => \A g \in 1 .. Len(groups) : Len(results[g]) = Len(groups[g].indices)

\* The number of blocks of the file at place f of group g of m.
BlocksAt(table, m, g, f) ==
    IF g <= m /\ f <= Len(table[g]) THEN Len(table[g][f].blocks) ELSE 0

Blocks == BlocksAt(results, Len(groups), cur.g, cur.f)

\* The cursor is at a file, behind the last of a group or behind the last
\* group, and the block id counts the blocks before it.
CursorOk ==
    /\ cur.g \in 1 .. Len(groups) + 1 /\ cur.f \in Nat \ {0} /\ cur.b \in 1 .. Blocks + 1
    /\ cur.g <= Len(groups) => cur.f <= Len(results[cur.g]) + 1
    /\ cur.g > Len(groups) => cur.f = 1
    /\ global_chunk_idx \in Nat /\ block_id_counter = global_chunk_idx + cur.b - 1

AtBlock ==
    /\ cur.g <= Len(groups) /\ cur.f <= Len(results[cur.g])
    /\ results[cur.g][cur.f].dup_of = 0 /\ cur.b <= Blocks

Cursor ==
    /\ pc \in {"scan", "header", "tables", "compress"} =>
          block_id_counter = 0 /\ global_chunk_idx = 0
    /\ Writing => CursorOk
    /\ pc \in {"payload", "trailer"} => AtBlock

IsCursor(x) == x = [g |-> x.g, f |-> x.f, b |-> x.b, first |-> x.first]

Plan == Grouped /\ Results /\ Joined /\ Cursor /\ IsCursor(cur)

ToFile(x, f, b, y) == y = [x EXCEPT !.f = f, !.b = b]
ToBlock(x, b, y) == y = [x EXCEPT !.b = b]
ToGroup(x, g, y) == y = [x EXCEPT !.g = g]

\* A field of such a record is replaced.
LEMMA CursorToFile ==
    ASSUME NEW x, IsCursor(x), NEW v, NEW w, NEW y, ToFile(x, v, w, y)
    PROVE  IsCursor(y) /\ y.g = x.g /\ y.f = v /\ y.b = w /\ y.first = x.first
  <1> DEFINE p == x.g
             q == x.f
             r == x.b
             s == x.first
  <1>1. x = [g |-> p, f |-> q, b |-> r, first |-> s]
    BY DEF IsCursor
  <1> HIDE DEF p, q, r, s
  <1> DEFINE z == [g |-> p, f |-> v, b |-> w, first |-> s]
  <1>2. y = z
    BY <1>1 DEF ToFile
  <1>3. IsCursor(z) /\ z.g = p /\ z.f = v /\ z.b = w /\ z.first = s
    BY DEF IsCursor
  <1> HIDE DEF z
  <1> QED BY <1>2, <1>3 DEF p, s

\* The same with the block only.
LEMMA CursorToBlock ==
    ASSUME NEW x, IsCursor(x), NEW w, NEW y, ToBlock(x, w, y)
    PROVE  IsCursor(y) /\ y.g = x.g /\ y.f = x.f /\ y.b = w /\ y.first = x.first
  <1> DEFINE p == x.g
             q == x.f
             r == x.b
             s == x.first
  <1>1. x = [g |-> p, f |-> q, b |-> r, first |-> s]
    BY DEF IsCursor
  <1> HIDE DEF p, q, r, s
  <1> DEFINE z == [g |-> p, f |-> q, b |-> w, first |-> s]
  <1>2. y = z
    BY <1>1 DEF ToBlock
  <1>3. IsCursor(z) /\ z.g = p /\ z.f = q /\ z.b = w /\ z.first = s
    BY DEF IsCursor
  <1> HIDE DEF z
  <1> QED BY <1>2, <1>3 DEF p, q, s

\* The same with the group only.
LEMMA CursorToGroup ==
    ASSUME NEW x, IsCursor(x), NEW v, NEW y, ToGroup(x, v, y)
    PROVE  IsCursor(y) /\ y.g = v /\ y.f = x.f /\ y.b = x.b /\ y.first = x.first
  <1> DEFINE p == x.g
             q == x.f
             r == x.b
             s == x.first
  <1>1. x = [g |-> p, f |-> q, b |-> r, first |-> s]
    BY DEF IsCursor
  <1> HIDE DEF p, q, r, s
  <1> DEFINE z == [g |-> v, f |-> q, b |-> r, first |-> s]
  <1>2. y = z
    BY <1>1 DEF ToGroup
  <1>3. IsCursor(z) /\ z.g = v /\ z.f = q /\ z.b = r /\ z.first = s
    BY DEF IsCursor
  <1> HIDE DEF z
  <1> QED BY <1>2, <1>3 DEF q, r, s

\* The table of the grouper is such a plan.
LEMMA GroupsPlanned ==
    ASSUME NEW c \in Calls, NEW table, table = << >> \/ table = group_files(Infos(c))
    PROVE  /\ PlanOk(c, table)
           /\ table = group_files(Infos(c)) => PlanWhole(c, table)
  <1>1. CASE table = << >>
    <2>1. IsSeq(table) /\ Len(table) = 0
      <3>1. << >> \in Seq({})
        OBVIOUS
      <3> QED BY <1>1, <3>1 DEF IsSeq
    <2>2. PlanOk(c, table)
      BY <2>1 DEF PlanOk
    <2>3. ASSUME table = group_files(Infos(c)) PROVE PlanWhole(c, table)
      <3>1. TableOk(Infos(c), table, DOMAIN Infos(c))
        BY <2>3, InfosOk, GroupsTable
      <3>2. DOMAIN Infos(c) = DOMAIN c.files
        BY DEF Infos
      <3> QED BY <2>1, <3>1, <3>2 DEF TableOk, PlanWhole
    <2> QED BY <2>2, <2>3
  <1>2. CASE table = group_files(Infos(c))
    <2>1. TableOk(Infos(c), table, DOMAIN Infos(c)) /\ DOMAIN Infos(c) = DOMAIN c.files
      BY <1>2, InfosOk, GroupsTable DEF Infos
    <2>2. ASSUME NEW g \in 1 .. Len(table)
          PROVE  /\ table[g].group_id = g - 1 /\ IsSeq(table[g].indices)
                 /\ DOMAIN table[g].indices = 1 .. Len(table[g].indices)
                 /\ \A k \in 1 .. Len(table[g].indices) :
                       table[g].indices[k] \in Members(table[g])
                 /\ \A j, k \in 1 .. Len(table[g].indices) :
                       table[g].indices[j] = table[g].indices[k] => j = k
      <3>1. GroupOk(Infos(c), table[g].type, table[g].indices, table[g].total)
            /\ table[g].group_id = g - 1
        BY <2>1 DEF TableOk
      <3>2. DOMAIN table[g].indices = 1 .. Len(table[g].indices)
        BY <3>1, SeqDomain DEF GroupOk
      <3> QED BY <3>1, <3>2 DEF GroupOk, Members, Range
    <2>3. \A g \in 1 .. Len(table) : \A i \in Members(table[g]) :
             \E k \in 1 .. Len(table[g].indices) : table[g].indices[k] = i
      BY <2>2 DEF Members, Range
    <2>4. \A g \in 1 .. Len(table) : \A i \in Members(table[g]) : i \in DOMAIN c.files
      BY <2>1 DEF TableOk
    <2>5. \A g, h \in 1 .. Len(table) : \A i \in Members(table[g]) : i \in Members(table[h]) => g = h
      BY <2>1 DEF TableOk
    <2>6. PlanOk(c, table)
      <3>1. IsSeq(table)
        BY <2>1 DEF TableOk
      <3>2. ASSUME NEW g \in 1 .. Len(table), NEW h \in 1 .. Len(table),
                   NEW k \in 1 .. Len(table[g].indices), NEW j \in 1 .. Len(table[h].indices),
                   table[g].indices[k] = table[h].indices[j]
            PROVE  g = h /\ k = j
        BY <2>2, <2>5, <3>2
      <3> QED BY <2>2, <2>4, <3>1, <3>2 DEF PlanOk
    <2>7. PlanWhole(c, table)
      <3> SUFFICES ASSUME NEW i \in DOMAIN c.files
                   PROVE  \E g \in 1 .. Len(table) : \E k \in 1 .. Len(table[g].indices) :
                             table[g].indices[k] = i
        BY DEF PlanWhole
      <3>1. PICK g \in 1 .. Len(table) : i \in Members(table[g])
        BY <2>1 DEF TableOk
      <3> QED BY <2>3, <3>1
    <2> QED BY <2>6, <2>7
  <1> QED BY <1>1, <1>2

\* What the invariant says of the groups.
LEMMA Planned ==
    ASSUME IInv, Grouped
    PROVE  /\ PlanOk(call, groups)
           /\ pc \notin {"scan", "error"} \/ Len(disk) > 0 => PlanWhole(call, groups)
  <1>1. call \in Calls
    BY DEF IInv, Typed
  <1>2. groups = << >> \/ groups = group_files(Infos(call))
    BY DEF Grouped
  <1>3. PlanOk(call, groups) /\ (groups = group_files(Infos(call)) => PlanWhole(call, groups))
    BY <1>1, <1>2, GroupsPlanned
  <1> QED BY <1>2, <1>3 DEF Grouped

\* One more result.
LEMMA RowAppend ==
    ASSUME NEW c, NEW s, NEW row, RowOk(c, s, row), IsSeq(s), Len(row) < Len(s),
           NEW r, RowOk(c, s, row), NEW k, k = Len(row) + 1, r.file_idx = s[k],
           \/ /\ r.dup_of = 0 /\ r.blocks = Chunks(c.files[s[k]].data)
              /\ \A j \in 1 .. Len(row) : c.files[s[j]].data # c.files[s[k]].data
           \/ /\ r.dup_of # 0 /\ r.blocks = << >>
              /\ \E j \in 1 .. Len(row) : /\ r.dup_of = s[j] /\ row[j].dup_of = 0
                                          /\ c.files[s[j]].data = c.files[s[k]].data
    PROVE  RowOk(c, s, Append(row, r))
  <1> DEFINE new == Append(row, r)
  <1>1. /\ IsSeq(new) /\ Len(new) = Len(row) + 1 /\ new[k] = r
        /\ \A i \in 1 .. Len(row) : new[i] = row[i]
    BY AppendSeq DEF RowOk
  <1>2. Len(row) \in Nat /\ Len(s) \in Nat
    BY SeqDomain DEF RowOk
  <1> HIDE DEF new
  <1>3. ResultOk(c, s, new, k)
    <2>1. k - 1 = Len(row)
      BY <1>2
    <2> QED BY <1>1, <1>2, <2>1 DEF ResultOk
  <1>4. ASSUME NEW i \in 1 .. Len(row) PROVE ResultOk(c, s, new, i)
    <2>1. ResultOk(c, s, row, i)
      BY DEF RowOk
    <2>2. \A j \in 1 .. i - 1 : j \in 1 .. Len(row)
      BY <1>2
    <2> QED BY <1>1, <2>1, <2>2 DEF ResultOk
  <1>5. \A i \in 1 .. Len(new) : ResultOk(c, s, new, i)
    BY <1>1, <1>2, <1>3, <1>4
  <1> QED BY <1>1, <1>2, <1>5 DEF RowOk, new

Early == pc \in {"scan", "header", "tables", "compress"}

\* The steps that move neither the groups nor the results, and the cursor only
\* when it does not count blocks.
LEMMA PlanStill ==
    ASSUME Plan, UNCHANGED <<call, groups, results, block_id_counter, global_chunk_idx>>,
           pc' = "scan" => pc = "scan",
           pc' \notin {"scan", "error"} \/ Len(disk') > 0 =>
              pc \notin {"scan", "error"} \/ Len(disk) > 0,
           Early' => Early,
           Writing' => Writing /\ cur' = cur,
           pc' \in {"payload", "trailer"} => AtBlock, IsCursor(cur)'
    PROVE  Plan'
  <1>1. Grouped'
    BY DEF Plan, Grouped
  <1>2. Results' /\ Joined'
    BY DEF Plan, Results, Joined
  <1>3. Writing' => CursorOk'
    BY DEF Plan, Cursor, CursorOk, Blocks, BlocksAt
  <1>4. pc' \in {"payload", "trailer"} => AtBlock'
    <2> SUFFICES ASSUME pc' \in {"payload", "trailer"} PROVE AtBlock'
      OBVIOUS
    <2>1. cur' = cur
      BY DEF Writing
    <2> QED BY <2>1 DEF AtBlock, Blocks, BlocksAt
  <1>5. pc' \in {"scan", "header", "tables", "compress"} =>
           block_id_counter' = 0 /\ global_chunk_idx' = 0
    BY DEF Plan, Cursor, Early
  <1> QED BY <1>1, <1>2, <1>3, <1>4, <1>5 DEF Plan, Cursor

\* Most steps are such steps.
LEMMA PlanStillOk ==
    ASSUME IInv, Plan,
           \/ ScanFile \/ StartPhaseA \/ Finish \/ Fail
           \/ WritePlaceholder \/ WritePrefix \/ WriteFileEntry \/ WriteGroupEntry
           \/ WriteBlockHeader \/ WritePayload \/ WriteIndexEntry \/ WriteFooter
           \/ TearHeader \/ PatchHeader \/ PatchChunkStart \/ PatchChunkCount
           \/ PatchGroupEntry \/ UNCHANGED vars
    PROVE  Plan'
  <1> DEFINE Kept == UNCHANGED <<call, groups, results, block_id_counter, global_chunk_idx>>
  <1>0. IsCursor(cur)
    BY DEF Plan
  <1>1. CASE ScanFile \/ Fail \/ UNCHANGED vars
    <2>1. /\ Kept /\ disk' = disk /\ cur' = cur /\ (pc' = pc \/ pc' = "error")
      BY <1>1 DEF ScanFile, Fail, vars, counters
    <2>2. pc = "scan" => Len(disk) = 0
      BY DEF IInv, Phases
    <2> HIDE DEF Kept
    <2>3. pc' \in {"payload", "trailer"} => AtBlock
      BY <2>1 DEF Plan, Cursor
    <2> USE DEF Kept
    <2> QED BY <2>1, <2>2, <2>3, <1>0, PlanStill DEF Early, Writing
  <1>2. CASE StartPhaseA \/ Finish
    <2>1. /\ Kept /\ disk' = disk /\ cur' = cur
          /\ \/ pc = "tables" /\ pc' = "compress"
             \/ pc = "patch_files" /\ pc' = "done"
      BY <1>2 DEF StartPhaseA, Finish, counters
    <2> QED BY <2>1, <1>0, PlanStill DEF Early, Writing
  <1>3. CASE WritePlaceholder \/ WritePrefix \/ WriteFileEntry \/ WriteGroupEntry
    <2>1. /\ Kept /\ cur' = cur /\ pc \in {"header", "tables"} /\ pc' = "tables"
      BY <1>3 DEF WritePlaceholder, WritePrefix, WriteFileEntry, WriteGroupEntry, counters
    <2> QED BY <2>1, <1>0, PlanStill DEF Early, Writing
  <1>4. CASE WriteBlockHeader
    <2>1. /\ Kept /\ cur' = cur /\ pc = "blocks" /\ pc' = "payload"
          /\ cur.g <= Len(groups) /\ cur.f <= Len(results[cur.g])
          /\ results[cur.g][cur.f].dup_of = 0 /\ cur.b <= Len(results[cur.g][cur.f].blocks)
      BY <1>4 DEF WriteBlockHeader, AtFile, Current, counters
    <2>2. AtBlock
      BY <2>1 DEF AtBlock, Blocks, BlocksAt
    <2> QED BY <2>1, <2>2, <1>0, PlanStill DEF Early, Writing
  <1>5. CASE WritePayload
    <2>1. Kept /\ cur' = cur /\ pc = "payload" /\ pc' = "trailer"
      BY <1>5 DEF WritePayload, counters
    <2>2. AtBlock
      BY <2>1 DEF Plan, Cursor
    <2> QED BY <2>1, <2>2, <1>0, PlanStill DEF Early, Writing
  <1>6. CASE WriteIndexEntry \/ WriteFooter
    <2>1. /\ Kept /\ cur' = cur /\ pc = "blocks" /\ pc' \in {"blocks", "patch_header"}
      BY <1>6 DEF WriteIndexEntry, WriteFooter, counters
    <2> QED BY <2>1, <1>0, PlanStill DEF Early, Writing
  <1>7. CASE TearHeader \/ PatchHeader \/ PatchChunkStart \/ PatchChunkCount \/ PatchGroupEntry
    <2>1. Kept /\ pc \in {"patch_header", "patch_files"} /\ pc' \in {"patch_header", "patch_files"}
      BY <1>7 DEF TearHeader, PatchHeader, PatchChunkStart, PatchChunkCount, PatchGroupEntry, counters
    <2>2. \/ cur' = cur \/ cur' = Start \/ cur' = [cur EXCEPT !.b = 2]
          \/ cur' = [cur EXCEPT !.f = cur.f + 1, !.b = 1] \/ cur' = [cur EXCEPT !.g = cur.g + 1]
      BY <1>7 DEF TearHeader, PatchHeader, PatchChunkStart, PatchChunkCount, PatchGroupEntry, NextFile
    <2>3. IsCursor(Start)
      BY DEF Start, IsCursor
    <2>4. IsCursor(cur')
      <3>1. CASE cur' = [cur EXCEPT !.b = 2]
        BY <1>0, <3>1, CursorToBlock DEF ToBlock
      <3>2. CASE cur' = [cur EXCEPT !.f = cur.f + 1, !.b = 1]
        <4> DEFINE v == cur.f + 1
        <4>1. ToFile(cur, v, 1, cur')
          BY <3>2 DEF ToFile
        <4> HIDE DEF v
        <4> QED BY <1>0, <4>1, CursorToFile
      <3>3. CASE cur' = [cur EXCEPT !.g = cur.g + 1]
        <4> DEFINE v == cur.g + 1
        <4>1. ToGroup(cur, v, cur')
          BY <3>3 DEF ToGroup
        <4> HIDE DEF v
        <4> QED BY <1>0, <4>1, CursorToGroup
      <3>4. CASE cur' = cur
        BY <1>0, <3>4
      <3>5. CASE cur' = Start
        BY <2>3, <3>5
      <3> QED BY <2>2, <3>1, <3>2, <3>3, <3>4, <3>5
    <2> QED BY <2>1, <2>4, PlanStill DEF Early, Writing
  <1> QED BY <1>1, <1>2, <1>3, <1>4, <1>5, <1>6, <1>7

\* The groups are made of the files of the call.
LEMMA PlanGroupFiles == ASSUME IInv, Plan, GroupFiles PROVE Plan'
  <1>1. /\ pc = "scan" /\ pc' = "header" /\ groups' = group_files(FileInfos)
        /\ results' = [g \in DOMAIN groups' |-> << >>]
        /\ Len(entries) = Len(input)
        /\ UNCHANGED <<call, cur, block_id_counter, global_chunk_idx>>
    BY DEF GroupFiles, counters
  <1>2. FileInfos = Infos(call) /\ call \in Calls
    BY <1>1, InfosAre DEF IInv, Typed
  <1>3. Grouped'
    BY <1>1, <1>2 DEF Grouped
  <1>4. PlanOk(call, groups')
    BY <1>1, <1>2, GroupsPlanned
  <1>5. Results'
    <2> SUFFICES ASSUME NEW g \in 1 .. Len(groups')
                 PROVE  RowOk(call, groups'[g].indices, results'[g])
      BY <1>1 DEF Results
    <2>1. DOMAIN groups' = 1 .. Len(groups')
      BY <1>4, SeqDomain DEF PlanOk
    <2>2. results'[g] = << >>
      BY <1>1, <2>1
    <2>3. IsSeq(<< >>) /\ Len(<< >>) = 0
      <3>1. << >> \in Seq({})
        OBVIOUS
      <3> QED BY <3>1 DEF IsSeq
    <2>4. Len(groups'[g].indices) \in Nat
      BY <1>4, SeqDomain DEF PlanOk
    <2> QED BY <2>2, <2>3, <2>4 DEF RowOk
  <1>6. block_id_counter = 0 /\ global_chunk_idx = 0
    BY <1>1 DEF Plan, Cursor
  <1> QED BY <1>1, <1>3, <1>5, <1>6 DEF Plan, Joined, Cursor, Writing, IsCursor

\* A file of a group is compressed, or found to be an earlier one's duplicate:
\* compared are hash and size of the entries, which are those of the input.
LEMMA PlanCompressFile ==
    ASSUME IInv, Plan, NEW g \in DOMAIN groups, CompressFile(g)
    PROVE  Plan'
  <1> DEFINE s == groups[g].indices
             row == results[g]
             k == Len(row) + 1
             i == s[k]
             r == CompressedFile(g, i)
             Same == {x \in Range(row) : /\ x.dup_of = 0
                                         /\ call.files[x.file_idx].data = call.files[i].data}
  <1>1. /\ pc = "compress" /\ pc' = pc /\ Len(row) < Len(s)
        /\ results' = [results EXCEPT ![g] = Append(row, r)]
        /\ UNCHANGED <<call, groups, disk, cur, block_id_counter, global_chunk_idx>>
    BY DEF CompressFile, PushResult, counters
  <1>2. g \in 1 .. Len(groups) /\ DOMAIN results = 1 .. Len(groups)
    BY Sizes
  <1>3. PlanOk(call, groups) /\ RowOk(call, s, row) /\ IsSeq(s)
    BY <1>2, Planned DEF Plan, Results, PlanOk
  <1>4. Len(row) \in Nat /\ Len(s) \in Nat /\ DOMAIN row = 1 .. Len(row) /\ k \in 1 .. Len(s)
    <2>1. Len(row) \in Nat /\ DOMAIN row = 1 .. Len(row) /\ Len(s) \in Nat
      BY <1>3, SeqDomain DEF RowOk
    <2> QED BY <1>1, <2>1
  <1>5. \A j \in 1 .. Len(s) : s[j] \in DOMAIN input /\ s[j] \in Nat /\ s[j] # 0
    <2>1. \A j \in 1 .. Len(s) : s[j] \in DOMAIN input
      BY <1>2, <1>3 DEF PlanOk, input
    <2>2. \A h \in DOMAIN input : h \in Nat /\ h # 0
      BY Sizes
    <2> HIDE DEF s
    <2> QED BY <2>1, <2>2
  <1>6. \A j \in 1 .. Len(row) : j \in 1 .. Len(s) /\ row[j].file_idx = s[j]
    BY <1>1, <1>3, <1>4 DEF RowOk, ResultOk
  <1>7. Len(entries) = Len(input)
    BY <1>1 DEF IInv, Phases
  <1>8. \A j \in DOMAIN input : /\ entries[j].blake3_hash = call.files[j].data
                                /\ entries[j].original_size = Len(call.files[j].data)
    <2>1. \A j \in 1 .. Len(entries) : EntryOf(call, j, entries[j])
      BY DEF IInv, Tables
    <2> QED BY <1>7, <2>1, Sizes, FileEntryFields
  <1>9. SeenBefore(g, i) = Same
    <2>1. i \in DOMAIN input
      BY <1>4, <1>5
    <2>2. \A x \in Range(row) : x.file_idx \in DOMAIN input
      BY <1>4, <1>5, <1>6 DEF Range
    <2>3. \A x \in Range(row) :
             /\ entries[x.file_idx].blake3_hash = call.files[x.file_idx].data
             /\ entries[x.file_idx].original_size = Len(call.files[x.file_idx].data)
      BY <1>8, <2>2
    <2>4. /\ entries[i].blake3_hash = call.files[i].data
          /\ entries[i].original_size = Len(call.files[i].data)
      BY <1>8, <2>1
    <2> HIDE DEF i
    <2> QED BY <2>3, <2>4 DEF SeenBefore
  <1>10. r.file_idx = i
    BY DEF CompressedFile
  <1>11. \/ /\ r.dup_of = 0 /\ r.blocks = Chunks(call.files[i].data)
            /\ \A j \in 1 .. Len(row) : call.files[s[j]].data # call.files[i].data
         \/ /\ r.dup_of # 0 /\ r.blocks = << >>
            /\ \E j \in 1 .. Len(row) : /\ r.dup_of = s[j] /\ row[j].dup_of = 0
                                        /\ call.files[s[j]].data = call.files[i].data
    <2>1. CASE Same = {}
      <3>1. r.dup_of = 0 /\ r.blocks = Chunks(call.files[i].data)
        BY <1>9, <2>1 DEF CompressedFile, input
      <3>2. ASSUME NEW j \in 1 .. Len(row) PROVE call.files[s[j]].data # call.files[i].data
        <4> SUFFICES ASSUME call.files[s[j]].data = call.files[i].data PROVE FALSE
          OBVIOUS
        <4>1. row[j] \in Range(row)
          BY <1>4 DEF Range
        <4>2. row[j].dup_of # 0
          BY <1>6, <2>1, <4>1
        <4>3. ResultOk(call, s, row, j)
          BY <1>3 DEF RowOk
        <4>4. PICK h \in 1 .. j - 1 : row[h].dup_of = 0 /\ call.files[s[h]].data = call.files[s[j]].data
          BY <4>2, <4>3 DEF ResultOk
        <4>5. h \in 1 .. Len(row)
          BY <1>4
        <4>6. row[h] \in Range(row) /\ row[h].file_idx = s[h]
          BY <1>4, <1>6, <4>5 DEF Range
        <4>7. row[h] \in Same
          BY <4>4, <4>6
        <4> QED BY <2>1, <4>7
      <3> QED BY <3>1, <3>2
    <2>2. CASE Same # {}
      <3> DEFINE o == CHOOSE x \in Same : TRUE
      <3>1. o \in Same
        BY <2>2
      <3>2. r.blocks = << >> /\ r.dup_of = o.file_idx
        BY <1>9, <2>2 DEF CompressedFile
      <3> HIDE DEF o
      <3>3. o \in Range(row) /\ o.dup_of = 0 /\ call.files[o.file_idx].data = call.files[i].data
        BY <3>1
      <3>4. PICK j \in 1 .. Len(row) : row[j] = o
        BY <1>4, <3>3 DEF Range
      <3>5. o.file_idx = s[j] /\ s[j] # 0
        BY <1>5, <1>6, <3>4
      <3> QED BY <3>2, <3>3, <3>4, <3>5
    <2> QED BY <2>1, <2>2
  <1>12. RowOk(call, s, Append(row, r))
    <2> HIDE DEF r, row, s
    <2> QED BY <1>1, <1>3, <1>10, <1>11, RowAppend
  <1>13. Results'
    <2> SUFFICES ASSUME NEW h \in 1 .. Len(groups)
                 PROVE  RowOk(call, groups[h].indices, results'[h])
      BY <1>1 DEF Results
    <2>1. CASE h = g
      <3> HIDE DEF r
      <3> QED BY <1>1, <1>2, <1>12, <2>1
    <2>2. CASE h # g
      <3>1. results'[h] = results[h]
        BY <1>1, <1>2, <2>2
      <3> QED BY <3>1 DEF Plan, Results
    <2> QED BY <2>1, <2>2
  <1>14. Grouped'
    <2> HIDE DEF r
    <2> QED BY <1>1 DEF Plan, Grouped
  <1>15. block_id_counter' = 0 /\ global_chunk_idx' = 0 /\ pc' = "compress"
    BY <1>1 DEF Plan, Cursor
  <1> QED BY <1>1, <1>13, <1>14, <1>15 DEF Plan, Joined, Cursor, Writing, IsCursor

------------------------------------------------------------------------------
(* Chunks.                                                                 *)

\* Division rounds down.
LEMMA Quotient ==
    ASSUME NEW a \in Nat, NEW d \in Nat \ {0}
    PROVE  /\ a \div d \in Nat
           /\ (a \div d) * d <= a /\ a < (a \div d) * d + d
  OBVIOUS

\* Products grow with their factors.
LEMMA Times ==
    ASSUME NEW d \in Nat, NEW j \in Nat, NEW k \in Nat, j <= k
    PROVE  /\ j * d \in Nat /\ k * d \in Nat /\ j * d <= k * d
           /\ (k + 1) * d = k * d + d
  OBVIOUS

\* Where chunk k of n symbols ends.
EndOf(k, n) == IF k * ChunkSize < n THEN k * ChunkSize ELSE n

\* A chunk starts within the data, the last one ends with it.
LEMMA ChunkBounds ==
    ASSUME NEW n \in Nat
    PROVE  LET N == (n + ChunkSize - 1) \div ChunkSize IN
           /\ N \in Nat /\ EndOf(0, n) = 0 /\ EndOf(N, n) = n
           /\ \A k \in Nat : k * ChunkSize \in Nat /\ EndOf(k, n) \in 0 .. n
           /\ \A k \in 1 .. N : /\ (k - 1) * ChunkSize = EndOf(k - 1, n)
                                /\ EndOf(k - 1, n) < EndOf(k, n)
  <1> DEFINE d == ChunkSize
             a == n + d - 1
             N == a \div d
  <1>1. d \in Nat \ {0} /\ a \in Nat
    BY CompressorAssumption
  <1>2. N \in Nat /\ N * d <= a /\ a < N * d + d
    <2> HIDE DEF a, d
    <2> QED BY <1>1, Quotient
  <1>3. 0 * d = 0 /\ \A k \in Nat : k * d \in Nat
    BY <1>1
  <1>4. EndOf(0, n) = 0
    BY <1>3 DEF EndOf
  <1>5. EndOf(N, n) = n
    <2>1. N * d \in Nat /\ N * d >= n
      <3> HIDE DEF N
      <3> DEFINE x == N * d
      <3>1. x \in Nat /\ a < x + d
        BY <1>2, <1>3
      <3> HIDE DEF x, d
      <3> QED BY <1>1, <3>1 DEF x
    <2> QED BY <2>1 DEF EndOf
  <1>6. \A k \in Nat : k * d \in Nat /\ EndOf(k, n) \in 0 .. n
    BY <1>3 DEF EndOf
  <1>7. ASSUME NEW k \in 1 .. N
        PROVE  (k - 1) * d = EndOf(k - 1, n) /\ EndOf(k - 1, n) < EndOf(k, n)
    <2> DEFINE x == (k - 1) * d
               y == k * d
               z == N * d
    <2>1. k - 1 \in Nat /\ k \in Nat /\ k <= N /\ N \in Nat
      BY <1>2
    <2>2. x \in Nat /\ y \in Nat /\ z \in Nat /\ y = x + d /\ y <= z
      <3> HIDE DEF N
      <3>1. /\ (k - 1) * d \in Nat /\ k * d \in Nat /\ k * d <= N * d /\ N * d \in Nat
            /\ (k - 1 + 1) * d = (k - 1) * d + d
        BY <1>1, <2>1, Times
      <3>2. k - 1 + 1 = k
        BY <2>1
      <3> QED BY <3>1, <3>2
    <2>3. z <= n + d - 1
      BY <1>2
    <2> HIDE DEF x, y, z, N, d
    <2>4. x < n /\ x < y
      BY <1>1, <2>2, <2>3
    <2> USE DEF x, y
    <2> QED BY <2>2, <2>4 DEF EndOf, d
  <1> QED BY <1>2, <1>4, <1>5, <1>6, <1>7

\* A piece of a sequence.
LEMMA Piece ==
    ASSUME NEW S, NEW s \in Seq(S), NEW i \in 0 .. Len(s), NEW j \in i .. Len(s), NEW lo, lo = i + 1
    PROVE  /\ SubSeq(s, lo, j) \in Seq(S) /\ Len(SubSeq(s, lo, j)) = j - i
           /\ \A p \in 1 .. j - i : SubSeq(s, lo, j)[p] = s[i + p]
  <1>1. Len(s) \in Nat /\ \A p \in lo .. j : s[p] \in S
    <2>1. Len(s) \in Nat /\ \A p \in 1 .. Len(s) : s[p] \in S
      BY LenProperties, ElementOfSeq
    <2> QED BY <2>1
  <1>2. lo \in Int /\ j \in Int /\ i \in Nat /\ j - lo + 1 = j - i
    BY <1>1
  <1>3. SubSeq(s, lo, j) \in Seq(S)
    BY <1>1, <1>2, SubSeqProperties
  <1>4. Len(SubSeq(s, lo, j)) = IF lo <= j THEN j - lo + 1 ELSE 0
    BY <1>1, <1>2, SubSeqProperties
  <1>5. Len(SubSeq(s, lo, j)) = j - i
    BY <1>1, <1>2, <1>4
  <1>6. \A p \in 1 .. j - lo + 1 : SubSeq(s, lo, j)[p] = s[lo + p - 1]
    BY <1>1, <1>2, SubSeqProperties
  <1>7. ASSUME NEW p \in 1 .. j - i PROVE SubSeq(s, lo, j)[p] = s[i + p]
    <2>1. lo + p - 1 = i + p
      BY <1>2
    <2> QED BY <1>2, <1>6, <2>1
  <1> QED BY <1>3, <1>5, <1>7

\* The chunks of a file are consecutive pieces of it, none of them empty.
LEMMA ChunksOf ==
    ASSUME NEW S, NEW data \in Seq(S)
    PROVE  LET n == Len(data) IN
           /\ IsSeq(Chunks(data)) /\ Len(Chunks(data)) \in Nat
           /\ DOMAIN Chunks(data) = 1 .. Len(Chunks(data))
           /\ EndOf(0, n) = 0 /\ EndOf(Len(Chunks(data)), n) = n
           /\ \A k \in 1 .. Len(Chunks(data)) :
                 /\ EndOf(k - 1, n) \in Nat /\ EndOf(k - 1, n) = (k - 1) * ChunkSize
                 /\ EndOf(k, n) \in EndOf(k - 1, n) + 1 .. n
                 /\ Chunks(data)[k] \in Seq(S)
                 /\ Len(Chunks(data)[k]) = EndOf(k, n) - EndOf(k - 1, n)
                 /\ \A p \in 1 .. Len(Chunks(data)[k]) : Chunks(data)[k][p] = data[EndOf(k - 1, n) + p]
  <1> DEFINE n == Len(data)
             N == (n + ChunkSize - 1) \div ChunkSize
             q == Chunks(data)
  <1>1. n \in Nat
    BY LenProperties
  <1>2. /\ N \in Nat /\ EndOf(0, n) = 0 /\ EndOf(N, n) = n
        /\ \A k \in Nat : k * ChunkSize \in Nat /\ EndOf(k, n) \in 0 .. n
        /\ \A k \in 1 .. N : /\ (k - 1) * ChunkSize = EndOf(k - 1, n)
                             /\ EndOf(k - 1, n) < EndOf(k, n)
    BY <1>1, ChunkBounds
  <1>3. q = [k \in 1 .. N |-> SubSeq(data, (k - 1) * ChunkSize + 1, EndOf(k, n))]
    BY DEF Chunks, EndOf
  <1> HIDE DEF N, q
  <1>4. IsSeq(q) /\ Len(q) = N /\ DOMAIN q = 1 .. N
    <2>1. q = [k \in 1 .. N |-> q[k]] /\ DOMAIN q = 1 .. N
      BY <1>3
    <2> QED BY <1>2, <2>1, IntervalSeq
  <1>5. ASSUME NEW k \in 1 .. N
        PROVE  /\ EndOf(k - 1, n) \in Nat /\ EndOf(k - 1, n) = (k - 1) * ChunkSize
               /\ EndOf(k, n) \in EndOf(k - 1, n) + 1 .. n
               /\ q[k] \in Seq(S)
               /\ Len(q[k]) = EndOf(k, n) - EndOf(k - 1, n)
               /\ \A p \in 1 .. Len(q[k]) : q[k][p] = data[EndOf(k - 1, n) + p]
    <2> DEFINE i == EndOf(k - 1, n)
               j == EndOf(k, n)
               lo == (k - 1) * ChunkSize + 1
    <2>1. k - 1 \in Nat /\ k \in Nat
      BY <1>2
    <2>2. i \in 0 .. n /\ j \in 0 .. n /\ i < j /\ i = (k - 1) * ChunkSize
      BY <1>2, <2>1
    <2>3. q[k] = SubSeq(data, lo, j)
      BY <1>3
    <2>4. lo = i + 1
      BY <2>2
    <2> HIDE DEF i, j, lo
    <2>5. i \in 0 .. n /\ j \in i .. n
      BY <1>1, <2>2
    <2>6. /\ q[k] \in Seq(S) /\ Len(q[k]) = j - i
          /\ \A p \in 1 .. j - i : q[k][p] = data[i + p]
      BY <2>3, <2>4, <2>5, Piece
    <2>7. i \in Nat /\ j \in i + 1 .. n
      BY <1>1, <2>2
    <2> QED BY <2>2, <2>6, <2>7 DEF i, j
  <1> QED BY <1>2, <1>4, <1>5 DEF q

\* A chunk of a call's file is no sign of a failure.
LEMMA ChunkIsData ==
    ASSUME NEW c \in Calls, NEW i \in DOMAIN c.files,
           NEW k \in 1 .. Len(Chunks(c.files[i].data))
    PROVE  /\ Chunks(c.files[i].data)[k] # NoData
           /\ Len(Chunks(c.files[i].data)[k]) \in Nat
  <1> DEFINE d == c.files[i].data
             x == Chunks(d)[k]
  <1>1. d \in Seq(Range(d)) /\ Range(d) \cap Range(NoData) = {} /\ Len(d) \in Nat
    BY CallFiles
  <1>2. /\ EndOf(k - 1, Len(d)) \in Nat /\ EndOf(k, Len(d)) \in EndOf(k - 1, Len(d)) + 1 .. Len(d)
        /\ Len(x) = EndOf(k, Len(d)) - EndOf(k - 1, Len(d)) /\ x \in Seq(Range(d))
    <2> HIDE DEF d
    <2> QED BY <1>1, ChunksOf DEF d
  <1> HIDE DEF x, d
  <1>3. Len(x) \in Nat /\ Len(x) > 0
    BY <1>1, <1>2
  <1>4. x[1] \in Range(d)
    BY <1>2, <1>3, ElementOfSeq
  <1>5. ASSUME x = NoData PROVE FALSE
    <2>1. x[1] = "no_data" /\ "no_data" \in Range(NoData)
      BY <1>5 DEF NoData, Range
    <2> QED BY <1>1, <1>4, <2>1
  <1> QED BY <1>3, <1>5 DEF x, d

------------------------------------------------------------------------------
(* The cursor.                                                             *)

\* A result belongs to its place, and has the file's chunks or none.
LEMMA ResultAt ==
    ASSUME IInv, Plan, NEW g \in 1 .. Len(groups), NEW k \in 1 .. Len(results[g])
    PROVE  LET r == results[g][k]
               s == groups[g].indices IN
           /\ k \in 1 .. Len(s) /\ Len(s) \in Nat /\ Len(results[g]) \in Nat
           /\ s[k] \in DOMAIN input /\ r.file_idx = s[k]
           /\ Len(r.blocks) \in Nat
           /\ r.dup_of = 0 => r.blocks = Chunks(input[s[k]].data)
           /\ r.dup_of # 0 => Len(r.blocks) = 0
  <1> DEFINE r == results[g][k]
             s == groups[g].indices
  <1>1. PlanOk(call, groups) /\ RowOk(call, s, results[g]) /\ call \in Calls
    BY Planned DEF Plan, Results, IInv, Typed
  <1>2. Len(s) \in Nat /\ Len(results[g]) \in Nat /\ k \in 1 .. Len(s)
    <2>1. IsSeq(s) /\ IsSeq(results[g]) /\ Len(results[g]) <= Len(s)
      BY <1>1 DEF PlanOk, RowOk
    <2>2. Len(s) \in Nat /\ Len(results[g]) \in Nat
      BY <2>1, SeqDomain
    <2> QED BY <2>1, <2>2
  <1>3. s[k] \in DOMAIN input
    BY <1>1, <1>2 DEF PlanOk, input
  <1>4. /\ r.file_idx = s[k]
        /\ r.dup_of = 0 => r.blocks = Chunks(input[s[k]].data)
        /\ r.dup_of # 0 => r.blocks = << >>
    BY <1>1 DEF RowOk, ResultOk, input
  <1>5. Len(Chunks(input[s[k]].data)) \in Nat
    <2> DEFINE d == input[s[k]].data
    <2>1. d \in Seq(Range(d))
      BY <1>1, <1>3, CallFiles DEF input
    <2> HIDE DEF d
    <2>2. Len(Chunks(d)) \in Nat
      BY <2>1, ChunksOf
    <2> QED BY <2>2 DEF d
  <1>6. Len(<< >>) = 0
    OBVIOUS
  <1> QED BY <1>2, <1>3, <1>4, <1>5, <1>6

\* So the number of blocks is a number.
LEMMA BlocksNat ==
    ASSUME IInv, Plan, NEW g \in 1 .. Len(groups) + 1, NEW f \in Nat \ {0}
    PROVE  BlocksAt(results, Len(groups), g, f) \in Nat
  <1>1. CASE g <= Len(groups) /\ f <= Len(results[g])
    <2>1. g \in 1 .. Len(groups)
      BY <1>1, Sizes
    <2>2. IsSeq(results[g])
      BY <2>1 DEF Plan, Results, RowOk
    <2>3. f \in 1 .. Len(results[g])
      BY <1>1, <2>2, SeqDomain
    <2> QED BY <1>1, <2>1, <2>3, ResultAt DEF BlocksAt
  <1>2. CASE ~(g <= Len(groups) /\ f <= Len(results[g]))
    BY <1>2 DEF BlocksAt
  <1> QED BY <1>1, <1>2

\* A step to another place.
LEMMA PlanMoved ==
    ASSUME IInv, Plan, UNCHANGED <<call, groups, results>>, Len(disk') >= Len(disk),
           pc \notin {"scan", "error"}, pc' = "blocks", Joined', CursorOk', IsCursor(cur)'
    PROVE  Plan'
  <1>1. Grouped'
    BY DEF Plan, Grouped
  <1>2. Results'
    BY DEF Plan, Results
  <1> QED BY <1>1, <1>2 DEF Plan, Cursor

\* The new place is before the first block of a file.
LEMMA CursorAtStart ==
    ASSUME IInv, Plan, UNCHANGED <<groups, results>>,
           cur'.g \in 1 .. Len(groups) + 1, cur'.f \in Nat \ {0}, cur'.b = 1,
           cur'.g <= Len(groups) => cur'.f <= Len(results[cur'.g]) + 1,
           cur'.g > Len(groups) => cur'.f = 1,
           global_chunk_idx' \in Nat, block_id_counter' = global_chunk_idx'
    PROVE  CursorOk'
  <1> DEFINE g == cur'.g
             f == cur'.f
  <1>1. BlocksAt(results, Len(groups), g, f) \in Nat
    <2> DEFINE x == g
               y == f
    <2>1. x \in 1 .. Len(groups) + 1 /\ y \in Nat \ {0}
      OBVIOUS
    <2> HIDE DEF x, y
    <2>2. BlocksAt(results, Len(groups), x, y) \in Nat
      BY <2>1, BlocksNat
    <2> QED BY <2>2 DEF x, y
  <1>2. Blocks' = BlocksAt(results, Len(groups), g, f)
    BY DEF Blocks, BlocksAt
  <1>3. cur'.b \in 1 .. Blocks' + 1
    BY <1>1, <1>2
  <1> HIDE DEF g, f
  <1>4. block_id_counter' = global_chunk_idx' + cur'.b - 1
    <2> DEFINE x == block_id_counter'
               y == global_chunk_idx'
               z == cur'.b
    <2>1. x = y /\ z = 1 /\ y \in Nat
      OBVIOUS
    <2> HIDE DEF x, y, z
    <2>2. x = y + z - 1
      BY <2>1
    <2> QED BY <2>2 DEF x, y, z
  <1> QED BY <1>3, <1>4 DEF CursorOk

\* The pool is joined when all results are there.
LEMMA PlanJoinGroups == ASSUME IInv, Plan, JoinGroups PROVE Plan'
  <1>1. /\ pc = "compress" /\ pc' = "blocks" /\ cur' = Start
        /\ \A g \in DOMAIN groups : Len(results[g]) = Len(groups[g].indices)
        /\ UNCHANGED <<call, groups, results, disk, block_id_counter, global_chunk_idx>>
    BY DEF JoinGroups, counters
  <1>2. block_id_counter = 0 /\ global_chunk_idx = 0
    BY <1>1 DEF Plan, Cursor
  <1>3. cur'.g = 1 /\ cur'.f = 1 /\ cur'.b = 1 /\ IsCursor(cur')
    BY <1>1 DEF Start, IsCursor
  <1>4. Len(groups) \in Nat /\ DOMAIN groups = 1 .. Len(groups) /\ Len(disk) \in Nat
    BY Sizes
  <1>5. Len(groups) >= 1 => Len(results[1]) \in Nat
    <2>1. Len(groups) >= 1 => IsSeq(results[1])
      BY <1>4 DEF Plan, Results, RowOk
    <2> QED BY <2>1, SeqDomain
  <1>6. CursorOk'
    BY <1>1, <1>2, <1>3, <1>4, <1>5, CursorAtStart
  <1>7. Joined'
    BY <1>1, <1>4 DEF Joined
  <1> QED BY <1>1, <1>3, <1>4, <1>6, <1>7, PlanMoved

\* The next file of a group, when the blocks of the present one are written.
LEMMA PlanNextFile ==
    ASSUME IInv, Plan, AtFile, NextFile, pc' = "blocks", disk' = disk,
           UNCHANGED <<call, groups, results>>,
           global_chunk_idx' \in Nat, block_id_counter' = global_chunk_idx'
    PROVE  Plan'
  <1>1. /\ pc = "blocks" /\ cur.g <= Len(groups) /\ cur.f <= Len(results[cur.g])
        /\ cur' = [cur EXCEPT !.f = @ + 1, !.b = 1]
    BY DEF AtFile, NextFile
  <1>2. CursorOk
    BY <1>1 DEF Plan, Cursor, Writing
  <1>3. cur.g \in 1 .. Len(groups) /\ cur.f \in Nat
    BY <1>1, <1>2, Sizes DEF CursorOk
  <1>4. Len(results[cur.g]) \in Nat
    BY <1>3, SeqDomain DEF Plan, Results, RowOk
  <1>5. cur'.g = cur.g /\ cur'.f = cur.f + 1 /\ cur'.b = 1 /\ IsCursor(cur')
    <2> DEFINE v == cur.f + 1
    <2>1. ToFile(cur, v, 1, cur') /\ IsCursor(cur)
      BY <1>1 DEF Plan, ToFile
    <2> HIDE DEF v
    <2>2. cur'.g = cur.g /\ cur'.f = v /\ cur'.b = 1 /\ IsCursor(cur')
      BY <2>1, CursorToFile
    <2> QED BY <2>2 DEF v
  <1>6. CursorOk'
    <2>1. /\ cur'.g \in 1 .. Len(groups) + 1
          /\ cur'.f \in Nat \ {0}
          /\ cur'.g <= Len(groups) => cur'.f <= Len(results[cur'.g]) + 1
      BY <1>1, <1>3, <1>4, <1>5, Sizes
    <2>2. cur'.g > Len(groups) => cur'.f = 1
      BY <1>1, <1>3, <1>5, Sizes
    <2>3. cur'.b = 1
      BY <1>5
    <2>4. global_chunk_idx' \in Nat /\ block_id_counter' = global_chunk_idx'
          /\ UNCHANGED <<groups, results>>
      OBVIOUS
    <2> QED BY <2>1, <2>2, <2>3, <2>4, CursorAtStart
  <1>7. Joined'
    BY <1>1 DEF Plan, Joined, Writing
  <1> QED BY <1>1, <1>5, <1>6, <1>7, Sizes, PlanMoved

\* The file at the cursor.
LEMMA AtCurrent ==
    ASSUME IInv, Plan, AtFile
    PROVE  /\ cur.g \in 1 .. Len(groups) /\ cur.f \in 1 .. Len(results[cur.g])
           /\ Current = results[cur.g][cur.f]
           /\ Blocks = Len(Current.blocks) /\ Blocks \in Nat
           /\ cur.b \in 1 .. Blocks + 1
           /\ global_chunk_idx \in Nat /\ block_id_counter = global_chunk_idx + cur.b - 1
           /\ Current.dup_of # 0 => Blocks = 0
           /\ Current.dup_of = 0 => Current.blocks = Chunks(input[Current.file_idx].data)
           /\ Current.file_idx \in DOMAIN input
  <1>1. pc = "blocks" /\ cur.g <= Len(groups) /\ cur.f <= Len(results[cur.g])
    BY DEF AtFile
  <1>2. CursorOk
    BY <1>1 DEF Plan, Cursor, Writing
  <1>3. cur.g \in 1 .. Len(groups)
    BY <1>1, <1>2, Sizes DEF CursorOk
  <1>4. cur.f \in 1 .. Len(results[cur.g])
    <2>1. Len(results[cur.g]) \in Nat
      BY <1>3, SeqDomain DEF Plan, Results, RowOk
    <2> QED BY <1>1, <1>2, <2>1 DEF CursorOk
  <1>5. Blocks = Len(Current.blocks)
    BY <1>1 DEF Blocks, BlocksAt, Current
  <1> DEFINE g == cur.g
             k == cur.f
  <1>6. g \in 1 .. Len(groups) /\ k \in 1 .. Len(results[g]) /\ Current = results[g][k]
    BY <1>3, <1>4 DEF Current
  <1> HIDE DEF g, k
  <1>7. /\ Current.file_idx \in DOMAIN input
        /\ Len(Current.blocks) \in Nat
        /\ Current.dup_of = 0 => Current.blocks = Chunks(input[Current.file_idx].data)
        /\ Current.dup_of # 0 => Len(Current.blocks) = 0
    BY <1>6, ResultAt
  <1> QED BY <1>2, <1>3, <1>4, <1>5, <1>7 DEF CursorOk, Current

\* A duplicate has no blocks of its own to pass.
LEMMA PlanShareBlocks == ASSUME IInv, Plan, ShareBlocks PROVE Plan'
  <1>1. /\ AtFile /\ Current.dup_of # 0 /\ NextFile /\ pc = "blocks" /\ pc' = pc /\ disk' = disk
        /\ UNCHANGED <<call, groups, results, block_id_counter, global_chunk_idx>>
    BY DEF ShareBlocks, AtFile, counters
  <1>2. Blocks = 0 /\ cur.b \in 1 .. Blocks + 1 /\ global_chunk_idx \in Nat
        /\ block_id_counter = global_chunk_idx + cur.b - 1
    BY <1>1, AtCurrent
  <1>3. cur.b = 1
    BY <1>2
  <1>4. block_id_counter = global_chunk_idx
    BY <1>2, <1>3
  <1> QED BY <1>1, <1>2, <1>4, PlanNextFile

\* The next file starts where the blocks of this one end.
LEMMA PlanEndFile == ASSUME IInv, Plan, EndFile PROVE Plan'
  <1>1. /\ AtFile /\ cur.b > Len(Current.blocks) /\ NextFile /\ pc = "blocks" /\ pc' = pc /\ disk' = disk
        /\ UNCHANGED <<call, groups, results, block_id_counter>>
        /\ global_chunk_idx' = global_chunk_idx + Len(Current.blocks)
    BY DEF EndFile, AtFile, counters
  <1>2. Blocks \in Nat /\ Blocks = Len(Current.blocks) /\ cur.b \in 1 .. Blocks + 1
        /\ global_chunk_idx \in Nat /\ block_id_counter = global_chunk_idx + cur.b - 1
    BY <1>1, AtCurrent
  <1>3. cur.b = Blocks + 1
    BY <1>1, <1>2
  <1>4. block_id_counter' = global_chunk_idx' /\ global_chunk_idx' \in Nat
    BY <1>1, <1>2, <1>3
  <1> QED BY <1>1, <1>4, PlanNextFile

\* A finished block is one of those the counter counts.
LEMMA PlanWriteTrailer == ASSUME IInv, Plan, WriteTrailer PROVE Plan'
  <1>1. /\ pc = "trailer" /\ pc' = "blocks" /\ cur' = [cur EXCEPT !.b = @ + 1]
        /\ block_id_counter' = block_id_counter + 1 /\ disk' = Append(disk, [k |-> "btrl", content_blake3 |-> CurrentChunk])
        /\ UNCHANGED <<call, groups, results, global_chunk_idx>>
    BY DEF WriteTrailer, Append1, NextBlockId
  <1>2. CursorOk /\ AtBlock
    BY <1>1 DEF Plan, Cursor, Writing
  <1>3. cur'.g = cur.g /\ cur'.f = cur.f /\ cur'.b = cur.b + 1 /\ IsCursor(cur')
    <2> DEFINE w == cur.b + 1
    <2>1. ToBlock(cur, w, cur') /\ IsCursor(cur)
      BY <1>1 DEF Plan, ToBlock
    <2> HIDE DEF w
    <2>2. cur'.g = cur.g /\ cur'.f = cur.f /\ cur'.b = w /\ IsCursor(cur')
      BY <2>1, CursorToBlock
    <2> QED BY <2>2 DEF w
  <1>4. Blocks' = Blocks
    BY <1>1, <1>3 DEF Blocks, BlocksAt
  <1>5. Blocks \in Nat /\ cur.b \in 1 .. Blocks
    <2> DEFINE g == cur.g
               k == cur.f
    <2>1. g \in 1 .. Len(groups) + 1 /\ k \in Nat \ {0}
          /\ Blocks = BlocksAt(results, Len(groups), g, k)
      BY <1>2 DEF CursorOk, Blocks
    <2> HIDE DEF g, k
    <2>2. Blocks \in Nat
      BY <2>1, BlocksNat
    <2> QED BY <1>2, <2>2 DEF CursorOk, AtBlock
  <1>6. CursorOk'
    <2>1. cur'.b \in 1 .. Blocks' + 1
      BY <1>3, <1>4, <1>5
    <2>2. block_id_counter' = global_chunk_idx' + cur'.b - 1
      BY <1>1, <1>2, <1>3, <1>5 DEF CursorOk
    <2> QED BY <1>1, <1>2, <1>3, <2>1, <2>2 DEF CursorOk
  <1>7. Joined'
    BY <1>1 DEF Plan, Joined, Writing
  <1>8. Len(disk') >= Len(disk)
    <2>1. IsSeq(disk) /\ Len(disk) \in Nat
      BY Sizes DEF IInv, Typed
    <2> QED BY <1>1, <2>1, AppendSeq
  <1> QED BY <1>1, <1>3, <1>6, <1>7, <1>8, PlanMoved

\* The next group starts where the blocks of this one end.
LEMMA PlanEndGroup == ASSUME IInv, Plan, EndGroup PROVE Plan'
  <1>1. /\ pc = "blocks" /\ pc' = pc /\ disk' = disk
        /\ cur.g <= Len(groups) /\ cur.f > Len(results[cur.g])
        /\ cur' = [g |-> cur.g + 1, f |-> 1, b |-> 1, first |-> block_id_counter]
        /\ UNCHANGED <<call, groups, results, block_id_counter, global_chunk_idx>>
    BY DEF EndGroup, EnterGroup, counters
  <1>2. CursorOk
    BY <1>1 DEF Plan, Cursor, Writing
  <1>3. cur.g \in 1 .. Len(groups) /\ Len(groups) \in Nat
    BY <1>1, <1>2, Sizes DEF CursorOk
  <1>4. Blocks = 0
    <2>1. ~(cur.f <= Len(results[cur.g]))
      <3>1. Len(results[cur.g]) \in Nat
        BY <1>3, SeqDomain DEF Plan, Results, RowOk
      <3> QED BY <1>1, <1>2, <3>1 DEF CursorOk
    <2> QED BY <2>1 DEF Blocks, BlocksAt
  <1>5. global_chunk_idx \in Nat /\ block_id_counter = global_chunk_idx
    <2>1. cur.b \in 1 .. 1 /\ global_chunk_idx \in Nat /\ block_id_counter = global_chunk_idx + cur.b - 1
      BY <1>2, <1>4 DEF CursorOk
    <2>2. cur.b = 1
      BY <2>1
    <2> QED BY <2>1, <2>2
  <1>6. cur'.g = cur.g + 1 /\ cur'.f = 1 /\ cur'.b = 1 /\ IsCursor(cur')
    BY <1>1 DEF IsCursor
  <1>7. cur'.g <= Len(groups) => cur'.f <= Len(results[cur'.g]) + 1
    <2> SUFFICES ASSUME cur'.g <= Len(groups) PROVE cur'.f <= Len(results[cur'.g]) + 1
      OBVIOUS
    <2>1. cur'.g \in 1 .. Len(groups)
      BY <1>3, <1>6
    <2>2. Len(results[cur'.g]) \in Nat
      BY <2>1, SeqDomain DEF Plan, Results, RowOk
    <2> QED BY <1>6, <2>2
  <1>8. CursorOk'
    BY <1>1, <1>3, <1>5, <1>6, <1>7, CursorAtStart
  <1>9. Joined'
    BY <1>1 DEF Plan, Joined, Writing
  <1> QED BY <1>1, <1>6, <1>8, <1>9, Sizes, PlanMoved

\* The plan at the start.
LEMMA PlanInit == ASSUME Init PROVE Plan
  BY DEF Init, Plan, Grouped, Results, Joined, Cursor, Writing, IsCursor, Start

\* Every step keeps the plan.
LEMMA PlanNext == ASSUME IInv, Plan, [Next]_vars PROVE Plan'
  <1>1. CASE \/ ScanFile \/ StartPhaseA \/ Finish \/ Fail
             \/ WritePlaceholder \/ WritePrefix \/ WriteFileEntry \/ WriteGroupEntry
             \/ WriteBlockHeader \/ WritePayload \/ WriteIndexEntry \/ WriteFooter
             \/ TearHeader \/ PatchHeader \/ PatchChunkStart \/ PatchChunkCount
             \/ PatchGroupEntry \/ UNCHANGED vars
    BY <1>1, PlanStillOk
  <1>2. CASE \E g \in DOMAIN groups : CompressFile(g)
    BY <1>2, PlanCompressFile
  <1>3. CASE GroupFiles
    BY <1>3, PlanGroupFiles
  <1>4. CASE JoinGroups
    BY <1>4, PlanJoinGroups
  <1>5. CASE ShareBlocks
    BY <1>5, PlanShareBlocks
  <1>6. CASE EndFile
    BY <1>6, PlanEndFile
  <1>7. CASE EndGroup
    BY <1>7, PlanEndGroup
  <1>8. CASE WriteTrailer
    BY <1>8, PlanWriteTrailer
  <1> QED BY <1>1, <1>2, <1>3, <1>4, <1>5, <1>6, <1>7, <1>8 DEF Next, Proceed, Write

\* In every reachable state the plan is that of the call.
THEOREM PlanInvariance == Spec => [](IInv /\ Plan)
  <1>1. Init => IInv /\ Plan
    BY InitOk, PlanInit
  <1>2. IInv /\ Plan /\ [Next]_vars => (IInv /\ Plan)'
    BY NextOk, StutterOk, PlanNext
  <1> QED BY <1>1, <1>2, PTL DEF Spec

\* From the moment the groups are made, every file of the call is in exactly
\* one of them, of its content type.
THEOREM FilesGrouped == Spec => []GroupsPartitionFiles
  <1>1. IInv /\ Plan => GroupsPartitionFiles
    <2> SUFFICES ASSUME IInv, Plan, pc \notin {"scan", "error"} PROVE Partitions(groups, FileInfos)
      BY DEF GroupsPartitionFiles
    <2>1. groups = group_files(Infos(call)) /\ call \in Calls
      BY DEF Plan, Grouped, IInv, Typed
    <2>2. FileInfos = Infos(call)
      BY InfosAre DEF IInv, Phases
    <2>3. Partitions(group_files(Infos(call)), Infos(call))
      BY <2>1, InfosOk, GroupsAreExact
    <2> QED BY <2>1, <2>2, <2>3
  <1> QED BY <1>1, PlanInvariance, PTL

\* And no group is larger than the limit unless it is one file that is.
THEOREM GroupsBounded == Spec => []GroupSizeBound
  <1>1. IInv /\ Plan => GroupSizeBound
    <2> SUFFICES ASSUME IInv, Plan, pc \notin {"scan", "error"} PROVE WithinBound(groups, FileInfos)
      BY DEF GroupSizeBound
    <2>1. groups = group_files(Infos(call)) /\ call \in Calls
      BY DEF Plan, Grouped, IInv, Typed
    <2>2. FileInfos = Infos(call)
      BY InfosAre DEF IInv, Phases
    <2>3. WithinBound(group_files(Infos(call)), Infos(call))
      BY <2>1, InfosOk, GroupsAreBounded
    <2> QED BY <2>1, <2>2, <2>3
  <1> QED BY <1>1, PlanInvariance, PTL

------------------------------------------------------------------------------
(* The image behind the tables.                                            *)

TablesEnd == Offset(call) + Len(entries) + Len(groups)

\* A header and a payload of block number id.
HeadOk(rec, id, group, data) ==
    /\ rec.k = "bhdr" /\ rec.block_id = id
    /\ rec.solid_group_id = group /\ rec.uncompressed_size = Len(data)

BodyOk(c, rec, id, data) ==
    rec.k = "payload" /\ rec.data = data /\ (c.encrypted => rec.aad = id)

\* Block b of an image whose tables end at e, and its index entry.
BlockOk(c, img, e, x, b) ==
    LET p == e + 3 * (b - 1)
        data == img[p + 2].data
    IN  /\ p + 3 <= Len(img)
        /\ x.k = "index" /\ x.block_id = b - 1 /\ x.archive_offset = p
        /\ x.uncompressed_size = Len(data)
        /\ HeadOk(img[p + 1], b - 1, x.solid_group_id, data)
        /\ BodyOk(c, img[p + 2], b - 1, data) /\ data # NoData
        /\ img[p + 3].k = "btrl" /\ img[p + 3].content_blake3 = data

BlocksOn(c, img, e, index) == \A b \in 1 .. Len(index) : BlockOk(c, img, e, index[b], b)

\* As much of the index as is written.
IndexOn(img, at, index) ==
    \A k \in 1 .. Len(index) : at + k <= Len(img) => img[at + k] = index[k]

FooterOk(rec) ==
    rec = [k |-> "footer", block_index_offset |-> block_index_offset,
           file_table_offset |-> file_table_offset,
           block_count |-> block_id_counter, file_count |-> Len(entries)]

BlocksEnd == TablesEnd + 3 * block_id_counter

Indexing == pc = "blocks" /\ cur.g > Len(groups)

\* The footer is written, and for all that the header says so.
Closed ==
    \/ pc \in {"patch_header", "patch_files", "done"}
    \/ Len(disk) > 0 /\ disk[1].file_table_offset > 0

\* How much is written, and what the last records are.
Stages ==
    /\ pc = "compress" => Len(disk) = TablesEnd
    /\ pc = "blocks" /\ cur.g <= Len(groups) => Len(disk) = BlocksEnd
    /\ pc = "payload" =>
          /\ Len(disk) = BlocksEnd + 1
          /\ HeadOk(disk[BlocksEnd + 1], block_id_counter, groups[cur.g].group_id, CurrentChunk)
    /\ pc = "trailer" =>
          /\ Len(disk) = BlocksEnd + 2
          /\ HeadOk(disk[BlocksEnd + 1], block_id_counter, groups[cur.g].group_id, CurrentChunk)
          /\ BodyOk(call, disk[BlocksEnd + 2], block_id_counter, CurrentChunk)
    /\ Indexing \/ Closed =>
          Len(disk) >= BlocksEnd /\ IndexOn(disk, BlocksEnd, all_block_indices)
    /\ Closed => Len(disk) = BlocksEnd + block_id_counter + 1 /\ FooterOk(disk[Len(disk)])

\* The header names no file table before the footer is written; an intact one
\* that does is the final one.
Unsealed == pc \in {"tables", "compress", "blocks", "payload", "trailer"}

Heads ==
    /\ Unsealed => disk[1].file_table_offset = 0
    /\ Len(disk) > 0 /\ disk[1].file_table_offset > 0 /\ disk[1].intact => disk[1] = final_header
    /\ pc \in {"patch_files", "done"} => disk[1] = final_header

Image == BlocksOn(call, disk, TablesEnd, all_block_indices) /\ Stages /\ Heads

\* The lengths are numbers.
LEMMA Ends ==
    ASSUME IInv
    PROVE  /\ TablesEnd \in Nat /\ BlocksEnd \in Nat /\ TablesEnd >= 1
           /\ block_id_counter \in Nat /\ block_id_counter = Len(all_block_indices)
           /\ BlocksEnd = TablesEnd + 3 * block_id_counter
           /\ Len(disk) \in Nat
           /\ block_index_offset = BlocksEnd /\ file_table_offset = Offset(call)
  <1>1. block_id_counter = Len(all_block_indices)
    BY DEF IInv, Typed
  <1>2. /\ Len(entries) \in Nat /\ Len(groups) \in Nat /\ Len(all_block_indices) \in Nat
        /\ Len(disk) \in Nat
    BY Sizes
  <1>3. Offset(call) \in Nat /\ Offset(call) >= 1 /\ file_table_offset = Offset(call)
    BY Offsets
  <1>4. TablesEnd \in Nat /\ TablesEnd >= 1
    BY <1>2, <1>3 DEF TablesEnd
  <1> QED BY <1>1, <1>2, <1>3, <1>4 DEF BlocksEnd, block_index_offset, TablesEnd

\* What depends on the sizes only.
SameSizes ==
    /\ UNCHANGED <<call, groups>> /\ Len(entries') = Len(entries)

\* Where the parts of the image lie depends on the sizes.
LEMMA SizesKept ==
    ASSUME SameSizes
    PROVE  /\ TablesEnd' = TablesEnd
           /\ block_id_counter' = block_id_counter =>
                 /\ BlocksEnd' = BlocksEnd /\ final_header' = final_header
                 /\ block_index_offset' = block_index_offset
           /\ file_table_offset' = file_table_offset
  <1>1. TablesEnd' = TablesEnd
    BY DEF SameSizes, TablesEnd, Offset
  <1>2. \A x, y, z : Header(x, y, z)' = Header(x, y, z)
    BY DEF SameSizes, Header
  <1>3. placeholder_header' = placeholder_header
    BY <1>2 DEF placeholder_header
  <1>4. file_table_offset' = file_table_offset
    BY <1>3 DEF file_table_offset
  <1>5. ASSUME block_id_counter' = block_id_counter
        PROVE  /\ BlocksEnd' = BlocksEnd /\ final_header' = final_header
               /\ block_index_offset' = block_index_offset
    <2>1. block_index_offset' = block_index_offset
      BY <1>4, <1>5 DEF SameSizes, block_index_offset
    <2>2. final_header' = final_header
      BY <1>4, <1>5, <2>1 DEF SameSizes, final_header, Header
    <2> QED BY <1>1, <1>5, <2>1, <2>2 DEF BlocksEnd
  <1> QED BY <1>1, <1>4, <1>5

\* No step touches a block, the index or the footer.
LEMMA RecordsKept ==
    ASSUME IInv, DiskStep
    PROVE  /\ Len(disk') >= Len(disk) /\ Len(disk') \in Nat
           /\ \A i \in 1 .. Len(disk) :
                 disk[i].k \in {"bhdr", "payload", "btrl", "index", "footer"} => disk'[i] = disk[i]
  <1>1. DOMAIN disk = 1 .. Len(disk)
    BY Sizes
  <1>2. Len(disk') \in Nat
    BY ImageKept, SeqDomain
  <1> QED BY <1>1, <1>2, DiskStepKeeps

\* No step touches a finished block.
LEMMA BlocksStay ==
    ASSUME IInv, DiskStep, BlocksOn(call, disk, TablesEnd, all_block_indices)
    PROVE  BlocksOn(call, disk', TablesEnd, all_block_indices)
  <1> SUFFICES ASSUME NEW b \in 1 .. Len(all_block_indices)
               PROVE  BlockOk(call, disk', TablesEnd, all_block_indices[b], b)
    BY DEF BlocksOn
  <1> DEFINE p == TablesEnd + 3 * (b - 1)
             x == all_block_indices[b]
  <1>1. BlockOk(call, disk, TablesEnd, x, b)
    BY DEF BlocksOn
  <1>2. p \in Nat /\ Len(disk) \in Nat
    <2>1. Len(all_block_indices) \in Nat
      BY Sizes
    <2> QED BY <2>1, Ends
  <1>3. p + 3 <= Len(disk)
    BY <1>1 DEF BlockOk
  <1>4. p + 1 \in 1 .. Len(disk) /\ p + 2 \in 1 .. Len(disk) /\ p + 3 \in 1 .. Len(disk)
    <2> HIDE DEF p
    <2> QED BY <1>2, <1>3
  <1>5. disk[p + 1].k = "bhdr" /\ disk[p + 2].k = "payload" /\ disk[p + 3].k = "btrl"
    BY <1>1 DEF BlockOk, HeadOk, BodyOk
  <1>6. disk'[p + 1] = disk[p + 1] /\ disk'[p + 2] = disk[p + 2] /\ disk'[p + 3] = disk[p + 3]
    <2> HIDE DEF p
    <2> QED BY <1>4, <1>5, RecordsKept
  <1>7. p + 3 <= Len(disk')
    <2> HIDE DEF p
    <2> QED BY <1>2, <1>3, RecordsKept
  <1> QED BY <1>1, <1>6, <1>7 DEF BlockOk

\* What a step leaves of the index and the footer.
LEMMA TailStays ==
    ASSUME IInv, DiskStep, Len(disk') = Len(disk)
    PROVE  /\ IndexOn(disk, BlocksEnd, all_block_indices) =>
                 IndexOn(disk', BlocksEnd, all_block_indices)
           /\ Len(disk) > 0 /\ FooterOk(disk[Len(disk)]) => disk'[Len(disk)] = disk[Len(disk)]
  <1>1. ASSUME IndexOn(disk, BlocksEnd, all_block_indices)
        PROVE  IndexOn(disk', BlocksEnd, all_block_indices)
    <2> SUFFICES ASSUME NEW k \in 1 .. Len(all_block_indices), BlocksEnd + k <= Len(disk')
                 PROVE  disk'[BlocksEnd + k] = all_block_indices[k]
      BY DEF IndexOn
    <2>1. disk[BlocksEnd + k] = all_block_indices[k] /\ all_block_indices[k].k = "index"
      BY <1>1 DEF IndexOn, IInv, Tables
    <2>2. BlocksEnd + k \in 1 .. Len(disk)
      BY Ends
    <2> QED BY <2>1, <2>2, RecordsKept
  <1>2. ASSUME Len(disk) > 0, FooterOk(disk[Len(disk)]) PROVE disk'[Len(disk)] = disk[Len(disk)]
    <2>1. disk[Len(disk)].k = "footer"
      BY <1>2 DEF FooterOk
    <2>2. Len(disk) \in 1 .. Len(disk)
      BY <1>2, Ends
    <2> QED BY <2>1, <2>2, RecordsKept
  <1> QED BY <1>1, <1>2

\* The steps that write nothing: only the stage may change.
LEMMA ImageQuiet ==
    ASSUME IInv, Image, SameSizes, disk' = disk,
           UNCHANGED <<block_id_counter, all_block_indices>>,
           \/ pc' = pc /\ (pc \in {"payload", "trailer"} => UNCHANGED <<cur, results>>)
           \/ pc' = "error"
           \/ pc = "patch_files" /\ pc' = "done"
           \/ pc = "tables" /\ pc' = "compress" /\ Len(disk) = TablesEnd
           \/ pc = "compress" /\ pc' = "blocks" /\ block_id_counter = 0,
           pc' = "blocks" /\ cur'.g <= Len(groups) /\ pc = "blocks" => cur.g <= Len(groups),
           Len(groups) \in Nat /\ (cur.g \in Int \/ pc # "blocks")
    PROVE  Image'
  <1>1. /\ TablesEnd' = TablesEnd /\ BlocksEnd' = BlocksEnd /\ final_header' = final_header
        /\ block_index_offset' = block_index_offset /\ file_table_offset' = file_table_offset
    BY SizesKept
  <1>2. BlocksOn(call, disk, TablesEnd, all_block_indices)'
    BY <1>1 DEF Image, SameSizes, BlocksOn
  <1>3. Closed' => Closed
    BY DEF Closed
  <1>4. Heads'
    BY <1>1 DEF Image, Heads, Unsealed
  <1>5. /\ TablesEnd \in Nat /\ BlocksEnd \in Nat /\ block_id_counter = Len(all_block_indices)
        /\ BlocksEnd = TablesEnd + 3 * block_id_counter /\ block_id_counter \in Nat
        /\ Len(disk) \in Nat
    BY Ends
  <1>6. pc' = "compress" => Len(disk) = TablesEnd
    BY DEF Image, Stages
  <1>7. pc' = "blocks" /\ cur'.g <= Len(groups) => Len(disk) = BlocksEnd
    BY <1>5 DEF Image, Stages
  <1>8. pc' \in {"payload", "trailer"} => pc' = pc /\ cur' = cur /\ CurrentChunk' = CurrentChunk
    BY DEF CurrentChunk, Current
  <1>9. IndexOn(disk, BlocksEnd, all_block_indices) \/ Len(disk) # BlocksEnd
    BY <1>5 DEF IndexOn
  <1>10. Indexing' => Len(disk) >= BlocksEnd /\ IndexOn(disk, BlocksEnd, all_block_indices)
    <2> SUFFICES ASSUME Indexing'
                 PROVE  Len(disk) >= BlocksEnd /\ IndexOn(disk, BlocksEnd, all_block_indices)
      OBVIOUS
    <2>1. CASE Indexing
      BY <2>1 DEF Image, Stages
    <2>2. CASE ~Indexing
      <3>1. Len(disk) = BlocksEnd
        BY <1>5, <2>2 DEF Image, Stages, Indexing
      <3> QED BY <1>5, <1>9, <3>1
    <2> QED BY <2>1, <2>2
  <1>11. Closed' => /\ Len(disk) >= BlocksEnd /\ IndexOn(disk, BlocksEnd, all_block_indices)
                    /\ Len(disk) = BlocksEnd + block_id_counter + 1 /\ FooterOk(disk[Len(disk)])
    BY <1>3 DEF Image, Stages
  <1>12. FooterOk(disk[Len(disk)]) => FooterOk(disk[Len(disk)])'
    BY <1>1 DEF FooterOk, SameSizes
  <1>13. IndexOn(disk, BlocksEnd, all_block_indices)' <=> IndexOn(disk, BlocksEnd, all_block_indices)
    BY <1>1 DEF IndexOn
  <1>14. pc' \in {"payload", "trailer"} => Stages'
    <2> SUFFICES ASSUME pc' \in {"payload", "trailer"} PROVE Stages'
      OBVIOUS
    <2>1. pc' = pc /\ cur' = cur /\ CurrentChunk' = CurrentChunk
      BY <1>8
    <2>2. Closed' => Closed' /\ IndexOn(disk, BlocksEnd, all_block_indices)'
                     /\ Len(disk) = BlocksEnd + block_id_counter + 1 /\ FooterOk(disk[Len(disk)])'
      BY <1>11, <1>12, <1>13
    <2> QED BY <1>1, <1>5, <2>1, <2>2 DEF Image, Stages, Indexing, SameSizes
  <1>15. pc' \notin {"payload", "trailer"} => Stages'
    BY <1>1, <1>6, <1>7, <1>10, <1>11, <1>12, <1>13 DEF Stages, SameSizes
  <1> QED BY <1>2, <1>4, <1>14, <1>15 DEF Image

\* Before the tables are written there are no blocks.
LEMMA ImageEmpty ==
    ASSUME IInv', Len(disk') = 0, Len(all_block_indices') = 0, pc' \in {"scan", "header", "error"}
    PROVE  Image'
  <1>1. BlocksOn(call, disk, TablesEnd, all_block_indices)'
    BY DEF BlocksOn
  <1>2. ~Closed' /\ ~Indexing' /\ ~Unsealed'
    BY DEF Closed, Indexing, Unsealed
  <1> QED BY <1>1, <1>2 DEF Image, Stages, Heads

\* The sizes are kept by every step behind the tables.
LEMMA KeptSizes == ASSUME TablesKept PROVE SameSizes
  BY DEF TablesKept, SameSizes

\* The steps that write nothing.
LEMMA ImageQuietSteps ==
    ASSUME IInv, Plan, Image,
           \/ StartPhaseA \/ (\E g \in DOMAIN groups : CompressFile(g)) \/ JoinGroups
           \/ ShareBlocks \/ EndFile \/ EndGroup \/ Finish \/ Fail \/ UNCHANGED vars
    PROVE  Image'
  <1>1. Len(groups) \in Nat /\ (cur.g \in Int \/ pc # "blocks")
    <2>1. pc = "blocks" => cur.g \in 1 .. Len(groups) + 1
      BY DEF Plan, Cursor, Writing, CursorOk
    <2> QED BY <2>1, Sizes
  <1>2. CASE StartPhaseA
    <2>1. /\ pc = "tables" /\ pc' = "compress" /\ disk' = disk
          /\ Len(disk) = file_table_offset + Len(entries) + Len(groups)
          /\ UNCHANGED <<block_id_counter, all_block_indices>>
      BY <1>2 DEF StartPhaseA, counters
    <2>2. Len(disk) = TablesEnd
      BY <2>1, Offsets DEF TablesEnd
    <2>3. SameSizes
      BY <1>2, StartPhaseAOk, KeptSizes DEF StepOk
    <2> QED BY <1>1, <2>1, <2>2, <2>3, ImageQuiet
  <1>3. ASSUME NEW g \in DOMAIN groups, CompressFile(g) PROVE Image'
    <2>1. /\ pc = "compress" /\ pc' = pc /\ disk' = disk
          /\ UNCHANGED <<block_id_counter, all_block_indices>>
      BY <1>3 DEF CompressFile, counters
    <2>2. SameSizes
      BY <1>3, CompressFileOk, KeptSizes DEF StepOk
    <2> QED BY <1>1, <2>1, <2>2, ImageQuiet
  <1>4. CASE JoinGroups
    <2>1. /\ pc = "compress" /\ pc' = "blocks" /\ disk' = disk
          /\ UNCHANGED <<block_id_counter, all_block_indices>>
      BY <1>4 DEF JoinGroups, counters
    <2>2. SameSizes
      BY <1>4, JoinGroupsOk, KeptSizes DEF StepOk
    <2>3. block_id_counter = 0
      BY <2>1 DEF Plan, Cursor
    <2> QED BY <1>1, <2>1, <2>2, <2>3, ImageQuiet
  <1>5. CASE ShareBlocks \/ EndFile
    <2>1. /\ pc = "blocks" /\ pc' = pc /\ disk' = disk /\ NextFile /\ cur.g <= Len(groups)
          /\ UNCHANGED <<block_id_counter, all_block_indices>>
      BY <1>5 DEF ShareBlocks, EndFile, AtFile, counters
    <2>2. SameSizes
      BY <1>5, ShareBlocksOk, EndFileOk, KeptSizes DEF StepOk
    <2> QED BY <1>1, <2>1, <2>2, ImageQuiet
  <1>6. CASE EndGroup
    <2>1. /\ pc = "blocks" /\ pc' = pc /\ disk' = disk /\ cur.g <= Len(groups)
          /\ UNCHANGED <<block_id_counter, all_block_indices>>
      BY <1>6 DEF EndGroup, counters
    <2>2. SameSizes
      BY <1>6, EndGroupOk, KeptSizes DEF StepOk
    <2> QED BY <1>1, <2>1, <2>2, ImageQuiet
  <1>7. CASE Finish
    <2>1. /\ pc = "patch_files" /\ pc' = "done" /\ disk' = disk
          /\ UNCHANGED <<block_id_counter, all_block_indices>>
      BY <1>7 DEF Finish, counters
    <2>2. SameSizes
      BY <1>7, FinishOk, KeptSizes DEF StepOk
    <2> QED BY <1>1, <2>1, <2>2, ImageQuiet
  <1>8. CASE Fail
    <2>1. pc' = "error" /\ disk' = disk /\ UNCHANGED <<block_id_counter, all_block_indices>>
      BY <1>8 DEF Fail, counters
    <2>2. SameSizes
      BY <1>8, FailOk, KeptSizes DEF StepOk
    <2> QED BY <1>1, <2>1, <2>2, ImageQuiet
  <1>9. CASE UNCHANGED vars
    <2>1. /\ pc' = pc /\ disk' = disk /\ UNCHANGED <<block_id_counter, all_block_indices, cur, results>>
          /\ SameSizes
      BY <1>9 DEF vars, SameSizes
    <2> QED BY <1>1, <2>1, ImageQuiet
  <1> QED BY <1>2, <1>3, <1>4, <1>5, <1>6, <1>7, <1>8, <1>9

\* Scanning and grouping come before the first record.
LEMMA ImageScanSteps == ASSUME IInv, Plan, IInv', ScanFile \/ GroupFiles PROVE Image'
  <1>1. /\ pc = "scan" /\ pc' \in {"scan", "error", "header"} /\ disk' = disk
        /\ all_block_indices' = all_block_indices
    BY DEF ScanFile, GroupFiles, counters
  <1>2. Len(disk) = 0 /\ Len(all_block_indices) = 0
    BY <1>1, Ends DEF IInv, Phases, Plan, Cursor
  <1> QED BY <1>1, <1>2, ImageEmpty

\* One record more.
LEMMA OneMore ==
    ASSUME IInv, NEW rec, disk' = Append(disk, rec)
    PROVE  /\ Len(disk') = Len(disk) + 1 /\ disk'[Len(disk) + 1] = rec
           /\ \A i \in 1 .. Len(disk) : disk'[i] = disk[i]
           /\ Len(disk) > 0 => disk'[1] = disk[1]
  <1>1. IsSeq(disk) /\ Len(disk) \in Nat
    BY Sizes DEF IInv, Typed
  <1> QED BY <1>1, AppendSeq

\* The placeholder header and the tables.
LEMMA ImageTableSteps ==
    ASSUME IInv, Plan, Image,
           WritePlaceholder \/ WritePrefix \/ WriteFileEntry \/ WriteGroupEntry
    PROVE  Image'
  <1>1. /\ pc \in {"header", "tables"} /\ pc' = "tables" /\ \E rec : disk' = Append(disk, rec)
        /\ UNCHANGED <<block_id_counter, all_block_indices>>
    BY DEF WritePlaceholder, WritePrefix, WriteFileEntry, WriteGroupEntry, Append1, counters
  <1>2. Len(all_block_indices) = 0
    BY <1>1, Ends DEF Plan, Cursor
  <1>3. disk'[1].file_table_offset = 0
    <2>1. CASE pc = "tables"
      <3>1. Len(disk) > 0 /\ disk[1].file_table_offset = 0
        BY <2>1 DEF IInv, Phases, Image, Heads, Unsealed
      <3> QED BY <1>1, <3>1, OneMore
    <2>2. CASE pc = "header"
      <3> DEFINE h == placeholder_header
      <3>1. WritePlaceholder
        BY <2>2 DEF WritePrefix, WriteFileEntry, WriteGroupEntry
      <3>2. disk' = Append(disk, h) /\ Len(disk) = 0
        BY <2>2, <3>1 DEF WritePlaceholder, Append1, IInv, Phases
      <3>3. h.file_table_offset = 0
        BY DEF placeholder_header, Header
      <3> HIDE DEF h
      <3>4. disk'[0 + 1] = h
        BY <3>2, OneMore
      <3> QED BY <3>3, <3>4
    <2> QED BY <1>1, <2>1, <2>2
  <1>4. BlocksOn(call, disk, TablesEnd, all_block_indices)'
    BY <1>1, <1>2 DEF BlocksOn
  <1>5. ~Closed' /\ ~Indexing'
    BY <1>1, <1>3 DEF Closed, Indexing
  <1> QED BY <1>1, <1>3, <1>4, <1>5 DEF Image, Stages, Heads

\* What the steps of a block have in common.
LEMMA BlockStep ==
    ASSUME IInv, Plan, Image, StepOk, Writing, Writing', NEW rec, disk' = Append(disk, rec)
    PROVE  /\ SameSizes /\ TablesEnd' = TablesEnd
           /\ BlocksOn(call, disk', TablesEnd, all_block_indices)
           /\ disk'[1] = disk[1] /\ ~Closed' /\ Heads'
           /\ \A i \in 1 .. Len(disk) : disk'[i] = disk[i]
           /\ Len(disk') = Len(disk) + 1 /\ disk'[Len(disk) + 1] = rec
  <1>1. SameSizes /\ DiskStep
    BY KeptSizes DEF StepOk
  <1>2. TablesEnd' = TablesEnd
    BY <1>1, SizesKept
  <1>3. BlocksOn(call, disk', TablesEnd, all_block_indices)
    BY <1>1, BlocksStay DEF Image
  <1>4. Len(disk) > 0 /\ disk[1].file_table_offset = 0
    BY DEF Writing, IInv, Phases, Image, Heads, Unsealed
  <1>5. disk'[1] = disk[1]
    BY <1>4, OneMore
  <1>6. ~Closed' /\ Heads'
    BY <1>4, <1>5 DEF Writing, Closed, Heads, Unsealed
  <1> QED BY <1>1, <1>2, <1>3, <1>5, <1>6, OneMore

\* The header of a block is put behind the blocks.
LEMMA ImageWriteBlockHeader == ASSUME IInv, Plan, Image, WriteBlockHeader PROVE Image'
  <1> DEFINE rec == [k |-> "bhdr", block_id |-> block_id_counter,
                     solid_group_id |-> groups[cur.g].group_id,
                     uncompressed_size |-> Len(CurrentChunk)]
  <1>1. /\ pc = "blocks" /\ pc' = "payload" /\ disk' = Append(disk, rec) /\ cur.g <= Len(groups)
        /\ UNCHANGED <<groups, cur, results, block_id_counter, all_block_indices>>
    BY DEF WriteBlockHeader, AtFile, Append1, counters
  <1>2. HeadOk(rec, block_id_counter, groups[cur.g].group_id, CurrentChunk)
    BY DEF HeadOk
  <1> HIDE DEF rec
  <1>3. /\ SameSizes /\ TablesEnd' = TablesEnd
        /\ BlocksOn(call, disk', TablesEnd, all_block_indices)
        /\ ~Closed' /\ Heads' /\ Len(disk') = Len(disk) + 1 /\ disk'[Len(disk) + 1] = rec
    BY <1>1, WriteBlockHeaderOk, BlockStep DEF Writing
  <1>4. Len(disk) = BlocksEnd /\ BlocksEnd' = BlocksEnd
    BY <1>1, <1>3, SizesKept DEF Image, Stages
  <1>5. CurrentChunk' = CurrentChunk
    BY <1>1 DEF CurrentChunk, Current
  <1>6. Stages'
    BY <1>1, <1>2, <1>3, <1>4, <1>5 DEF Stages, Indexing
  <1>7. BlocksOn(call, disk, TablesEnd, all_block_indices)'
    BY <1>1, <1>3 DEF SameSizes
  <1> QED BY <1>3, <1>6, <1>7 DEF Image

\* Its payload follows.
LEMMA ImageWritePayload == ASSUME IInv, Plan, Image, WritePayload PROVE Image'
  <1> DEFINE rec == Payload(CurrentChunk, groups[cur.g].type)
  <1>1. /\ pc = "payload" /\ pc' = "trailer" /\ disk' = Append(disk, rec)
        /\ UNCHANGED <<call, groups, cur, results, block_id_counter, all_block_indices>>
    BY DEF WritePayload, Append1, counters
  <1>2. BodyOk(call, rec, block_id_counter, CurrentChunk)
    BY DEF BodyOk, Payload
  <1> HIDE DEF rec
  <1>3. /\ SameSizes /\ TablesEnd' = TablesEnd
        /\ BlocksOn(call, disk', TablesEnd, all_block_indices)
        /\ ~Closed' /\ Heads' /\ Len(disk') = Len(disk) + 1 /\ disk'[Len(disk) + 1] = rec
        /\ \A i \in 1 .. Len(disk) : disk'[i] = disk[i]
    BY <1>1, WritePayloadOk, BlockStep DEF Writing
  <1>4. /\ Len(disk) = BlocksEnd + 1 /\ BlocksEnd' = BlocksEnd
        /\ HeadOk(disk[BlocksEnd + 1], block_id_counter, groups[cur.g].group_id, CurrentChunk)
    BY <1>1, <1>3, SizesKept DEF Image, Stages
  <1>5. CurrentChunk' = CurrentChunk
    BY <1>1 DEF CurrentChunk, Current
  <1>6. /\ BlocksEnd + 1 + 1 = BlocksEnd + 2 /\ BlocksEnd + 1 \in 1 .. Len(disk)
    BY <1>4, Ends
  <1>7. disk'[BlocksEnd + 1] = disk[BlocksEnd + 1] /\ disk'[BlocksEnd + 2] = rec
        /\ Len(disk') = BlocksEnd + 2
    BY <1>3, <1>4, <1>6
  <1>8. Stages'
    BY <1>1, <1>2, <1>3, <1>4, <1>5, <1>7 DEF Stages, Indexing
  <1>9. BlocksOn(call, disk, TablesEnd, all_block_indices)'
    BY <1>1, <1>3 DEF SameSizes
  <1> QED BY <1>3, <1>8, <1>9 DEF Image

\* The chunk at the cursor.
LEMMA ChunkAtCursor ==
    ASSUME IInv, Plan, pc \in {"payload", "trailer"}
    PROVE  /\ cur.g \in 1 .. Len(groups) /\ cur.f \in 1 .. Len(results[cur.g])
           /\ cur.b \in 1 .. Len(Current.blocks) /\ Current.dup_of = 0
           /\ Current.file_idx = groups[cur.g].indices[cur.f]
           /\ Current.file_idx \in DOMAIN input
           /\ Current.blocks = Chunks(input[Current.file_idx].data)
           /\ CurrentChunk # NoData /\ Len(CurrentChunk) \in Nat
  <1>1. CursorOk /\ AtBlock
    BY DEF Plan, Cursor, Writing
  <1>2. cur.g \in 1 .. Len(groups)
    BY <1>1, Sizes DEF CursorOk, AtBlock
  <1>3. cur.f \in 1 .. Len(results[cur.g])
    <2>1. Len(results[cur.g]) \in Nat
      BY <1>2, SeqDomain DEF Plan, Results, RowOk
    <2> QED BY <1>1, <2>1 DEF CursorOk, AtBlock
  <1> DEFINE g == cur.g
             k == cur.f
  <1>4. g \in 1 .. Len(groups) /\ k \in 1 .. Len(results[g]) /\ Current = results[g][k]
    BY <1>2, <1>3 DEF Current
  <1>5. Current.dup_of = 0 /\ Blocks = Len(Current.blocks) /\ cur.b <= Blocks
    BY <1>1 DEF AtBlock, Blocks, BlocksAt, Current
  <1> HIDE DEF g, k
  <1>6. /\ Current.file_idx \in DOMAIN input /\ Current.file_idx = groups[g].indices[k]
        /\ Len(Current.blocks) \in Nat
        /\ Current.dup_of = 0 => Current.blocks = Chunks(input[Current.file_idx].data)
    BY <1>4, ResultAt
  <1>7. cur.b \in 1 .. Len(Current.blocks)
    BY <1>1, <1>5, <1>6 DEF CursorOk
  <1>8. CurrentChunk # NoData /\ Len(CurrentChunk) \in Nat
    <2> DEFINE i == Current.file_idx
               b == cur.b
    <2>1. call \in Calls /\ i \in DOMAIN call.files /\ b \in 1 .. Len(Chunks(call.files[i].data))
          /\ CurrentChunk = Chunks(call.files[i].data)[b]
      BY <1>5, <1>6, <1>7 DEF IInv, Typed, input, CurrentChunk
    <2> HIDE DEF i, b
    <2> QED BY <2>1, ChunkIsData
  <1> QED BY <1>2, <1>3, <1>5, <1>6, <1>7, <1>8 DEF g, k

\* The third record completes the block.
LEMMA ImageWriteTrailer == ASSUME IInv, Plan, Image, WriteTrailer PROVE Image'
  <1> DEFINE rec == [k |-> "btrl", content_blake3 |-> CurrentChunk]
             x == [k |-> "index", block_id |-> block_id_counter,
                   archive_offset |-> Len(disk) - 2,
                   uncompressed_size |-> Len(CurrentChunk),
                   solid_group_id |-> groups[cur.g].group_id]
             n == Len(all_block_indices)
  <1>1. /\ pc = "trailer" /\ pc' = "blocks" /\ disk' = Append(disk, rec)
        /\ all_block_indices' = Append(all_block_indices, x)
        /\ block_id_counter' = block_id_counter + 1
        /\ cur' = [cur EXCEPT !.b = @ + 1]
    BY DEF WriteTrailer, Append1, NextBlockId
  <1>2. rec.k = "btrl" /\ rec.content_blake3 = CurrentChunk
    OBVIOUS
  <1>3. /\ x.k = "index" /\ x.block_id = block_id_counter /\ x.archive_offset = Len(disk) - 2
        /\ x.uncompressed_size = Len(CurrentChunk) /\ x.solid_group_id = groups[cur.g].group_id
    OBVIOUS
  <1> HIDE DEF rec, x
  <1>4. /\ SameSizes /\ TablesEnd' = TablesEnd
        /\ BlocksOn(call, disk', TablesEnd, all_block_indices)
        /\ ~Closed' /\ Heads' /\ Len(disk') = Len(disk) + 1 /\ disk'[Len(disk) + 1] = rec
        /\ \A i \in 1 .. Len(disk) : disk'[i] = disk[i]
    BY <1>1, WriteTrailerOk, BlockStep DEF Writing
  <1>5. /\ Len(disk) = BlocksEnd + 2
        /\ HeadOk(disk[BlocksEnd + 1], block_id_counter, groups[cur.g].group_id, CurrentChunk)
        /\ BodyOk(call, disk[BlocksEnd + 2], block_id_counter, CurrentChunk)
    BY <1>1 DEF Image, Stages
  <1>6. /\ TablesEnd \in Nat /\ n \in Nat /\ block_id_counter = n /\ BlocksEnd = TablesEnd + 3 * n
    BY Ends
  <1>7. /\ BlocksEnd + 1 \in 1 .. Len(disk) /\ BlocksEnd + 2 \in 1 .. Len(disk)
        /\ Len(disk) + 1 = BlocksEnd + 3
    BY <1>5, <1>6
  <1>8. /\ disk'[BlocksEnd + 1] = disk[BlocksEnd + 1] /\ disk'[BlocksEnd + 2] = disk[BlocksEnd + 2]
        /\ disk'[BlocksEnd + 3] = rec /\ Len(disk') = BlocksEnd + 3
    BY <1>4, <1>7
  <1>9. /\ Len(all_block_indices') = n + 1 /\ all_block_indices'[n + 1] = x
        /\ \A b \in 1 .. n : all_block_indices'[b] = all_block_indices[b]
    BY <1>1, AppendSeq DEF IInv, Typed
  <1>10. BlockOk(call, disk', TablesEnd, x, n + 1)
    <2>1. TablesEnd + 3 * (n + 1 - 1) = BlocksEnd /\ n + 1 - 1 = n /\ Len(disk) - 2 = BlocksEnd
      BY <1>5, <1>6
    <2>2. disk'[BlocksEnd + 2].data = CurrentChunk /\ CurrentChunk # NoData
      BY <1>1, <1>5, <1>8, ChunkAtCursor DEF BodyOk
    <2>3. BlocksEnd + 3 <= Len(disk')
      BY <1>6, <1>8
    <2> QED BY <1>2, <1>3, <1>5, <1>6, <1>8, <2>1, <2>2, <2>3 DEF BlockOk, HeadOk, BodyOk
  <1>11. BlocksOn(call, disk', TablesEnd, all_block_indices')
    <2> SUFFICES ASSUME NEW b \in 1 .. Len(all_block_indices')
                 PROVE  BlockOk(call, disk', TablesEnd, all_block_indices'[b], b)
      BY DEF BlocksOn
    <2>1. CASE b = n + 1
      BY <1>9, <1>10, <2>1
    <2>2. CASE b # n + 1
      <3>1. b \in 1 .. n
        BY <1>6, <1>9, <2>2
      <3> QED BY <1>4, <1>9, <3>1 DEF BlocksOn
    <2> QED BY <2>1, <2>2
  <1>12. BlocksOn(call, disk, TablesEnd, all_block_indices)'
    BY <1>4, <1>11 DEF SameSizes
  <1>13. Stages'
    <2>1. cur'.g = cur.g
      <3> DEFINE w == cur.b + 1
      <3>1. ToBlock(cur, w, cur') /\ IsCursor(cur)
        BY <1>1 DEF Plan, ToBlock
      <3> HIDE DEF w
      <3> QED BY <3>1, CursorToBlock
    <2>2. ~Indexing'
      BY <1>1, <1>4, <2>1, ChunkAtCursor, Sizes DEF Indexing, SameSizes
    <2>3. BlocksEnd' = BlocksEnd + 3
      BY <1>1, <1>4, <1>6 DEF BlocksEnd
    <2> QED BY <1>1, <1>4, <1>8, <2>2, <2>3 DEF Stages
  <1> QED BY <1>4, <1>12, <1>13 DEF Image

\* The index follows the blocks.
LEMMA ImageWriteIndexEntry == ASSUME IInv, Plan, Image, WriteIndexEntry PROVE Image'
  <1> DEFINE i == Len(disk) - block_index_offset + 1
             rec == all_block_indices[i]
             n == Len(all_block_indices)
  <1>1. /\ pc = "blocks" /\ pc' = pc /\ disk' = Append(disk, rec) /\ i \in DOMAIN all_block_indices
        /\ cur.g > Len(groups)
        /\ UNCHANGED <<cur, groups, block_id_counter, all_block_indices>>
    BY DEF WriteIndexEntry, Append1, counters
  <1>2. /\ BlocksEnd \in Nat /\ n \in Nat /\ Len(disk) \in Nat /\ block_index_offset = BlocksEnd
    BY Ends
  <1>3. i \in 1 .. n
    BY <1>1, SeqDomain DEF IInv, Typed
  <1>4. i = Len(disk) - BlocksEnd + 1
    BY <1>2
  <1> HIDE DEF i, rec
  <1>5. /\ SameSizes /\ TablesEnd' = TablesEnd
        /\ BlocksOn(call, disk', TablesEnd, all_block_indices)
        /\ ~Closed' /\ Heads' /\ Len(disk') = Len(disk) + 1 /\ disk'[Len(disk) + 1] = rec
        /\ \A j \in 1 .. Len(disk) : disk'[j] = disk[j]
    BY <1>1, WriteIndexEntryOk, BlockStep DEF Writing
  <1>6. BlocksEnd' = BlocksEnd
    BY <1>1, <1>5, SizesKept
  <1>7. Len(disk) >= BlocksEnd /\ IndexOn(disk, BlocksEnd, all_block_indices)
    BY <1>1 DEF Image, Stages, Indexing
  <1>8. IndexOn(disk', BlocksEnd, all_block_indices)
    <2> SUFFICES ASSUME NEW k \in 1 .. n, BlocksEnd + k <= Len(disk')
                 PROVE  disk'[BlocksEnd + k] = all_block_indices[k]
      BY DEF IndexOn
    <2>1. CASE k = i
      <3>1. BlocksEnd + k = Len(disk) + 1
        BY <1>2, <1>4, <2>1
      <3> QED BY <1>5, <2>1, <3>1 DEF rec
    <2>2. CASE k # i
      <3>1. BlocksEnd + k \in 1 .. Len(disk)
        BY <1>2, <1>3, <1>4, <1>5, <2>2
      <3> QED BY <1>5, <1>7, <3>1 DEF IndexOn
    <2> QED BY <2>1, <2>2
  <1>9. Len(disk') >= BlocksEnd
    BY <1>2, <1>5, <1>7
  <1>10. cur'.g > Len(groups') /\ ~(cur'.g <= Len(groups'))
    <2>1. cur.g \in Int /\ Len(groups) \in Nat
      BY <1>1, Sizes DEF Plan, Cursor, Writing, CursorOk
    <2> QED BY <1>1, <2>1
  <1>11. Stages'
    BY <1>1, <1>5, <1>6, <1>8, <1>9, <1>10 DEF Stages
  <1>12. BlocksOn(call, disk, TablesEnd, all_block_indices)'
    BY <1>1, <1>5 DEF SameSizes
  <1> QED BY <1>5, <1>11, <1>12 DEF Image

\* The footer ends the image.
LEMMA ImageWriteFooter == ASSUME IInv, Plan, Image, WriteFooter PROVE Image'
  <1> DEFINE rec == [k |-> "footer", block_index_offset |-> block_index_offset,
                     file_table_offset |-> file_table_offset,
                     block_count |-> block_id_counter, file_count |-> Len(entries)]
             n == Len(all_block_indices)
  <1>1. /\ pc = "blocks" /\ pc' = "patch_header" /\ disk' = Append(disk, rec)
        /\ cur.g > Len(groups)
        /\ Len(disk) = block_index_offset + Len(all_block_indices)
        /\ UNCHANGED <<cur, groups, block_id_counter, all_block_indices>>
    BY DEF WriteFooter, Append1, counters
  <1>2. FooterOk(rec)
    BY DEF FooterOk
  <1> HIDE DEF rec
  <1>3. /\ BlocksEnd \in Nat /\ n \in Nat /\ Len(disk) \in Nat /\ block_index_offset = BlocksEnd
        /\ block_id_counter = n
    BY Ends
  <1>4. SameSizes /\ DiskStep
    BY WriteFooterOk, KeptSizes DEF StepOk
  <1>5. /\ BlocksEnd' = BlocksEnd /\ TablesEnd' = TablesEnd
        /\ block_index_offset' = block_index_offset /\ file_table_offset' = file_table_offset
    BY <1>1, <1>4, SizesKept
  <1>6. BlocksOn(call, disk', TablesEnd, all_block_indices)
    BY <1>4, BlocksStay DEF Image
  <1>7. /\ Len(disk') = Len(disk) + 1 /\ disk'[Len(disk) + 1] = rec
        /\ \A j \in 1 .. Len(disk) : disk'[j] = disk[j]
    BY <1>1, OneMore
  <1>8. Len(disk') = BlocksEnd + n + 1 /\ disk'[Len(disk')] = rec
    BY <1>1, <1>3, <1>7
  <1>9. IndexOn(disk', BlocksEnd, all_block_indices)
    <2> SUFFICES ASSUME NEW k \in 1 .. n PROVE disk'[BlocksEnd + k] = all_block_indices[k]
      BY DEF IndexOn
    <2>1. IndexOn(disk, BlocksEnd, all_block_indices)
      BY <1>1 DEF Image, Stages, Indexing
    <2>2. BlocksEnd + k \in 1 .. Len(disk)
      BY <1>1, <1>3
    <2> QED BY <1>7, <2>1, <2>2 DEF IndexOn
  <1>10. Len(disk') >= BlocksEnd
    BY <1>3, <1>8
  <1>11. Stages'
    <2>1. FooterOk(disk[Len(disk)])'
      BY <1>1, <1>2, <1>4, <1>5, <1>8 DEF FooterOk, SameSizes
    <2> QED BY <1>1, <1>3, <1>5, <1>8, <1>9, <1>10, <2>1 DEF Stages, Indexing
  <1>12. Heads'
    <2>1. Len(disk) > 0 /\ disk[1].file_table_offset = 0
      BY <1>1 DEF IInv, Phases, Image, Heads, Unsealed
    <2>2. disk'[1].file_table_offset = 0
      BY <1>1, <2>1, OneMore
    <2> QED BY <1>1, <2>2 DEF Heads, Unsealed
  <1>13. BlocksOn(call, disk, TablesEnd, all_block_indices)'
    BY <1>1, <1>4, <1>5, <1>6 DEF SameSizes
  <1> QED BY <1>11, <1>12, <1>13 DEF Image

\* A record of the tables or the header is replaced.
LEMMA ImagePatched ==
    ASSUME IInv, Image, StepOk, pc \in {"patch_header", "patch_files"},
           pc' \in {"patch_header", "patch_files"}, Len(disk') = Len(disk),
           UNCHANGED <<block_id_counter, all_block_indices>>, Heads'
    PROVE  Image'
  <1>1. SameSizes /\ DiskStep
    BY KeptSizes DEF StepOk
  <1>2. /\ BlocksEnd' = BlocksEnd /\ TablesEnd' = TablesEnd
        /\ block_index_offset' = block_index_offset /\ file_table_offset' = file_table_offset
    BY <1>1, SizesKept
  <1>3. BlocksOn(call, disk', TablesEnd, all_block_indices)
    BY <1>1, BlocksStay DEF Image
  <1>4. /\ Len(disk) >= BlocksEnd /\ IndexOn(disk, BlocksEnd, all_block_indices)
        /\ Len(disk) = BlocksEnd + block_id_counter + 1 /\ FooterOk(disk[Len(disk)])
    BY DEF Image, Stages, Closed
  <1>5. Len(disk) > 0
    BY <1>4, Ends
  <1>6. IndexOn(disk', BlocksEnd, all_block_indices) /\ disk'[Len(disk)] = disk[Len(disk)]
    BY <1>1, <1>4, <1>5, TailStays
  <1>7. FooterOk(disk[Len(disk)])'
    BY <1>1, <1>2, <1>4, <1>6 DEF FooterOk, SameSizes
  <1>8. Stages'
    BY <1>1, <1>2, <1>4, <1>6, <1>7 DEF Stages, Indexing, SameSizes
  <1>9. BlocksOn(call, disk, TablesEnd, all_block_indices)'
    BY <1>1, <1>2, <1>3 DEF SameSizes
  <1> QED BY <1>8, <1>9 DEF Image

\* The header is torn, then final.
LEMMA ImageHeaderSteps == ASSUME IInv, Image, TearHeader \/ PatchHeader PROVE Image'
  <1>1. /\ pc = "patch_header" /\ pc' \in {"patch_header", "patch_files"}
        /\ UNCHANGED <<block_id_counter, all_block_indices>>
    BY DEF TearHeader, PatchHeader, counters
  <1>2. StepOk
    BY TearHeaderOk, PatchHeaderOk
  <1>3. final_header' = final_header
    BY <1>1, <1>2, KeptSizes, SizesKept DEF StepOk
  <1>4. IsSeq(disk) /\ DOMAIN disk = 1 .. Len(disk) /\ 1 \in 1 .. Len(disk)
    BY <1>1, TablesOnDisk, Sizes DEF IInv, Typed
  <1>5. CASE TearHeader
    <2> DEFINE h == [final_header EXCEPT !.intact = FALSE]
    <2>1. pc' = "patch_header" /\ disk' = [disk EXCEPT ![1] = h]
      BY <1>5 DEF TearHeader, Overwrite
    <2>2. ~h.intact
      BY DEF final_header, Header
    <2> HIDE DEF h
    <2>3. Len(disk') = Len(disk)
      BY <1>4, <2>1, ReplaceSeq
    <2>4. disk'[1] = h
      BY <1>4, <2>1
    <2>5. Heads'
      BY <2>1, <2>2, <2>4 DEF Heads, Unsealed
    <2> QED BY <1>1, <1>2, <2>3, <2>5, ImagePatched
  <1>6. CASE PatchHeader
    <2>1. pc' = "patch_files" /\ disk' = [disk EXCEPT ![1] = final_header]
      BY <1>6 DEF PatchHeader, Overwrite
    <2>2. Len(disk') = Len(disk)
      BY <1>4, <2>1, ReplaceSeq
    <2>3. disk'[1] = final_header
      BY <1>4, <2>1
    <2>4. Heads'
      BY <1>3, <2>1, <2>3 DEF Heads, Unsealed
    <2> QED BY <1>1, <1>2, <2>2, <2>4, ImagePatched
  <1> QED BY <1>5, <1>6

\* The entries of the tables follow.
LEMMA ImageEntrySteps ==
    ASSUME IInv, Image, PatchChunkStart \/ PatchChunkCount \/ PatchGroupEntry
    PROVE  Image'
  <1>1. /\ pc = "patch_files" /\ pc' = pc
        /\ UNCHANGED <<block_id_counter, all_block_indices>>
    BY DEF PatchChunkStart, PatchChunkCount, PatchGroupEntry, counters
  <1>2. StepOk
    BY PatchChunkStartOk, PatchChunkCountOk, PatchGroupEntryOk
  <1>3. final_header' = final_header
    BY <1>1, <1>2, KeptSizes, SizesKept DEF StepOk
  <1>4. \E pos \in Nat : \E rec : pos > 1 /\ disk' = [disk EXCEPT ![pos] = rec]
    <2>1. CASE PatchChunkStart \/ PatchChunkCount
      <3>1. cur.f \in 1 .. Len(entries)
        BY <2>1, Sizes DEF PatchChunkStart, PatchChunkCount
      <3>2. FileEntryOffset(cur.f) + 1 \in Nat /\ FileEntryOffset(cur.f) + 1 > 1
        BY <3>1, Offsets DEF FileEntryOffset
      <3>3. \E rec : disk' = [disk EXCEPT ![FileEntryOffset(cur.f) + 1] = rec]
        BY <2>1 DEF PatchChunkStart, PatchChunkCount, Overwrite
      <3> QED BY <3>2, <3>3
    <2>2. CASE PatchGroupEntry
      <3> DEFINE o == file_table_offset + Len(entries) + cur.g - 1
      <3>1. cur.g \in 1 .. Len(groups)
        BY <2>2, Sizes DEF PatchGroupEntry
      <3>2. o + 1 \in Nat /\ o + 1 > 1
        BY <3>1, Offsets, Sizes
      <3>3. disk' = [disk EXCEPT ![o + 1] = solid_group_entries[cur.g]]
        BY <2>2 DEF PatchGroupEntry, Overwrite
      <3> HIDE DEF o
      <3> QED BY <3>2, <3>3
    <2> QED BY <2>1, <2>2
  <1>5. Len(disk') = Len(disk) /\ disk'[1] = disk[1]
    <2>1. PICK pos \in Nat : \E rec : pos > 1 /\ disk' = [disk EXCEPT ![pos] = rec]
      BY <1>4
    <2>2. PICK rec : pos > 1 /\ disk' = [disk EXCEPT ![pos] = rec]
      BY <2>1
    <2>3. IsSeq(disk)
      BY DEF IInv, Typed
    <2> QED BY <2>2, <2>3, ReplaceSeq
  <1>6. Heads'
    BY <1>1, <1>3, <1>5 DEF Image, Heads, Unsealed
  <1> QED BY <1>1, <1>2, <1>5, <1>6, ImagePatched

\* An empty image is one.
LEMMA ImageInit == ASSUME Init PROVE Image
  <1>1. Len(<< >>) = 0
    OBVIOUS
  <1>2. Len(disk) = 0 /\ Len(all_block_indices) = 0 /\ pc = "scan"
    BY <1>1 DEF Init
  <1>3. BlocksOn(call, disk, TablesEnd, all_block_indices)
    BY <1>2 DEF BlocksOn
  <1>4. ~Closed /\ ~Indexing /\ ~Unsealed
    BY <1>2 DEF Closed, Indexing, Unsealed
  <1> QED BY <1>2, <1>3, <1>4 DEF Image, Stages, Heads

\* Every step keeps the image.
LEMMA ImageNext == ASSUME IInv, Plan, Image, IInv', [Next]_vars PROVE Image'
  <1>1. CASE ScanFile \/ GroupFiles
    BY <1>1, ImageScanSteps
  <1>2. CASE \/ StartPhaseA \/ (\E g \in DOMAIN groups : CompressFile(g)) \/ JoinGroups
             \/ ShareBlocks \/ EndFile \/ EndGroup \/ Finish \/ Fail \/ UNCHANGED vars
    BY <1>2, ImageQuietSteps
  <1>3. CASE WritePlaceholder \/ WritePrefix \/ WriteFileEntry \/ WriteGroupEntry
    BY <1>3, ImageTableSteps
  <1>4. CASE WriteBlockHeader \/ WritePayload \/ WriteTrailer
    BY <1>4, ImageWriteBlockHeader, ImageWritePayload, ImageWriteTrailer
  <1>5. CASE WriteIndexEntry \/ WriteFooter
    BY <1>5, ImageWriteIndexEntry, ImageWriteFooter
  <1>6. CASE TearHeader \/ PatchHeader
    BY <1>6, ImageHeaderSteps
  <1>7. CASE PatchChunkStart \/ PatchChunkCount \/ PatchGroupEntry
    BY <1>7, ImageEntrySteps
  <1> QED BY <1>1, <1>2, <1>3, <1>4, <1>5, <1>6, <1>7 DEF Next, Proceed, Write

------------------------------------------------------------------------------
(* How much data is written.                                               *)

AddLength(p, sum, data) == sum + Len(data)
AnyLength(p, q, n, sum) == TRUE
Totalling == INSTANCE FoldInduction WITH Step <- AddLength, Good <- AnyLength

\* The total of one block more.
LEMMA TotalOfMore ==
    ASSUME NEW q, NEW r, NEW n \in Nat, DOMAIN q = 1 .. n, DOMAIN r = 1 .. n + 1,
           \A i \in 1 .. n : r[i] = q[i]
    PROVE  Total(r) = Total(q) + Len(r[n + 1])
  <1>1. Totalling!Loop(0, 0, r) = AddLength(0, Totalling!Loop(0, 0, q), r[n + 1])
    BY Totalling!LoopAppend
  <1>2. \A s : Total(s) = Totalling!Loop(0, 0, s)
    BY DEF Total, AddLength, Totalling!Loop, FoldLeft, MapThenFoldSet, Max,
       Totalling!FoldLeft, Totalling!MapThenFoldSet, Totalling!Max
  <1> QED BY <1>1, <1>2 DEF AddLength

\* No blocks are of no size.
LEMMA TotalOfNone == ASSUME NEW q, DOMAIN q = 1 .. 0 PROVE Total(q) = 0
  <1>1. Totalling!Loop(0, 0, q) = 0
    BY Totalling!LoopEmpty
  <1>2. Total(q) = Totalling!Loop(0, 0, q)
    BY DEF Total, AddLength, Totalling!Loop, FoldLeft, MapThenFoldSet, Max,
       Totalling!FoldLeft, Totalling!MapThenFoldSet, Totalling!Max
  <1> QED BY <1>1, <1>2

AddData(p, sum, f) == sum + Len(f.data)
Scanning == INSTANCE FoldInduction WITH Step <- AddData, Good <- AnyLength

\* The first elements of a sequence.
LEMMA Beginning ==
    ASSUME NEW S, NEW s \in Seq(S), NEW n \in 0 .. Len(s)
    PROVE  /\ SubSeq(s, 1, n) \in Seq(S) /\ Len(SubSeq(s, 1, n)) = n
           /\ DOMAIN SubSeq(s, 1, n) = 1 .. n
           /\ \A p \in 1 .. n : SubSeq(s, 1, n)[p] = s[p]
  <1>1. Len(s) \in Nat /\ \A p \in 1 .. Len(s) : s[p] \in S
    BY LenProperties, ElementOfSeq
  <1>2. n \in Nat /\ n \in Int /\ 1 \in Int /\ \A p \in 1 .. n : s[p] \in S
    BY <1>1
  <1>3. SubSeq(s, 1, n) \in Seq(S)
    BY <1>2, SubSeqProperties
  <1>4. Len(SubSeq(s, 1, n)) = IF 1 <= n THEN n - 1 + 1 ELSE 0
    BY <1>2, SubSeqProperties
  <1>5. Len(SubSeq(s, 1, n)) = n
    BY <1>2, <1>4
  <1>6. \A p \in 1 .. n - 1 + 1 : SubSeq(s, 1, n)[p] = s[1 + p - 1]
    BY <1>2, SubSeqProperties
  <1>7. ASSUME NEW p \in 1 .. n PROVE SubSeq(s, 1, n)[p] = s[p]
    <2>1. 1 + p - 1 = p /\ n - 1 + 1 = n
      BY <1>2
    <2> QED BY <1>6, <2>1
  <1> QED BY <1>3, <1>5, <1>7, LenProperties

\* The size of one file more.
LEMMA ScannedMore ==
    ASSUME IInv, NEW n \in Nat, n + 1 <= Len(input)
    PROVE  ScannedSize(n + 1) = ScannedSize(n) + Len(input[n + 1].data)
  <1> DEFINE q == SubSeq(input, 1, n)
             r == SubSeq(input, 1, n + 1)
  <1>1. input \in Seq(Range(input)) /\ Len(input) \in Nat
    BY CompressorAssumption, Sizes DEF IInv, Typed, input
  <1>2. n \in 0 .. Len(input) /\ n + 1 \in 0 .. Len(input) /\ 0 \in 0 .. Len(input)
    BY <1>1
  <1>3. DOMAIN q = 1 .. n /\ \A p \in 1 .. n : q[p] = input[p]
    BY <1>1, <1>2, Beginning
  <1>4. DOMAIN r = 1 .. n + 1 /\ \A p \in 1 .. n + 1 : r[p] = input[p]
    BY <1>1, <1>2, Beginning
  <1> HIDE DEF q, r
  <1>5. \A p \in 1 .. n : r[p] = q[p]
    BY <1>3, <1>4
  <1>6. Scanning!Loop(0, 0, r) = AddData(0, Scanning!Loop(0, 0, q), r[n + 1])
    BY <1>3, <1>4, <1>5, Scanning!LoopAppend
  <1>7. ScannedSize(n) = Scanning!Loop(0, 0, q) /\ ScannedSize(n + 1) = Scanning!Loop(0, 0, r)
    BY DEF ScannedSize, AddData, Scanning!Loop, FoldLeft, MapThenFoldSet, Max,
       Scanning!FoldLeft, Scanning!MapThenFoldSet, Scanning!Max, q, r
  <1>8. r[n + 1] = input[n + 1]
    BY <1>4
  <1> QED BY <1>6, <1>7, <1>8 DEF AddData

\* No files are of no size.
LEMMA ScannedNone == ASSUME IInv PROVE ScannedSize(0) = 0
  <1> DEFINE q == SubSeq(input, 1, 0)
  <1>1. input \in Seq(Range(input)) /\ 0 \in 0 .. Len(input)
    BY CompressorAssumption, Sizes DEF IInv, Typed, input
  <1>2. DOMAIN q = 1 .. 0
    BY <1>1, Beginning
  <1> HIDE DEF q
  <1>3. Scanning!Loop(0, 0, q) = 0
    BY <1>2, Scanning!LoopEmpty
  <1>4. ScannedSize(0) = Scanning!Loop(0, 0, q)
    BY DEF ScannedSize, AddData, Scanning!Loop, FoldLeft, MapThenFoldSet, Max,
       Scanning!FoldLeft, Scanning!MapThenFoldSet, Scanning!Max, q
  <1> QED BY <1>3, <1>4

\* The bytes of the first n files of a call.
BytesOf(c, n) == UNION {{i} \X (1 .. Len(c.files[i].data)) : i \in 1 .. n}

\* A range of the bytes of one file.
LEMMA OneFile ==
    ASSUME NEW i, NEW lo \in Nat, NEW hi \in Nat, lo <= hi
    PROVE  IsFiniteSet({i} \X (lo + 1 .. hi)) /\ Cardinality({i} \X (lo + 1 .. hi)) = hi - lo
  <1>1. IsFiniteSet({i}) /\ Cardinality({i}) = 1
    BY FS_Singleton
  <1>2. IsFiniteSet(lo + 1 .. hi) /\ Cardinality(lo + 1 .. hi) = hi - lo
    <2>1. lo + 1 \in Int /\ hi \in Int
      OBVIOUS
    <2>2. /\ IsFiniteSet(lo + 1 .. hi)
          /\ Cardinality(lo + 1 .. hi) = IF lo + 1 > hi THEN 0 ELSE hi - (lo + 1) + 1
      BY <2>1, FS_Interval
    <2> QED BY <2>2
  <1> DEFINE S == {i}
             T == lo + 1 .. hi
  <1>3. IsFiniteSet(S) /\ IsFiniteSet(T) /\ Cardinality(S) = 1 /\ Cardinality(T) = hi - lo
    BY <1>1, <1>2
  <1> HIDE DEF S, T
  <1>4. IsFiniteSet(S \X T) /\ Cardinality(S \X T) = Cardinality(S) * Cardinality(T)
    BY <1>3, FS_Product
  <1>5. Cardinality(S \X T) = hi - lo
    BY <1>3, <1>4
  <1> QED BY <1>4, <1>5 DEF S, T

\* One file more has its bytes more.
LEMMA BytesMore ==
    ASSUME NEW c, NEW n \in Nat, IsFiniteSet(BytesOf(c, n)), Len(c.files[n + 1].data) \in Nat
    PROVE  /\ IsFiniteSet(BytesOf(c, n + 1))
           /\ Cardinality(BytesOf(c, n + 1)) = Cardinality(BytesOf(c, n)) + Len(c.files[n + 1].data)
  <1> DEFINE L == Len(c.files[n + 1].data)
             S == BytesOf(c, n)
             T == {n + 1} \X (1 .. L)
  <1>1. BytesOf(c, n + 1) = S \cup T
    <2>1. 1 .. n + 1 = (1 .. n) \cup {n + 1}
      OBVIOUS
    <2> QED BY <2>1 DEF BytesOf
  <1>2. IsFiniteSet(T) /\ Cardinality(T) = L
    <2> DEFINE m == n + 1
    <2>1. 0 \in Nat /\ L \in Nat /\ 0 <= L /\ 0 + 1 = 1 /\ L - 0 = L
      OBVIOUS
    <2> HIDE DEF m, L
    <2>2. IsFiniteSet({m} \X (0 + 1 .. L)) /\ Cardinality({m} \X (0 + 1 .. L)) = L - 0
      BY <2>1, OneFile
    <2>3. IsFiniteSet({m} \X (1 .. L)) /\ Cardinality({m} \X (1 .. L)) = L
      BY <2>1, <2>2
    <2> QED BY <2>3 DEF m
  <1>3. S \cap T = {}
    <2>1. \A x \in S : x[1] \in 1 .. n
      BY DEF BytesOf
    <2>2. \A x \in T : x[1] = n + 1
      OBVIOUS
    <2> QED BY <2>1, <2>2
  <1> HIDE DEF T, S, L
  <1>4. IsFiniteSet(S)
    BY DEF S
  <1>5. /\ IsFiniteSet(S \cup T)
        /\ Cardinality(S \cup T) = Cardinality(S) + Cardinality(T) - Cardinality(S \cap T)
    BY <1>2, <1>4, FS_Union
  <1>6. Cardinality(S \cap T) = 0 /\ Cardinality(S) \in Nat /\ L \in Nat
    BY <1>3, <1>4, FS_EmptySet, FS_CardinalityType DEF L
  <1>7. Cardinality(S \cup T) = Cardinality(S) + L
    BY <1>2, <1>5, <1>6
  <1> QED BY <1>1, <1>5, <1>7 DEF S, L

\* The data of the blocks on disk.
Written == [b \in 1 .. block_id_counter |-> disk[TablesEnd + 3 * (b - 1) + 2].data]

\* The bytes x of the call that the cursor c is past: those of a file in an
\* earlier group, earlier in the group, or in an earlier chunk of the file.
PastIn(table, c, x) ==
    \E g \in 1 .. Len(table) : \E k \in 1 .. Len(table[g].indices) :
       /\ table[g].indices[k] = x[1]
       /\ \/ g < c.g
          \/ g = c.g /\ (k < c.f \/ (k = c.f /\ x[2] <= (c.b - 1) * ChunkSize))

Passed == {x \in BytesOf(call, Len(entries)) : PastIn(groups, cur, x)}

\* No more is written than the files passed hold, and that is within the limit.
Amounts ==
    /\ IsFiniteSet(BytesOf(call, Len(entries)))
    /\ Cardinality(BytesOf(call, Len(entries))) <= MaxTotalInput
    /\ pc = "scan" => Cardinality(BytesOf(call, Len(entries))) = ScannedSize(Len(entries))
    /\ Total(Written) \in Nat /\ Total(Written) <= MaxTotalInput
    /\ Writing => Total(Written) <= Cardinality(Passed)

\* The steps that complete no block write nothing to it.
LEMMA WrittenKept ==
    ASSUME IInv, Image, DiskStep, SameSizes, block_id_counter' = block_id_counter
    PROVE  Written' = Written
  <1>1. TablesEnd' = TablesEnd
    BY SizesKept
  <1>2. ASSUME NEW b \in 1 .. block_id_counter
        PROVE  disk'[TablesEnd + 3 * (b - 1) + 2].data = disk[TablesEnd + 3 * (b - 1) + 2].data
    <2> DEFINE p == TablesEnd + 3 * (b - 1)
    <2>1. BlockOk(call, disk, TablesEnd, all_block_indices[b], b)
      BY Ends DEF Image, BlocksOn
    <2>2. p + 3 <= Len(disk) /\ disk[p + 2].k = "payload"
      BY <2>1 DEF BlockOk, BodyOk
    <2>3. p \in Nat /\ Len(disk) \in Nat
      BY Ends
    <2> HIDE DEF p
    <2>4. p + 2 \in 1 .. Len(disk)
      BY <2>2, <2>3
    <2>5. disk'[p + 2] = disk[p + 2]
      BY <2>2, <2>4, RecordsKept
    <2> QED BY <2>5 DEF p
  <1> QED BY <1>1, <1>2 DEF Written

\* Where the cursor goes to, the bytes it was past stay behind.
Onward ==
    \/ cur' = cur
    \/ pc = "blocks" /\ cur'.g = cur.g /\ cur'.f = cur.f + 1
    \/ pc = "blocks" /\ cur'.g = cur.g + 1

\* The bytes passed stay passed when the cursor goes on.
LEMMA PassedGrows ==
    ASSUME IInv, Plan, Amounts, SameSizes, Onward
    PROVE  /\ Passed \subseteq Passed' /\ IsFiniteSet(Passed')
           /\ IsFiniteSet(Passed) /\ Cardinality(Passed) <= Cardinality(Passed')
           /\ Cardinality(Passed) \in Nat /\ Cardinality(Passed') \in Nat
  <1>1. pc = "blocks" => cur.g \in Nat /\ cur.f \in Nat
    BY Sizes DEF Plan, Cursor, Writing, CursorOk
  <1>2. ASSUME NEW x, PastIn(groups, cur, x) PROVE PastIn(groups, cur', x)
    <2>1. PICK g \in 1 .. Len(groups) : \E k \in 1 .. Len(groups[g].indices) :
             /\ groups[g].indices[k] = x[1]
             /\ \/ g < cur.g
                \/ g = cur.g /\ (k < cur.f \/ (k = cur.f /\ x[2] <= (cur.b - 1) * ChunkSize))
      BY <1>2 DEF PastIn
    <2>2. PICK k \in 1 .. Len(groups[g].indices) :
             /\ groups[g].indices[k] = x[1]
             /\ \/ g < cur.g
                \/ g = cur.g /\ (k < cur.f \/ (k = cur.f /\ x[2] <= (cur.b - 1) * ChunkSize))
      BY <2>1
    <2>3. CASE cur' = cur
      BY <1>2, <2>3
    <2>4. CASE pc = "blocks" /\ cur'.g = cur.g /\ cur'.f = cur.f + 1
      <3>1. g < cur'.g \/ (g = cur'.g /\ k < cur'.f)
        BY <1>1, <2>2, <2>4
      <3> QED BY <2>2, <3>1 DEF PastIn
    <2>5. CASE pc = "blocks" /\ cur'.g = cur.g + 1
      <3>1. g < cur'.g
        BY <1>1, <2>2, <2>5
      <3> QED BY <2>2, <3>1 DEF PastIn
    <2> QED BY <2>3, <2>4, <2>5 DEF Onward
  <1>3. Passed \subseteq Passed'
    BY <1>2 DEF SameSizes, Passed, BytesOf
  <1>4. BytesOf(call, Len(entries))' = BytesOf(call, Len(entries))
    BY DEF SameSizes, BytesOf
  <1>5. IsFiniteSet(Passed')
    <2>1. Passed' \in SUBSET BytesOf(call, Len(entries))
      BY <1>4 DEF Passed
    <2>2. IsFiniteSet(BytesOf(call, Len(entries)))
      BY DEF Amounts
    <2> QED BY <2>1, <2>2, FS_Subset
  <1>6. IsFiniteSet(Passed) /\ Cardinality(Passed) <= Cardinality(Passed')
    BY <1>3, <1>5, FS_Subset
  <1> QED BY <1>3, <1>5, <1>6, FS_CardinalityType

\* The steps that complete no block.
LEMMA SumKept ==
    ASSUME IInv, Plan, Image, Amounts, StepOk, block_id_counter' = block_id_counter,
           pc' # "scan", Writing' => Writing /\ Onward
    PROVE  Amounts'
  <1>1. SameSizes /\ DiskStep
    BY KeptSizes DEF StepOk
  <1>2. Written' = Written
    BY <1>1, WrittenKept
  <1>3. BytesOf(call, Len(entries))' = BytesOf(call, Len(entries))
    BY <1>1 DEF SameSizes, BytesOf
  <1>4. Writing' => Total(Written') <= Cardinality(Passed')
    <2> SUFFICES ASSUME Writing' PROVE Total(Written') <= Cardinality(Passed')
      OBVIOUS
    <2>1. Total(Written) <= Cardinality(Passed) /\ Total(Written) \in Nat
      BY DEF Amounts
    <2>2. Cardinality(Passed) <= Cardinality(Passed') /\ Cardinality(Passed) \in Nat
          /\ Cardinality(Passed') \in Nat
      BY <1>1, PassedGrows
    <2> QED BY <1>2, <2>1, <2>2
  <1> QED BY <1>2, <1>3, <1>4 DEF Amounts

\* The plan names a file once.
LEMMA PlannedOnce ==
    ASSUME NEW c, NEW table, PlanOk(c, table),
           NEW g \in 1 .. Len(table), NEW k \in 1 .. Len(table[g].indices),
           NEW h \in 1 .. Len(table), NEW j \in 1 .. Len(table[h].indices),
           table[g].indices[k] = table[h].indices[j]
    PROVE  g = h /\ k = j
  BY Zenon DEF PlanOk

\* A finished block is a part of its file that was not passed before.
LEMMA AmountsWriteTrailer ==
    ASSUME IInv, Plan, Image, Amounts, WriteTrailer PROVE Amounts'
  <1> DEFINE n == block_id_counter
             rec == [k |-> "btrl", content_blake3 |-> CurrentChunk]
             i == Current.file_idx
             L == Len(input[i].data)
             lo == EndOf(cur.b - 1, L)
             hi == EndOf(cur.b, L)
             New == {i} \X (lo + 1 .. hi)
  <1>1. /\ pc = "trailer" /\ pc' = "blocks" /\ disk' = Append(disk, rec)
        /\ block_id_counter' = n + 1 /\ cur' = [cur EXCEPT !.b = @ + 1]
    BY DEF WriteTrailer, Append1, NextBlockId
  <1>2. SameSizes /\ TablesEnd' = TablesEnd /\ \A j \in 1 .. Len(disk) : disk'[j] = disk[j]
    <2> HIDE DEF rec
    <2> QED BY <1>1, WriteTrailerOk, BlockStep DEF Writing
  <1>3. /\ TablesEnd \in Nat /\ n \in Nat /\ Len(disk) = TablesEnd + 3 * n + 2
        /\ disk[TablesEnd + 3 * n + 2].data = CurrentChunk
    BY <1>1, Ends DEF Image, Stages, BodyOk
  <1>4. /\ cur.g \in 1 .. Len(groups) /\ cur.f \in 1 .. Len(results[cur.g])
        /\ cur.b \in 1 .. Len(Current.blocks)
        /\ i = groups[cur.g].indices[cur.f] /\ i \in DOMAIN input
        /\ Current.blocks = Chunks(input[i].data)
        /\ Len(CurrentChunk) \in Nat
    BY <1>1, ChunkAtCursor
  <1>5. cur'.g = cur.g /\ cur'.f = cur.f /\ cur'.b = cur.b + 1
    <2> DEFINE w == cur.b + 1
    <2>1. ToBlock(cur, w, cur') /\ IsCursor(cur)
      BY <1>1 DEF Plan, ToBlock
    <2> HIDE DEF w
    <2>2. cur'.g = cur.g /\ cur'.f = cur.f /\ cur'.b = w
      BY <2>1, CursorToBlock
    <2> QED BY <2>2 DEF w
  <1>6. Total(Written') = Total(Written) + Len(CurrentChunk)
    <2>1. DOMAIN Written = 1 .. n /\ DOMAIN Written' = 1 .. n + 1
      BY <1>1 DEF Written
    <2>2. ASSUME NEW b \in 1 .. n PROVE Written'[b] = Written[b]
      <3>1. TablesEnd + 3 * (b - 1) + 2 \in 1 .. Len(disk)
        BY <1>3
      <3>2. b \in 1 .. n + 1
        BY <1>3
      <3> QED BY <1>1, <1>2, <3>1, <3>2 DEF Written
    <2>3. Written'[n + 1] = CurrentChunk
      <3>1. TablesEnd + 3 * (n + 1 - 1) + 2 = TablesEnd + 3 * n + 2 /\ n + 1 \in 1 .. n + 1
            /\ TablesEnd + 3 * n + 2 \in 1 .. Len(disk)
        BY <1>3
      <3> QED BY <1>1, <1>2, <1>3, <3>1 DEF Written
    <2> DEFINE q == Written
               r == Written'
    <2>4. DOMAIN q = 1 .. n /\ DOMAIN r = 1 .. n + 1 /\ \A b \in 1 .. n : r[b] = q[b]
      BY <2>1, <2>2
    <2> HIDE DEF q, r, n
    <2>5. Total(r) = Total(q) + Len(r[n + 1])
      BY <1>3, <2>4, TotalOfMore
    <2> QED BY <2>3, <2>5 DEF q, r, n
  <1>7. /\ L \in Nat /\ lo \in Nat /\ hi \in lo + 1 .. L /\ lo = (cur.b - 1) * ChunkSize
        /\ Len(CurrentChunk) = hi - lo /\ hi <= cur.b * ChunkSize
    <2> DEFINE d == input[i].data
               b == cur.b
    <2>1. d \in Seq(Range(d)) /\ Len(d) \in Nat
      BY <1>4, CallFiles DEF IInv, Typed, input
    <2>2. b \in 1 .. Len(Chunks(d)) /\ CurrentChunk = Chunks(d)[b]
      BY <1>4 DEF CurrentChunk
    <2> HIDE DEF d, b
    <2>3. /\ EndOf(b - 1, Len(d)) \in Nat /\ EndOf(b - 1, Len(d)) = (b - 1) * ChunkSize
          /\ EndOf(b, Len(d)) \in EndOf(b - 1, Len(d)) + 1 .. Len(d)
          /\ Len(CurrentChunk) = EndOf(b, Len(d)) - EndOf(b - 1, Len(d))
      BY <2>1, <2>2, ChunksOf
    <2>4. EndOf(b, Len(d)) <= b * ChunkSize
      <3>1. b \in Nat /\ ChunkSize \in Nat
        BY <2>1, <2>2, ChunksOf, CompressorAssumption
      <3>2. b * ChunkSize \in Nat
        BY <3>1
      <3> QED BY <2>1, <3>2 DEF EndOf
    <2> QED BY <2>1, <2>3, <2>4 DEF d, b
  <1> HIDE DEF n, i, L, lo, hi
  <1>8. Len(entries) = Len(input) /\ DOMAIN input = 1 .. Len(input) /\ input = call.files
    BY <1>1, Sizes DEF IInv, Phases, input
  <1>9. BytesOf(call, Len(entries))' = BytesOf(call, Len(entries))
    BY <1>2 DEF SameSizes, BytesOf
  <1>10. New \subseteq BytesOf(call, Len(entries))
    <2> SUFFICES ASSUME NEW x \in New PROVE x \in BytesOf(call, Len(entries))
      OBVIOUS
    <2>1. x \in {i} \X (1 .. L)
      BY <1>7
    <2>2. i \in 1 .. Len(entries) /\ L = Len(call.files[i].data)
      BY <1>4, <1>8 DEF L
    <2> QED BY <2>1, <2>2 DEF BytesOf
  <1>11. /\ PlanOk(call, groups) /\ cur.f \in 1 .. Len(groups[cur.g].indices)
         /\ cur.b \in Nat
    <2> DEFINE g == cur.g
               k == cur.f
    <2>1. g \in 1 .. Len(groups) /\ k \in 1 .. Len(results[g])
      BY <1>4
    <2> HIDE DEF g, k
    <2>2. k \in 1 .. Len(groups[g].indices)
      BY <2>1, ResultAt
    <2>3. cur.b \in Nat
      BY <1>1 DEF Plan, Cursor, CursorOk, Writing
    <2> QED BY <2>2, <2>3, Planned DEF Plan, g, k
  <1>12. Passed \cup New \subseteq Passed'
    <2>1. ASSUME NEW x \in New PROVE PastIn(groups, cur', x)
      <3>1. x[1] = i /\ x[2] \in Int /\ x[2] <= hi
        BY <1>7
      <3>2. cur'.b - 1 = cur.b
        BY <1>5, <1>11
      <3>3. x[2] <= (cur'.b - 1) * ChunkSize
        <4> DEFINE y == cur.b * ChunkSize
        <4>1. y \in Int
          BY <1>11, CompressorAssumption
        <4>2. hi <= y /\ hi \in Int
          BY <1>7
        <4> HIDE DEF y
        <4>3. x[2] <= y
          BY <3>1, <4>1, <4>2
        <4> QED BY <3>2, <4>3 DEF y
      <3> QED BY <1>4, <1>5, <1>11, <3>1, <3>3 DEF PastIn
    <2>2. ASSUME NEW x, PastIn(groups, cur, x), x[2] \in Int PROVE PastIn(groups, cur', x)
      <3>1. PICK g \in 1 .. Len(groups) : \E k \in 1 .. Len(groups[g].indices) :
               /\ groups[g].indices[k] = x[1]
               /\ \/ g < cur.g
                  \/ g = cur.g /\ (k < cur.f \/ (k = cur.f /\ x[2] <= (cur.b - 1) * ChunkSize))
        BY <2>2 DEF PastIn
      <3>2. PICK k \in 1 .. Len(groups[g].indices) :
               /\ groups[g].indices[k] = x[1]
               /\ \/ g < cur.g
                  \/ g = cur.g /\ (k < cur.f \/ (k = cur.f /\ x[2] <= (cur.b - 1) * ChunkSize))
        BY <3>1
      <3>3. x[2] <= (cur.b - 1) * ChunkSize => x[2] <= (cur'.b - 1) * ChunkSize
        <4> DEFINE y == (cur.b - 1) * ChunkSize
                   z == cur.b * ChunkSize
        <4>1. y \in Int /\ z \in Int /\ y <= z
          <5> DEFINE j == cur.b - 1
                     h == cur.b
                     d == ChunkSize
          <5>1. cur.b \in Nat /\ cur.b \in 1 .. Len(Current.blocks)
            BY <1>4, <1>11
          <5>2. j \in Nat /\ h \in Nat /\ j <= h
            BY <5>1
          <5>3. d \in Nat
            BY CompressorAssumption
          <5> HIDE DEF j, h, d
          <5>4. j * d \in Nat /\ h * d \in Nat /\ j * d <= h * d
            BY <5>2, <5>3, Times
          <5>5. j * d \in Int /\ h * d \in Int
            BY <5>4
          <5> QED BY <5>4, <5>5 DEF j, h, d
        <4>2. cur'.b - 1 = cur.b
          BY <1>5, <1>11
        <4> HIDE DEF y, z
        <4>3. x[2] <= y => x[2] <= z
          BY <2>2, <4>1
        <4> QED BY <4>2, <4>3 DEF y, z
      <3> QED BY <1>5, <3>2, <3>3 DEF PastIn
    <2>3. \A x \in BytesOf(call, Len(entries)) : x[2] \in Int
      BY DEF BytesOf
    <2>4. Passed' = {x \in BytesOf(call, Len(entries)) : PastIn(groups, cur', x)}
      BY <1>2, <1>9 DEF Passed, SameSizes
    <2> HIDE DEF New
    <2> QED BY <1>10, <2>1, <2>2, <2>3, <2>4 DEF Passed
  <1>13. Passed \cap New = {}
    <2> SUFFICES ASSUME NEW x \in New, PastIn(groups, cur, x) PROVE FALSE
      BY DEF Passed
    <2>1. x[1] = i /\ x[2] \in Int /\ x[2] > lo
      BY <1>7
    <2>2. PICK g \in 1 .. Len(groups) : \E k \in 1 .. Len(groups[g].indices) :
             /\ groups[g].indices[k] = x[1]
             /\ \/ g < cur.g
                \/ g = cur.g /\ (k < cur.f \/ (k = cur.f /\ x[2] <= (cur.b - 1) * ChunkSize))
      BY DEF PastIn
    <2>3. PICK k \in 1 .. Len(groups[g].indices) :
             /\ groups[g].indices[k] = x[1]
             /\ \/ g < cur.g
                \/ g = cur.g /\ (k < cur.f \/ (k = cur.f /\ x[2] <= (cur.b - 1) * ChunkSize))
      BY <2>2
    <2>4. g = cur.g /\ k = cur.f
      <3> DEFINE h == cur.g
                 j == cur.f
      <3>1. h \in 1 .. Len(groups) /\ j \in 1 .. Len(groups[h].indices)
        BY <1>4, <1>11
      <3>2. groups[g].indices[k] = groups[h].indices[j]
        BY <1>4, <2>1, <2>3
      <3> HIDE DEF h, j
      <3>3. g = h /\ k = j
        BY <1>11, <2>3, <3>1, <3>2, PlannedOnce
      <3> QED BY <3>3 DEF h, j
    <2>5. x[2] <= lo
      BY <1>4, <1>7, <1>11, <2>3, <2>4
    <2> QED BY <1>7, <2>1, <2>5
  <1>14. IsFiniteSet(New) /\ Cardinality(New) = hi - lo
    <2>1. hi \in Nat /\ lo <= hi
      BY <1>7
    <2> QED BY <1>7, <2>1, OneFile
  <1> HIDE DEF New
  <1>15. IsFiniteSet(BytesOf(call, Len(entries)))
         /\ Cardinality(BytesOf(call, Len(entries))) <= MaxTotalInput
    BY DEF Amounts
  <1>16. Passed \in SUBSET BytesOf(call, Len(entries)) /\ Passed' \in SUBSET BytesOf(call, Len(entries))
    BY <1>9 DEF Passed
  <1>17. /\ IsFiniteSet(Passed) /\ IsFiniteSet(Passed')
         /\ Cardinality(Passed') <= Cardinality(BytesOf(call, Len(entries)))
    BY <1>15, <1>16, FS_Subset
  <1>18. /\ IsFiniteSet(Passed \cup New)
         /\ Cardinality(Passed \cup New) = Cardinality(Passed) + Cardinality(New)
    <2>1. /\ IsFiniteSet(Passed \cup New)
          /\ Cardinality(Passed \cup New)
                = Cardinality(Passed) + Cardinality(New) - Cardinality(Passed \cap New)
      BY <1>14, <1>17, FS_Union
    <2>2. Cardinality(Passed \cap New) = 0
      BY <1>13, FS_EmptySet
    <2>3. Cardinality(Passed) \in Nat /\ Cardinality(New) \in Nat
      BY <1>14, <1>17, FS_CardinalityType
    <2> QED BY <2>1, <2>2, <2>3
  <1>19. Cardinality(Passed \cup New) <= Cardinality(Passed')
    <2>1. Passed \cup New \in SUBSET Passed'
      BY <1>12
    <2> QED BY <1>17, <2>1, FS_Subset
  <1>20. /\ Cardinality(Passed) \in Nat /\ Cardinality(Passed') \in Nat
         /\ Cardinality(BytesOf(call, Len(entries))) \in Nat /\ MaxTotalInput \in Nat
    BY <1>15, <1>17, FS_CardinalityType, CompressorAssumption
  <1>21. Total(Written) \in Nat /\ Total(Written) <= Cardinality(Passed)
    BY <1>1 DEF Amounts, Writing
  <1>22. /\ Total(Written') \in Nat /\ Total(Written') <= Cardinality(Passed')
         /\ Total(Written') <= MaxTotalInput
    <2> DEFINE a == Total(Written)
               b == Total(Written')
               c == Cardinality(Passed)
               d == Cardinality(Passed')
               e == Cardinality(BytesOf(call, Len(entries)))
               m == Len(CurrentChunk)
    <2>1. /\ a \in Nat /\ c \in Nat /\ d \in Nat /\ e \in Nat /\ MaxTotalInput \in Nat /\ m \in Nat
          /\ a <= c /\ b = a + m /\ c + m <= d /\ d <= e /\ e <= MaxTotalInput
      BY <1>4, <1>6, <1>7, <1>14, <1>15, <1>17, <1>18, <1>19, <1>20, <1>21
    <2> HIDE DEF a, b, c, d, e, m
    <2>2. b \in Nat /\ b <= d /\ b <= MaxTotalInput
      BY <2>1
    <2> QED BY <2>2 DEF b, d
  <1> QED BY <1>1, <1>9, <1>15, <1>22 DEF Amounts

\* While no block is written, the amount is that of the files.
LEMMA NothingWritten ==
    ASSUME block_id_counter' = 0 PROVE Total(Written') = 0
  <1>1. DOMAIN Written' = 1 .. 0
    BY DEF Written
  <1> DEFINE q == Written'
  <1>2. DOMAIN q = 1 .. 0
    BY <1>1
  <1> HIDE DEF q
  <1>3. Total(q) = 0
    BY <1>2, TotalOfNone
  <1> QED BY <1>3 DEF q

\* What is scanned depends on the files only.
LEMMA ScannedSame ==
    ASSUME UNCHANGED call, NEW m, NEW n, m = n
    PROVE  ScannedSize(m)' = ScannedSize(n)
  <1>1. \A k : ScannedSize(k) = Scanning!Loop(0, 0, SubSeq(call.files, 1, k))
    BY DEF ScannedSize, AddData, input, Scanning!Loop, FoldLeft, MapThenFoldSet, Max,
       Scanning!FoldLeft, Scanning!MapThenFoldSet, Scanning!Max
  <1>2. \A k : ScannedSize(k)' = Scanning!Loop(0, 0, SubSeq(call'.files, 1, k))
    BY DEF ScannedSize, AddData, input, Scanning!Loop, FoldLeft, MapThenFoldSet, Max,
       Scanning!FoldLeft, Scanning!MapThenFoldSet, Scanning!Max
  <1> QED BY <1>1, <1>2

\* A file is scanned only if it fits within the limit.
LEMMA AmountsScanFile == ASSUME IInv, Plan, Amounts, ScanFile PROVE Amounts'
  <1> DEFINE n == Len(entries)
  <1>1. /\ pc = "scan" /\ n + 1 <= Len(input) /\ call' = call /\ block_id_counter' = block_id_counter
        /\ \/ pc' = "error" /\ entries' = entries
           \/ ScannedSize(n + 1) <= MaxTotalInput /\ pc' = pc /\ Len(entries') = n + 1
    <2>1. n \in Nat /\ IsSeq(entries)
      BY Sizes DEF IInv, Typed
    <2>2. ~(ScannedSize(n + 1) > MaxTotalInput) =>
             \E e : entries' = Append(entries, e)
      BY DEF ScanFile
    <2>3. ASSUME NEW e, entries' = Append(entries, e) PROVE Len(entries') = n + 1
      BY <2>1, <2>3, AppendSeq
    <2>4. IsFiniteSet(BytesOf(call, n)) /\ ScannedSize(n) \in Nat
      <3>1. IsFiniteSet(BytesOf(call, n)) /\ Cardinality(BytesOf(call, n)) = ScannedSize(n)
        BY DEF Amounts, ScanFile
      <3> QED BY <3>1, FS_CardinalityType
    <2>5. ScannedSize(n + 1) \in Nat
      <3>1. n + 1 <= Len(input) /\ n + 1 \in DOMAIN call.files /\ call \in Calls
        BY <2>1, CallFiles DEF ScanFile, IInv, Typed, input
      <3>2. Len(input[n + 1].data) \in Nat
        BY <3>1, CallFiles DEF input
      <3>3. ScannedSize(n + 1) = ScannedSize(n) + Len(input[n + 1].data)
        BY <2>1, <3>1, ScannedMore
      <3> QED BY <2>4, <3>2, <3>3
    <2> HIDE DEF n
    <2>6. ~(ScannedSize(n + 1) > MaxTotalInput) => ScannedSize(n + 1) <= MaxTotalInput
      BY <2>5, CompressorAssumption
    <2> QED BY <2>2, <2>3, <2>6 DEF ScanFile, counters, n
  <1>2. block_id_counter = 0
    BY <1>1 DEF Plan, Cursor
  <1>3. Total(Written') = 0 /\ MaxTotalInput \in Nat
    BY <1>1, <1>2, NothingWritten, CompressorAssumption
  <1>4. ~Writing'
    BY <1>1 DEF Writing
  <1>5. CASE pc' = "error" /\ entries' = entries
    <2>1. BytesOf(call, Len(entries))' = BytesOf(call, Len(entries))
      BY <1>1, <1>5 DEF BytesOf
    <2> QED BY <1>3, <1>4, <1>5, <2>1 DEF Amounts
  <1>6. CASE ScannedSize(n + 1) <= MaxTotalInput /\ pc' = pc /\ Len(entries') = n + 1
    <2>1. n \in Nat /\ n + 1 \in DOMAIN call.files /\ call \in Calls
      BY <1>1, Sizes, CallFiles DEF IInv, Typed, input
    <2>2. Len(call.files[n + 1].data) \in Nat
      BY <2>1, CallFiles
    <2>3. IsFiniteSet(BytesOf(call, n)) /\ Cardinality(BytesOf(call, n)) = ScannedSize(n)
      BY <1>1 DEF Amounts
    <2> HIDE DEF n
    <2>4. /\ IsFiniteSet(BytesOf(call, n + 1))
          /\ Cardinality(BytesOf(call, n + 1)) = ScannedSize(n) + Len(call.files[n + 1].data)
      BY <2>1, <2>2, <2>3, BytesMore
    <2>5. Cardinality(BytesOf(call, n + 1)) = ScannedSize(n + 1)
      BY <1>1, <2>1, <2>4, ScannedMore DEF input
    <2>6. BytesOf(call, Len(entries))' = BytesOf(call, n + 1)
      BY <1>1, <1>6 DEF BytesOf
    <2>7. ScannedSize(Len(entries))' = ScannedSize(n + 1)
      BY <1>1, <1>6, ScannedSame
    <2> QED BY <1>3, <1>4, <1>6, <2>4, <2>5, <2>6, <2>7 DEF Amounts
  <1> QED BY <1>1, <1>5, <1>6

\* The groups are made of the files scanned.
LEMMA AmountsGroupFiles == ASSUME IInv, Plan, Amounts, GroupFiles PROVE Amounts'
  <1>1. /\ pc = "scan" /\ pc' = "header" /\ call' = call /\ block_id_counter' = block_id_counter
        /\ Len(entries') = Len(entries)
    <2>1. Len(entries) = Len(input) /\ pc' = "header" /\ call' = call /\ pc = "scan"
          /\ block_id_counter' = block_id_counter
      BY DEF GroupFiles, counters
    <2>2. IInv' /\ Len(entries') = Len(input')
      BY <2>1, GroupFilesOk DEF IInv, Phases
    <2> QED BY <2>1, <2>2 DEF input
  <1>2. block_id_counter = 0
    BY <1>1 DEF Plan, Cursor
  <1>3. Total(Written') = 0 /\ MaxTotalInput \in Nat
    BY <1>1, <1>2, NothingWritten, CompressorAssumption
  <1>4. ~Writing'
    BY <1>1 DEF Writing
  <1>5. BytesOf(call, Len(entries))' = BytesOf(call, Len(entries))
    BY <1>1 DEF BytesOf
  <1> QED BY <1>1, <1>3, <1>4, <1>5 DEF Amounts

\* The writing starts with no block.
LEMMA AmountsJoinGroups == ASSUME IInv, Plan, Amounts, JoinGroups PROVE Amounts'
  <1>1. pc = "compress" /\ pc' = "blocks" /\ block_id_counter' = block_id_counter
        /\ call' = call /\ entries' = entries
    BY DEF JoinGroups, counters
  <1>2. block_id_counter = 0
    BY <1>1 DEF Plan, Cursor
  <1>3. Total(Written') = 0 /\ MaxTotalInput \in Nat
    BY <1>1, <1>2, NothingWritten, CompressorAssumption
  <1>4. BytesOf(call, Len(entries))' = BytesOf(call, Len(entries))
    BY <1>1 DEF BytesOf
  <1>5. Cardinality(Passed') \in Nat
    <2>1. Passed' \in SUBSET BytesOf(call, Len(entries))
      BY <1>4 DEF Passed
    <2>2. IsFiniteSet(BytesOf(call, Len(entries)))
      BY DEF Amounts
    <2>3. IsFiniteSet(Passed')
      BY <2>1, <2>2, FS_Subset
    <2> QED BY <2>3, FS_CardinalityType
  <1> QED BY <1>1, <1>3, <1>4, <1>5 DEF Amounts

\* The other steps.
LEMMA AmountsQuietSteps ==
    ASSUME IInv, Plan, Image, Amounts,
           \/ StartPhaseA \/ (\E g \in DOMAIN groups : CompressFile(g))
           \/ Finish \/ Fail
           \/ WritePlaceholder \/ WritePrefix \/ WriteFileEntry \/ WriteGroupEntry
           \/ WriteBlockHeader \/ WritePayload \/ WriteIndexEntry \/ WriteFooter
           \/ TearHeader \/ PatchHeader \/ PatchChunkStart \/ PatchChunkCount
           \/ PatchGroupEntry
    PROVE  Amounts'
  <1>1. StepOk
    BY StartPhaseAOk, CompressFileOk, FinishOk, FailOk, WritePlaceholderOk, WritePrefixOk,
       WriteFileEntryOk, WriteGroupEntryOk, WriteBlockHeaderOk, WritePayloadOk,
       WriteIndexEntryOk, WriteFooterOk, TearHeaderOk, PatchHeaderOk, PatchChunkStartOk,
       PatchChunkCountOk, PatchGroupEntryOk
  <1>2. block_id_counter' = block_id_counter
    BY DEF StartPhaseA, CompressFile, Finish, Fail, WritePlaceholder, WritePrefix,
       WriteFileEntry, WriteGroupEntry, WriteBlockHeader, WritePayload, WriteIndexEntry,
       WriteFooter, TearHeader, PatchHeader, PatchChunkStart, PatchChunkCount,
       PatchGroupEntry, counters
  <1>3. pc' # "scan"
    BY DEF StartPhaseA, CompressFile, Finish, Fail, WritePlaceholder, WritePrefix,
       WriteFileEntry, WriteGroupEntry, WriteBlockHeader, WritePayload, WriteIndexEntry,
       WriteFooter, TearHeader, PatchHeader, PatchChunkStart, PatchChunkCount,
       PatchGroupEntry
  <1>4. Writing' => Writing /\ cur' = cur
    <2>1. CASE StartPhaseA \/ (\E g \in DOMAIN groups : CompressFile(g)) \/ Finish \/ Fail
      BY <2>1 DEF StartPhaseA, CompressFile, Finish, Fail, Writing
    <2>2. CASE WritePlaceholder \/ WritePrefix \/ WriteFileEntry \/ WriteGroupEntry
      BY <2>2 DEF WritePlaceholder, WritePrefix, WriteFileEntry, WriteGroupEntry, Writing
    <2>3. CASE WriteBlockHeader \/ WritePayload \/ WriteIndexEntry \/ WriteFooter
      BY <2>3 DEF WriteBlockHeader, WritePayload, WriteIndexEntry, WriteFooter, AtFile, Writing
    <2>4. CASE TearHeader \/ PatchHeader \/ PatchChunkStart \/ PatchChunkCount \/ PatchGroupEntry
      BY <2>4 DEF TearHeader, PatchHeader, PatchChunkStart, PatchChunkCount, PatchGroupEntry,
         Writing
    <2> QED BY <2>1, <2>2, <2>3, <2>4
  <1> QED BY <1>1, <1>2, <1>3, <1>4, SumKept DEF Onward

\* The next file, and the next group.
LEMMA AmountsOnward ==
    ASSUME IInv, Plan, Image, Amounts, ShareBlocks \/ EndFile \/ EndGroup PROVE Amounts'
  <1>1. StepOk
    BY ShareBlocksOk, EndFileOk, EndGroupOk
  <1>2. pc = "blocks" /\ pc' = pc /\ block_id_counter' = block_id_counter
    BY DEF ShareBlocks, EndFile, EndGroup, AtFile, counters
  <1>3. Onward
    <2>1. CASE ShareBlocks \/ EndFile
      <3> DEFINE v == cur.f + 1
      <3>1. ToFile(cur, v, 1, cur') /\ IsCursor(cur)
        BY <2>1 DEF ShareBlocks, EndFile, NextFile, ToFile, Plan
      <3> HIDE DEF v
      <3>2. cur'.g = cur.g /\ cur'.f = v
        BY <3>1, CursorToFile
      <3> QED BY <1>2, <3>2 DEF Onward, v
    <2>2. CASE EndGroup
      <3>1. cur'.g = cur.g + 1
        BY <2>2 DEF EndGroup, EnterGroup
      <3> QED BY <1>2, <3>1 DEF Onward
    <2> QED BY <2>1, <2>2
  <1> QED BY <1>1, <1>2, <1>3, SumKept DEF Writing

\* The amounts at the start.
LEMMA AmountsInit == ASSUME Init PROVE Amounts
  <1>1. IInv /\ pc = "scan" /\ block_id_counter = 0 /\ Len(entries) = 0
    BY InitOk, EmptyImage DEF Init
  <1>2. BytesOf(call, 0) = {}
    BY DEF BytesOf
  <1>3. ScannedSize(0) = 0
    BY <1>1, ScannedNone
  <1>4. Total(Written) = 0
    <2> DEFINE q == Written
    <2>1. DOMAIN q = 1 .. 0
      BY <1>1 DEF Written
    <2> HIDE DEF q
    <2>2. Total(q) = 0
      BY <2>1, TotalOfNone
    <2> QED BY <2>2 DEF q
  <1>5. IsFiniteSet({}) /\ Cardinality({}) = 0
    BY FS_EmptySet
  <1>6. MaxTotalInput \in Nat
    BY CompressorAssumption
  <1> QED BY <1>1, <1>2, <1>3, <1>4, <1>5, <1>6 DEF Amounts, Writing

\* Every step keeps the amounts.
LEMMA AmountsNext == ASSUME IInv, Plan, Image, Amounts, [Next]_vars PROVE Amounts'
  <1>1. CASE ScanFile \/ GroupFiles \/ JoinGroups
    BY <1>1, AmountsScanFile, AmountsGroupFiles, AmountsJoinGroups
  <1>2. CASE ShareBlocks \/ EndFile \/ EndGroup
    BY <1>2, AmountsOnward
  <1>3. CASE WriteTrailer
    BY <1>3, AmountsWriteTrailer
  <1>4. CASE UNCHANGED vars
    <2>1. /\ BytesOf(call, Len(entries))' = BytesOf(call, Len(entries))
          /\ Written' = Written /\ Passed' = Passed /\ pc' = pc /\ UNCHANGED <<call, entries>>
      BY <1>4 DEF vars, counters, BytesOf, Written, Passed, PastIn, TablesEnd, Offset
    <2>2. ScannedSize(Len(entries))' = ScannedSize(Len(entries))
      BY <2>1, ScannedSame
    <2> QED BY <2>1, <2>2 DEF Amounts, Writing
  <1> QED BY <1>1, <1>2, <1>3, <1>4, AmountsQuietSteps DEF Next, Proceed, Write

\* What is on disk, block by block, in every reachable state.
THEOREM FullInvariance == Spec => [](IInv /\ Plan /\ Image /\ Amounts)
  <1>1. Init => IInv /\ Plan /\ Image /\ Amounts
    BY InitOk, PlanInit, ImageInit, AmountsInit
  <1>2. IInv /\ Plan /\ Image /\ Amounts /\ [Next]_vars => (IInv /\ Plan /\ Image /\ Amounts)'
    <2> SUFFICES ASSUME IInv, Plan, Image, Amounts, [Next]_vars
                 PROVE  IInv' /\ Plan' /\ Image' /\ Amounts'
      OBVIOUS
    <2>1. IInv'
      BY NextOk, StutterOk
    <2> QED BY <2>1, PlanNext, ImageNext, AmountsNext
  <1> QED BY <1>1, <1>2, PTL DEF Spec

------------------------------------------------------------------------------
(* The image a seekable reader accepts.                                    *)

\* A block the writer finished decodes, from its place or from its entry.
LEMMA BlockDecodes ==
    ASSUME IInv, Image, NEW b \in 1 .. block_id_counter, At(disk, 0).encrypted = call.encrypted
    PROVE  /\ DecodeAt(disk, TablesEnd + 3 * (b - 1)) = Written[b]
           /\ decompress_block(disk, all_block_indices[b]) = Written[b]
           /\ Written[b] # NoData
  <1> DEFINE p == TablesEnd + 3 * (b - 1)
             x == all_block_indices[b]
             data == disk[p + 2].data
             h == At(disk, 0)
  <1>1. BlockOk(call, disk, TablesEnd, x, b)
    BY Ends DEF Image, BlocksOn
  <1>2. /\ p + 3 <= Len(disk) /\ x.block_id = b - 1 /\ x.archive_offset = p
        /\ x.uncompressed_size = Len(data)
        /\ HeadOk(disk[p + 1], b - 1, x.solid_group_id, data)
        /\ BodyOk(call, disk[p + 2], b - 1, data) /\ data # NoData
        /\ disk[p + 3].k = "btrl" /\ disk[p + 3].content_blake3 = data
    BY <1>1 DEF BlockOk
  <1>3. Written[b] = data
    BY DEF Written
  <1>4. p \in Nat /\ Len(disk) \in Nat
    BY Ends
  <1>5. h.encrypted = call.encrypted
    OBVIOUS
  <1> HIDE DEF p, x, data, h
  <1>6. At(disk, p) = disk[p + 1] /\ At(disk, p + 1) = disk[p + 2] /\ At(disk, p + 2) = disk[p + 3]
    <2>1. p \in 0 .. Len(disk) - 1 /\ p + 1 \in 0 .. Len(disk) - 1 /\ p + 2 \in 0 .. Len(disk) - 1
      BY <1>2, <1>4
    <2>2. p + 1 + 1 = p + 2 /\ p + 2 + 1 = p + 3
      BY <1>4
    <2> QED BY <2>1, <2>2 DEF At
  <1>7. Opens(h, disk[p + 1], disk[p + 2])
    BY <1>2, <1>5 DEF Opens, BodyOk, HeadOk
  <1>8. DecodeAt(disk, p) = data
    BY <1>2, <1>6, <1>7 DEF DecodeAt, HeadOk, BodyOk, h
  <1>9. decompress_block(disk, x) = data
    BY <1>2, <1>6, <1>8 DEF decompress_block, IsAt, validate_block_header, HeadOk
  <1> QED BY <1>2, <1>3, <1>8, <1>9 DEF p, x

\* An accepted image is closed: its last record is the writer's footer, its
\* header the final one, and both describe the blocks on disk.
LEMMA AcceptedClosed ==
    ASSUME IInv, Image, MetadataOk(disk)
    PROVE  /\ Closed /\ disk[1] = final_header /\ At(disk, 0) = disk[1]
           /\ Len(disk) \in Nat \ {0} /\ disk[Len(disk)].k = "footer"
           /\ LastFooter(disk) = disk[Len(disk)]
           /\ LastFooter(disk).block_count = block_id_counter
           /\ LastFooter(disk).block_index_offset = BlocksEnd
           /\ At(disk, 0).block_count = block_id_counter
           /\ At(disk, 0).encrypted = call.encrypted
           /\ FirstBlock(disk) = TablesEnd
  <1> DEFINE f == LastFooter(disk)
             n == Len(disk)
  <1>1. /\ HeaderOk(disk) /\ At(disk, 0).file_table_offset = f.file_table_offset
        /\ f.file_table_offset = Offset(call)
    BY ReadFooter DEF MetadataOk, HeaderMatchesFooter
  <1>2. /\ n > 0 /\ n \in Nat /\ At(disk, 0) = disk[1] /\ HeaderOf(call, Len(entries), disk[1])
        /\ disk[1].intact /\ disk[1].file_table_offset > 0
    <2>1. n > 0 /\ At(disk, 0) = disk[1] /\ HeaderOf(call, Len(entries), disk[1])
      BY <1>1, ReadHeader
    <2>2. n \in Nat
      BY Sizes
    <2>3. disk[1].intact
      BY <1>1, <2>1 DEF HeaderOk
    <2>4. Offset(call) > 0
      <3>1. Offset(call) \in Nat /\ Offset(call) >= 1
        BY Offsets
      <3> QED BY <3>1
    <2>5. disk[1].file_table_offset = Offset(call)
      BY <1>1, <2>1
    <2> QED BY <2>1, <2>2, <2>3, <2>4, <2>5
  <1>3. Closed /\ disk[1] = final_header
    BY <1>2 DEF Closed, Image, Heads
  <1>4. FooterOk(disk[n])
    BY <1>3 DEF Image, Stages
  <1>5. f = disk[n]
    <2>1. n - 1 \in 0 .. n - 1 /\ n - 1 + 1 = n
      BY <1>2
    <2>2. At(disk, n - 1) = disk[n]
      BY <2>1 DEF At
    <2> QED BY <1>4, <2>2 DEF LastFooter, FooterOk
  <1>6. /\ disk[n].k = "footer" /\ f.block_count = block_id_counter
        /\ f.block_index_offset = BlocksEnd
    BY <1>4, <1>5, Ends DEF FooterOk
  <1>7. At(disk, 0).block_count = block_id_counter /\ At(disk, 0).solid_group_count = Len(groups)
    BY <1>2, <1>3 DEF final_header, Header
  <1>8. FirstBlock(disk) = TablesEnd
    BY <1>1, <1>2, <1>7, ReadPrefix DEF FirstBlock, TablesEnd, HeaderOf
  <1> QED BY <1>2, <1>3, <1>5, <1>6, <1>7, <1>8 DEF HeaderOf

\* What such a reader decodes, over the index or in a row, is what was written.
LEMMA AcceptedBlocks ==
    ASSUME IInv, Image, Amounts, MetadataOk(disk)
    PROVE  /\ DecodedIndex(disk) = Written /\ DecodedStream(disk) = Written
           /\ BlocksOk(DecodedIndex(disk))
  <1> DEFINE B == block_id_counter
             f == LastFooter(disk)
  <1>1. /\ Closed /\ f.block_count = B /\ f.block_index_offset = BlocksEnd
        /\ At(disk, 0).block_count = B /\ At(disk, 0).encrypted = call.encrypted
        /\ FirstBlock(disk) = TablesEnd
    BY AcceptedClosed
  <1>2. B \in Nat /\ B = Len(all_block_indices) /\ BlocksEnd \in Nat /\ Len(disk) = BlocksEnd + B + 1
        /\ IndexOn(disk, BlocksEnd, all_block_indices)
    BY <1>1, Ends DEF Image, Stages
  <1>3. ASSUME NEW k \in 1 .. B PROVE BlockIndex(disk, f)[k] = all_block_indices[k]
    <2>1. BlocksEnd + k - 1 \in 0 .. Len(disk) - 1 /\ BlocksEnd + k - 1 + 1 = BlocksEnd + k
          /\ BlocksEnd + k <= Len(disk)
      BY <1>2
    <2>2. At(disk, BlocksEnd + k - 1) = disk[BlocksEnd + k]
      BY <2>1 DEF At
    <2>3. disk[BlocksEnd + k] = all_block_indices[k]
      BY <1>2, <2>1 DEF IndexOn
    <2>4. BlockIndex(disk, f)[k] = At(disk, BlocksEnd + k - 1)
      BY <1>1 DEF BlockIndex
    <2> QED BY <2>2, <2>3, <2>4
  <1>4. DecodedIndex(disk) = Written
    <2>1. DecodedIndex(disk) = [k \in 1 .. B |-> decompress_block(disk, BlockIndex(disk, f)[k])]
      BY <1>1 DEF DecodedIndex
    <2>2. \A k \in 1 .. B : decompress_block(disk, BlockIndex(disk, f)[k]) = Written[k]
      BY <1>1, <1>3, BlockDecodes
    <2>3. Written = [k \in 1 .. B |-> Written[k]]
      BY DEF Written
    <2> HIDE DEF B, f
    <2> QED BY <2>1, <2>2, <2>3
  <1>5. DecodedStream(disk) = Written
    <2>1. DecodedStream(disk) = [k \in 1 .. B |-> DecodeAt(disk, TablesEnd + 3 * (k - 1))]
      BY <1>1 DEF DecodedStream
    <2>2. \A k \in 1 .. B : DecodeAt(disk, TablesEnd + 3 * (k - 1)) = Written[k]
      BY <1>1, BlockDecodes
    <2>3. Written = [k \in 1 .. B |-> Written[k]]
      BY DEF Written
    <2> HIDE DEF B
    <2> QED BY <2>1, <2>2, <2>3
  <1>6. DOMAIN Written = 1 .. B /\ \A k \in 1 .. B : Written[k] # NoData
    BY <1>1, BlockDecodes DEF Written
  <1>7. Total(Written) <= MaxTotalDecompressed
    BY CompressorAssumption, ReaderLimitsAssumption DEF Amounts
  <1> QED BY <1>4, <1>5, <1>6, <1>7 DEF BlocksOk

\* The seekable readers accept no image before every block, the index and the
\* footer are in it, and not one that only ends with another archive's footer.
THEOREM AcceptedComplete == Spec => []AcceptedHasAllBlocks
  <1>1. IInv /\ Plan /\ Image /\ Amounts => AcceptedHasAllBlocks
    BY AcceptedClosed, AcceptedBlocks DEF AcceptedHasAllBlocks
  <1> QED BY <1>1, FullInvariance, PTL

\* The paths of the calls are ones the extractor does not refuse.
PlainPaths ==
    \A c \in Calls : \A i \in DOMAIN c.files : StoredPath(c.files[i]).kind = "plain"

\* verify passes only what extract_all extracts completely, when no path of
\* the call is one that extraction alone refuses.
THEOREM VerifySoundness == ASSUME PlainPaths PROVE Spec => []VerifySound
  <1>1. IInv /\ Plan /\ Image /\ Amounts => VerifySound
    <2> SUFFICES ASSUME IInv, Image, Amounts, verify(disk) PROVE extract_all(disk) = Complete
      BY DEF VerifySound
    <2> DEFINE table == FileTable(disk, At(disk, 0), LastFooter(disk).file_table_offset)
               blocks == DecodedIndex(disk)
               Good(i) == FileIntact(table[i], blocks) /\ validate_extraction_path(table[i].path)
               upto == {i \in DOMAIN table : \A j \in 1 .. i : Good(j)}
               n == Len(input)
    <2>1. MetadataOk(disk) /\ \A i \in DOMAIN table : FileIntact(table[i], blocks)
      BY DEF verify
    <2>2. BlocksOk(blocks)
      BY <2>1, AcceptedBlocks
    <2>3. TableOf(call, n, table)
      <3>1. HeaderOk(disk) /\ TablesOk(disk, At(disk, 0), Offset(call))
        BY <2>1, ReadFooter DEF MetadataOk
      <3> QED BY <2>1, <3>1, ReadTable, ReadFooter
    <2>4. n \in Nat /\ DOMAIN call.files = 1 .. n /\ call \in Calls
      BY Sizes DEF IInv, Typed, input
    <2>5. extract_all(disk) = ExtractFiles(table, blocks)
      BY <2>1, <2>2 DEF extract_all
    <2> HIDE DEF table, blocks, n
    <2>6. \A i \in 1 .. n : Good(i)
      <3> SUFFICES ASSUME NEW i \in 1 .. n PROVE Good(i)
        OBVIOUS
      <3>1. table[i].path = StoredPath(call.files[i])
        BY <2>3, FileEntryFields DEF TableOf
      <3>2. validate_extraction_path(table[i].path)
        BY <2>4, <3>1 DEF PlainPaths, validate_extraction_path
      <3> QED BY <2>1, <2>3, <3>2 DEF TableOf
    <2>7. upto = DOMAIN table
      <3>1. DOMAIN table = 1 .. n
        BY <2>3 DEF TableOf
      <3>2. \A i \in 1 .. n : \A j \in 1 .. i : j \in 1 .. n
        BY <2>4
      <3> HIDE DEF Good
      <3> QED BY <2>6, <3>1, <3>2
    <2>8. ExtractFiles(table, blocks).ok
      BY <2>7 DEF ExtractFiles
    <2>9. ExtractFiles(table, blocks).written = FilesOf(call)
      BY <2>3, <2>4, <2>8, ExtractedFiles
    <2>10. ExtractFiles(table, blocks) = [ok |-> ExtractFiles(table, blocks).ok,
                                          written |-> ExtractFiles(table, blocks).written]
      BY DEF ExtractFiles
    <2>11. ExtractFiles(table, blocks).ok = TRUE
      BY <2>7 DEF ExtractFiles
    <2>12. Files = FilesOf(call)
      BY DEF Files, FilesOf, input
    <2> QED BY <2>5, <2>9, <2>10, <2>11, <2>12 DEF Complete
  <1> QED BY <1>1, FullInvariance, PTL
==============================================================================
