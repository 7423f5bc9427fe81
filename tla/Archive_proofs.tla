--------------------------- MODULE Archive_proofs ---------------------------
(***************************************************************************)
(* Proofs about what Compressor leaves when it has finished: each file has *)
(* the range of its own chunks, so every reader gives it back, and the     *)
(* blocks lie as the groups say, whatever order the pool had.              *)
(***************************************************************************)
EXTENDS Compressor_proofs

------------------------------------------------------------------------------
(* Pieces put together.                                                    *)

\* h lists what FlattenSeq has put together after each piece.
Joins(q, N, h) ==
    /\ h[1] = q[1] /\ h[N] = FlattenSeq(q)
    /\ \A n \in 2 .. N : h[n] = h[n - 1] \o q[n]

LEMMA FlattenSteps ==
    ASSUME NEW q, NEW N \in Nat \ {0}, Len(q) = N
    PROVE  \E h : Joins(q, N, h)
  <1> DEFINE Next1(f, i) == IF i = 1 THEN q[i] ELSE f[i - 1] \o q[i]
             Def(f, n) == f = [i \in 1 .. n |-> Next1(f, i)]
  <1>1. \A n \in 0 .. N : \E f : Def(f, n)
    <2> DEFINE T == {n \in 0 .. N : ~\E f : Def(f, n)}
    <2> HIDE DEF Next1, Def
    <2> SUFFICES ASSUME T # {} PROVE FALSE
      OBVIOUS
    <2>1. PICK n \in T : \A m \in T : n <= m
      <3>1. T \subseteq Nat
        OBVIOUS
      <3> HIDE DEF T
      <3> QED BY <3>1, InBucket!LeastNat
    <2>2. n \in 0 .. N /\ ~\E f : Def(f, n)
      BY <2>1
    <2>3. n # 0
      <3> SUFFICES ASSUME n = 0 PROVE FALSE
        OBVIOUS
      <3> DEFINE f == [i \in 1 .. 0 |-> q]
      <3>1. Def(f, 0)
        BY DEF Def
      <3> QED BY <2>2, <3>1
    <2>4. n - 1 \in 0 .. N /\ n - 1 \notin T
      <3> HIDE DEF T, Def
      <3> QED BY <2>1, <2>2, <2>3
    <2>5. PICK f : Def(f, n - 1)
      <3> HIDE DEF Def
      <3> QED BY <2>4
    <2> HIDE DEF T
    <2> DEFINE g == [i \in 1 .. n |-> IF i = n THEN Next1(f, n) ELSE f[i]]
    <2>6. ASSUME NEW i \in 1 .. n PROVE g[i] = Next1(g, i)
      <3> USE DEF Next1, Def
      <3>1. CASE i = n
        <4>1. g[i] = Next1(f, i)
          BY <3>1
        <4>2. i # 1 => g[i - 1] = f[i - 1]
          BY <2>2, <3>1
        <4> HIDE DEF g
        <4> QED BY <4>1, <4>2
      <3>2. CASE i # n
        <4>1. i \in 1 .. n - 1
          BY <2>2, <3>2
        <4>2. g[i] = f[i] /\ f[i] = Next1(f, i)
          BY <2>5, <3>2, <4>1
        <4>3. i # 1 => g[i - 1] = f[i - 1]
          BY <2>2, <4>1
        <4> HIDE DEF g
        <4> QED BY <4>2, <4>3
      <3> QED BY <3>1, <3>2
    <2>7. g = [i \in 1 .. n |-> g[i]]
      OBVIOUS
    <2> HIDE DEF g
    <2>8. Def(g, n)
      BY <2>6, <2>7 DEF Def
    <2> QED BY <2>2, <2>8
  <1> DEFINE h == CHOOSE f : f = [i \in 1 .. Len(q) |-> Next1(f, i)]
  <1>2. Def(h, N)
    <2>1. \E f : f = [i \in 1 .. Len(q) |-> Next1(f, i)]
      <3>1. PICK f : Def(f, N)
        <4> HIDE DEF Def
        <4> QED BY <1>1
      <3> QED BY <3>1
    <2>2. h = [i \in 1 .. Len(q) |-> Next1(h, i)]
      BY <2>1
    <2> QED BY <2>2
  <1>3. FlattenSeq(q) = h[N]
    BY DEF FlattenSeq
  <1> HIDE DEF h
  <1>4. h[1] = q[1]
    BY <1>2
  <1>5. ASSUME NEW n \in 2 .. N PROVE h[n] = h[n - 1] \o q[n]
    <2>1. n \in 1 .. N /\ n # 1
      OBVIOUS
    <2>2. h[n] = Next1(h, n)
      <3> HIDE DEF Next1
      <3> QED BY <1>2, <2>1
    <2> QED BY <2>1, <2>2
  <1> QED BY <1>3, <1>4, <1>5 DEF Joins

\* Sequences have their elements in one set.
LEMMA CommonSet ==
    ASSUME NEW s, NEW t, NEW u, IsSeq(s), IsSeq(t), IsSeq(u)
    PROVE  \E S : s \in Seq(S) /\ t \in Seq(S) /\ u \in Seq(S)
  <1>1. PICK A : s \in Seq(A)
    BY DEF IsSeq
  <1>2. PICK B : t \in Seq(B)
    BY DEF IsSeq
  <1>3. PICK C : u \in Seq(C)
    BY DEF IsSeq
  <1> DEFINE S == A \cup B \cup C
  <1>4. A \subseteq S /\ B \subseteq S /\ C \subseteq S
    OBVIOUS
  <1> HIDE DEF S
  <1>5. s \in Seq(S) /\ t \in Seq(S) /\ u \in Seq(S)
    BY <1>1, <1>2, <1>3, <1>4, SeqMonotonic
  <1> QED BY <1>5

\* Two sequences one behind the other.
LEMMA JoinSeq ==
    ASSUME NEW s, NEW t, IsSeq(s), IsSeq(t)
    PROVE  /\ IsSeq(s \o t) /\ Len(s \o t) = Len(s) + Len(t)
           /\ s \o << >> = s /\ << >> \o t = t
  <1>1. PICK S : s \in Seq(S) /\ t \in Seq(S)
    BY CommonSet
  <1>2. s \o t \in Seq(S) /\ Len(s \o t) = Len(s) + Len(t)
    BY <1>1, ConcatProperties
  <1>3. s \o << >> = s /\ << >> \o t = t
    BY <1>1, ConcatEmptySeq
  <1> QED BY <1>2, <1>3 DEF IsSeq

\* Three of them.
LEMMA JoinThree ==
    ASSUME NEW s, NEW t, NEW u, IsSeq(s), IsSeq(t), IsSeq(u)
    PROVE  (s \o t) \o u = s \o (t \o u)
  <1>1. PICK S : s \in Seq(S) /\ t \in Seq(S) /\ u \in Seq(S)
    BY CommonSet
  <1> QED BY <1>1, ConcatAssociative

\* One element behind the second.
LEMMA JoinAppend ==
    ASSUME NEW s, NEW t, IsSeq(s), IsSeq(t), NEW x
    PROVE  s \o Append(t, x) = Append(s \o t, x)
  <1> DEFINE a == Append(t, x)
             l == s \o a
             st == s \o t
             r == Append(st, x)
  <1>1. IsSeq(a) /\ Len(a) = Len(t) + 1 /\ (\A i \in 1 .. Len(t) : a[i] = t[i]) /\ a[Len(t) + 1] = x
    BY AppendSeq
  <1>2. IsSeq(st) /\ Len(st) = Len(s) + Len(t)
    BY JoinSeq
  <1>3. /\ IsSeq(r) /\ Len(r) = Len(st) + 1
        /\ (\A i \in 1 .. Len(st) : r[i] = st[i]) /\ r[Len(st) + 1] = x
    <2> HIDE DEF st
    <2> QED BY <1>2, AppendSeq
  <1>4. Len(s) \in Nat /\ Len(t) \in Nat
    BY SeqDomain
  <1>5. \A i \in 1 .. Len(s) + Len(t) : st[i] = IF i <= Len(s) THEN s[i] ELSE t[i - Len(s)]
    <2>1. PICK S : s \in Seq(S) /\ t \in Seq(S)
      BY CommonSet
    <2> QED BY <2>1, ConcatProperties
  <1>6. \A i \in 1 .. Len(s) + Len(a) : l[i] = IF i <= Len(s) THEN s[i] ELSE a[i - Len(s)]
    <2> HIDE DEF a
    <2>0. IsSeq(s) /\ IsSeq(a)
      BY <1>1
    <2>1. PICK S : s \in Seq(S) /\ a \in Seq(S)
      <3>1. \E S : s \in Seq(S) /\ a \in Seq(S) /\ a \in Seq(S)
        BY <2>0, CommonSet
      <3> QED BY <3>1
    <2> QED BY <2>1, ConcatProperties
  <1>7. IsSeq(l) /\ Len(l) = Len(s) + Len(a)
    <2> HIDE DEF a
    <2> QED BY <1>1, JoinSeq
  <1> HIDE DEF a, l, r, st
  <1>8. ASSUME NEW i \in 1 .. Len(l) PROVE l[i] = r[i]
    <2>1. i \in 1 .. Len(s) + Len(t) + 1
      BY <1>1, <1>4, <1>7
    <2>2. CASE i <= Len(s)
      BY <1>1, <1>2, <1>3, <1>4, <1>5, <1>6, <1>7, <2>1, <2>2
    <2>3. CASE i > Len(s) /\ i <= Len(s) + Len(t)
      <3>1. i - Len(s) \in 1 .. Len(t)
        BY <1>4, <2>1, <2>3
      <3>2. ~(i <= Len(s)) /\ i \in 1 .. Len(s) + Len(t) /\ i \in 1 .. Len(s) + Len(a)
        BY <1>1, <1>4, <2>1, <2>3
      <3>3. l[i] = a[i - Len(s)] /\ st[i] = t[i - Len(s)]
        BY <1>5, <1>6, <3>2
      <3>4. a[i - Len(s)] = t[i - Len(s)] /\ r[i] = st[i]
        BY <1>1, <1>2, <1>3, <3>1, <3>2
      <3> QED BY <3>3, <3>4
    <2>4. CASE i = Len(s) + Len(t) + 1
      <3>1. i - Len(s) = Len(t) + 1 /\ ~(i <= Len(s))
        BY <1>4, <2>4
      <3> QED BY <1>1, <1>2, <1>3, <1>4, <1>6, <1>7, <2>4, <3>1
    <2> QED BY <1>4, <2>1, <2>2, <2>3, <2>4
  <1>9. Len(l) = Len(r)
    BY <1>1, <1>2, <1>3, <1>4, <1>7
  <1>10. l = r
    <2>1. PICK S : l \in Seq(S) /\ r \in Seq(S)
      BY <1>3, <1>7, CommonSet
    <2> QED BY <1>8, <1>9, <2>1, SeqEqual
  <1> QED BY <1>10 DEF l, r, a, st

\* No pieces.
LEMMA FlattenNone ==
    ASSUME NEW q, q = [k \in 1 .. 0 |-> q[k]] PROVE FlattenSeq(q) = << >> /\ Len(<< >>) = 0
  <1>1. IsSeq(q) /\ Len(q) = 0
    BY IntervalSeq
  <1>2. q = << >>
    <2>1. PICK S : q \in Seq(S)
      BY <1>1 DEF IsSeq
    <2> QED BY <1>1, <2>1, EmptySeq
  <1> QED BY <1>1, <1>2 DEF FlattenSeq

\* One piece more.
LEMMA FlattenMore ==
    ASSUME NEW n \in Nat, NEW q, NEW r, q = [k \in 1 .. n |-> q[k]], r = [k \in 1 .. n + 1 |-> r[k]],
           \A k \in 1 .. n : r[k] = q[k], IsSeq(r[n + 1])
    PROVE  FlattenSeq(r) = FlattenSeq(q) \o r[n + 1]
  <1>1. Len(q) = n /\ Len(r) = n + 1
    BY IntervalSeq
  <1>2. PICK k : Joins(r, n + 1, k)
    <2> DEFINE N == n + 1
    <2>1. N \in Nat \ {0} /\ Len(r) = N
      BY <1>1
    <2> HIDE DEF N
    <2>2. \E k : Joins(r, N, k)
      BY <2>1, FlattenSteps
    <2> QED BY <2>2 DEF N
  <1>3. CASE n = 0
    <2>1. FlattenSeq(q) = << >>
      BY <1>3, FlattenNone
    <2>2. FlattenSeq(r) = r[n + 1]
      BY <1>2, <1>3 DEF Joins
    <2>3. << >> \o r[n + 1] = r[n + 1]
      <3> DEFINE x == r[n + 1]
      <3>1. IsSeq(x)
        OBVIOUS
      <3> HIDE DEF x
      <3>2. << >> \o x = x
        BY <3>1, JoinSeq
      <3> QED BY <3>2 DEF x
    <2> QED BY <2>1, <2>2, <2>3
  <1>4. CASE n # 0
    <2>1. PICK h : Joins(q, n, h)
      BY <1>1, <1>4, FlattenSteps
    <2> DEFINE T == {m \in 1 .. n : h[m] # k[m]}
    <2>2. T = {}
      <3> SUFFICES ASSUME T # {} PROVE FALSE
        OBVIOUS
      <3>1. PICK m \in T : \A j \in T : m <= j
        <4>1. T \subseteq Nat
          OBVIOUS
        <4> HIDE DEF T
        <4> QED BY <4>1, InBucket!LeastNat
      <3>2. m \in 1 .. n /\ h[m] # k[m]
        BY <3>1
      <3>3. m # 1
        <4>1. h[1] = q[1]
          BY <2>1 DEF Joins
        <4>2. k[1] = r[1]
          BY <1>2 DEF Joins
        <4>3. 1 \in 1 .. n
          BY <1>4
        <4> HIDE DEF T
        <4> QED BY <3>2, <4>1, <4>2, <4>3
      <3>4. m \in 2 .. n /\ m \in 2 .. n + 1 /\ m - 1 \in 1 .. n /\ ~(m <= m - 1)
        BY <3>2, <3>3
      <3>5. h[m - 1] = k[m - 1]
        BY <3>1, <3>4
      <3> HIDE DEF T
      <3>6. h[m] = h[m - 1] \o q[m]
        BY <2>1, <3>4 DEF Joins
      <3>7. k[m] = k[m - 1] \o r[m]
        BY <1>2, <3>4 DEF Joins
      <3> QED BY <3>2, <3>5, <3>6, <3>7
    <2>3. h[n] = k[n]
      BY <1>4, <2>2
    <2>4. h[n] = FlattenSeq(q) /\ k[n + 1] = FlattenSeq(r)
      BY <1>2, <2>1 DEF Joins
    <2>5. k[n + 1] = k[n] \o r[n + 1]
      <3>1. n + 1 \in 2 .. n + 1 /\ n + 1 - 1 = n
        BY <1>4
      <3>2. \A m \in 2 .. n + 1 : k[m] = k[m - 1] \o r[m]
        BY <1>2 DEF Joins
      <3> DEFINE N == n + 1
      <3>3. N \in 2 .. N /\ N - 1 = n
        BY <3>1
      <3>4. \A m \in 2 .. N : k[m] = k[m - 1] \o r[m]
        BY <3>2
      <3> HIDE DEF N
      <3>5. k[N] = k[N - 1] \o r[N]
        BY <3>3, <3>4
      <3> QED BY <3>3, <3>5 DEF N
    <2> QED BY <2>3, <2>4, <2>5
  <1> QED BY <1>3, <1>4

\* Sequences put together are a sequence.
LEMMA FlattenIsSeq ==
    ASSUME NEW n \in Nat, NEW q, q = [k \in 1 .. n |-> q[k]], \A k \in 1 .. n : IsSeq(q[k])
    PROVE  IsSeq(FlattenSeq(q))
  <1>1. Len(q) = n
    BY IntervalSeq
  <1>2. CASE n = 0
    <2>1. FlattenSeq(q) = << >>
      BY <1>2, FlattenNone
    <2>2. << >> \in Seq({})
      OBVIOUS
    <2> QED BY <2>1, <2>2 DEF IsSeq
  <1>3. CASE n # 0
    <2>1. PICK h : Joins(q, n, h)
      BY <1>1, <1>3, FlattenSteps
    <2> DEFINE T == {m \in 1 .. n : ~IsSeq(h[m])}
    <2>2. T = {}
      <3> SUFFICES ASSUME T # {} PROVE FALSE
        OBVIOUS
      <3>1. PICK m \in T : \A j \in T : m <= j
        <4>1. T \subseteq Nat
          OBVIOUS
        <4> HIDE DEF T
        <4> QED BY <4>1, InBucket!LeastNat
      <3>2. m \in 1 .. n /\ ~IsSeq(h[m])
        BY <3>1
      <3>3. m # 1
        <4>1. h[1] = q[1] /\ IsSeq(q[1])
          BY <1>3, <2>1 DEF Joins
        <4> QED BY <3>2, <4>1
      <3>4. m \in 2 .. n /\ m - 1 \in 1 .. n /\ ~(m <= m - 1)
        BY <3>2, <3>3
      <3>5. IsSeq(h[m - 1])
        BY <3>1, <3>4
      <3> HIDE DEF T
      <3>6. h[m] = h[m - 1] \o q[m]
        BY <2>1, <3>4 DEF Joins
      <3>7. IsSeq(h[m - 1] \o q[m])
        BY <3>2, <3>5, JoinSeq
      <3> QED BY <3>2, <3>6, <3>7
    <2>3. IsSeq(h[n])
      BY <1>3, <2>2
    <2> QED BY <2>1, <2>3 DEF Joins
  <1> QED BY <1>2, <1>3

\* Two sequences, element by element.
LEMMA JoinElements ==
    ASSUME NEW S, NEW s \in Seq(S), NEW t \in Seq(S)
    PROVE  /\ s \o t \in Seq(S) /\ Len(s) \in Nat /\ Len(t) \in Nat
           /\ Len(s \o t) = Len(s) + Len(t)
           /\ \A i \in 1 .. Len(s) : (s \o t)[i] = s[i]
           /\ \A i \in 1 .. Len(t) : (s \o t)[Len(s) + i] = t[i]
  <1>1. /\ s \o t \in Seq(S) /\ Len(s \o t) = Len(s) + Len(t)
        /\ \A i \in 1 .. Len(s) + Len(t) :
              (s \o t)[i] = IF i <= Len(s) THEN s[i] ELSE t[i - Len(s)]
    BY ConcatProperties
  <1>2. Len(s) \in Nat /\ Len(t) \in Nat
    BY LenProperties
  <1> DEFINE st == s \o t
             m == Len(s)
             n == Len(t)
  <1>3. \A i \in 1 .. m + n : st[i] = IF i <= m THEN s[i] ELSE t[i - m]
    BY <1>1
  <1> HIDE DEF st
  <1>4. \A i \in 1 .. m : st[i] = s[i]
    BY <1>2, <1>3
  <1>5. ASSUME NEW i \in 1 .. n PROVE st[m + i] = t[i]
    <2>1. m + i \in 1 .. m + n /\ ~(m + i <= m) /\ m + i - m = i
      BY <1>2
    <2> QED BY <1>3, <2>1
  <1> QED BY <1>1, <1>2, <1>4, <1>5 DEF st

\* The first m chunks are the data up to the end of the last of them.
UpTo(data, s, m) ==
    /\ IsSeq(s) /\ Len(s) = EndOf(m, Len(data))
    /\ \A p \in 1 .. EndOf(m, Len(data)) : s[p] = data[p]

\* One chunk more.
LEMMA UpToMore ==
    ASSUME NEW S, NEW data \in Seq(S), NEW m \in 1 .. Len(Chunks(data)), NEW s, UpTo(data, s, m - 1)
    PROVE  UpTo(data, s \o Chunks(data)[m], m)
  <1> DEFINE n == Len(data)
             t == Chunks(data)[m]
             lo == EndOf(m - 1, n)
             hi == EndOf(m, n)
             st == s \o t
  <1>1. lo \in Nat /\ hi \in lo + 1 .. n /\ t \in Seq(S) /\ Len(t) = hi - lo
        /\ \A p \in 1 .. Len(t) : t[p] = data[lo + p]
    BY ChunksOf
  <1>2. IsSeq(s) /\ Len(s) = lo /\ \A p \in 1 .. lo : s[p] = data[p]
    BY DEF UpTo
  <1>3. n \in Nat
    BY LenProperties
  <1> HIDE DEF t, lo, hi, n, st
  <1>4. IsSeq(t)
    BY <1>1 DEF IsSeq
  <1>5. /\ IsSeq(st) /\ Len(st) = lo + Len(t)
        /\ (\A i \in 1 .. lo : st[i] = s[i]) /\ (\A i \in 1 .. Len(t) : st[lo + i] = t[i])
    <2>1. PICK A : s \in Seq(A) /\ t \in Seq(A)
      <3>1. \E A : s \in Seq(A) /\ t \in Seq(A) /\ t \in Seq(A)
        BY <1>2, <1>4, CommonSet
      <3> QED BY <3>1
    <2>2. /\ s \o t \in Seq(A) /\ Len(s \o t) = Len(s) + Len(t)
          /\ (\A i \in 1 .. Len(s) : (s \o t)[i] = s[i])
          /\ (\A i \in 1 .. Len(t) : (s \o t)[Len(s) + i] = t[i])
      BY <2>1, JoinElements
    <2> QED BY <1>2, <2>2 DEF st, IsSeq
  <1>6. Len(st) = hi
    BY <1>1, <1>3, <1>5
  <1>7. ASSUME NEW p \in 1 .. hi PROVE st[p] = data[p]
    <2>1. CASE p <= lo
      <3>1. p \in 1 .. lo
        BY <1>1, <2>1
      <3> QED BY <1>2, <1>5, <3>1
    <2>2. CASE p > lo
      <3> DEFINE i == p - lo
      <3>1. i \in 1 .. Len(t) /\ lo + i = p
        BY <1>1, <1>3, <2>2
      <3> HIDE DEF i
      <3>2. st[lo + i] = t[i] /\ t[i] = data[lo + i]
        BY <1>1, <1>5, <3>1
      <3> QED BY <3>1, <3>2
    <2> QED BY <1>1, <1>3, <2>1, <2>2
  <1> QED BY <1>5, <1>6, <1>7 DEF UpTo, st, t, lo, hi, n

\* Nothing is no chunk.
LEMMA UpToNone == ASSUME NEW S, NEW data \in Seq(S) PROVE UpTo(data, << >>, 0)
  <1>1. EndOf(0, Len(data)) = 0
    BY ChunksOf
  <1>2. << >> \in Seq({}) /\ Len(<< >>) = 0
    OBVIOUS
  <1> QED BY <1>1, <1>2 DEF UpTo, IsSeq

\* The chunks put together are the data.
LEMMA ChunksJoined ==
    ASSUME NEW S, NEW data \in Seq(S)
    PROVE  /\ FlattenSeq(Chunks(data)) = data
           /\ Len(Chunks(data)) = 0 => data = << >>
  <1> DEFINE q == Chunks(data)
             N == Len(q)
  <1>1. /\ N \in Nat /\ IsSeq(q) /\ EndOf(N, Len(data)) = Len(data)
        /\ \A k \in 1 .. N : q[k] \in Seq(S)
    BY ChunksOf
  <1>2. ASSUME NEW s, UpTo(data, s, N) PROVE s = data
    <2>1. IsSeq(s) /\ Len(s) = Len(data) /\ \A p \in 1 .. Len(data) : s[p] = data[p]
      BY <1>1, <1>2 DEF UpTo
    <2>2. IsSeq(data)
      BY DEF IsSeq
    <2>3. PICK A : s \in Seq(A) /\ data \in Seq(A)
      <3>1. \E A : s \in Seq(A) /\ data \in Seq(A) /\ data \in Seq(A)
        BY <2>1, <2>2, CommonSet
      <3> QED BY <3>1
    <2> QED BY <2>1, <2>3, SeqEqual
  <1>3. CASE N = 0
    <2>1. UpTo(data, << >>, N)
      BY <1>3, UpToNone
    <2>2. data = << >>
      BY <1>2, <2>1
    <2>3. q = << >>
      BY <1>1, <1>3, EmptyOrNot
    <2>4. FlattenSeq(q) = << >>
      <3>1. << >> = [k \in 1 .. 0 |-> << >>[k]]
        OBVIOUS
      <3> QED BY <2>3, <3>1, FlattenNone
    <2> QED BY <2>2, <2>4
  <1>4. CASE N # 0
    <2>1. PICK h : Joins(q, N, h)
      BY <1>1, <1>4, FlattenSteps
    <2> DEFINE T == {m \in 1 .. N : ~UpTo(data, h[m], m)}
    <2>2. T = {}
      <3> SUFFICES ASSUME T # {} PROVE FALSE
        OBVIOUS
      <3>1. PICK m \in T : \A j \in T : m <= j
        <4>1. T \subseteq Nat
          BY <1>1
        <4> HIDE DEF T
        <4> QED BY <4>1, InBucket!LeastNat
      <3>2. m \in 1 .. N /\ ~UpTo(data, h[m], m)
        BY <3>1
      <3>3. m # 1
        <4> SUFFICES ASSUME m = 1 PROVE FALSE
          OBVIOUS
        <4>1. UpTo(data, << >> \o q[m], m)
          <5>1. m - 1 = 0
            OBVIOUS
          <5>2. UpTo(data, << >>, m - 1)
            BY <5>1, UpToNone
          <5> QED BY <3>2, <5>2, UpToMore
        <4>2. << >> \o q[m] = q[m]
          <5> DEFINE x == q[m]
          <5>1. x \in Seq(S)
            BY <1>1, <3>2
          <5> HIDE DEF x
          <5>2. << >> \o x = x
            BY <5>1, ConcatEmptySeq
          <5> QED BY <5>2 DEF x
        <4>3. h[m] = q[m]
          BY <2>1 DEF Joins
        <4> QED BY <3>2, <4>1, <4>2, <4>3
      <3>4. m \in 2 .. N /\ m - 1 \in 1 .. N /\ ~(m <= m - 1)
        BY <1>1, <3>2, <3>3
      <3>5. UpTo(data, h[m - 1], m - 1)
        BY <3>1, <3>4
      <3> HIDE DEF T
      <3>6. h[m] = h[m - 1] \o q[m]
        BY <2>1, <3>4 DEF Joins
      <3>7. UpTo(data, h[m - 1] \o q[m], m)
        BY <3>2, <3>5, UpToMore
      <3> QED BY <3>2, <3>6, <3>7
    <2>3. UpTo(data, h[N], N)
      <3>1. N \in 1 .. N
        BY <1>1, <1>4
      <3> QED BY <2>2, <3>1
    <2>4. h[N] = data
      BY <1>2, <2>3
    <2> QED BY <1>4, <2>1, <2>4 DEF Joins
  <1> QED BY <1>3, <1>4

\* And as large.
LEMMA ChunksTotal == ASSUME NEW S, NEW data \in Seq(S) PROVE Total(Chunks(data)) = Len(data)
  <1> DEFINE q == Chunks(data)
             N == Len(q)
             Upto(m) == [k \in 1 .. m |-> q[k]]
             n == Len(data)
  <1>1. /\ N \in Nat /\ q = [k \in 1 .. N |-> q[k]] /\ EndOf(0, n) = 0 /\ EndOf(N, n) = n
        /\ \A k \in 1 .. N : /\ EndOf(k - 1, n) \in Nat /\ EndOf(k, n) \in EndOf(k - 1, n) + 1 .. n
                             /\ Len(q[k]) = EndOf(k, n) - EndOf(k - 1, n)
    <2>1. /\ N \in Nat /\ EndOf(0, n) = 0 /\ EndOf(N, n) = n
          /\ \A k \in 1 .. N : /\ EndOf(k - 1, n) \in Nat /\ EndOf(k, n) \in EndOf(k - 1, n) + 1 .. n
                               /\ Len(q[k]) = EndOf(k, n) - EndOf(k - 1, n)
      BY ChunksOf
    <2>2. q = [k \in DOMAIN q |-> q[k]]
      BY DEF Chunks
    <2>3. DOMAIN q = 1 .. N
      BY ChunksOf
    <2> QED BY <2>1, <2>2, <2>3
  <1>2. n \in Nat
    BY LenProperties
  <1> HIDE DEF q, N, n
  <1> DEFINE T == {m \in 0 .. N : Total(Upto(m)) # EndOf(m, n)}
  <1>3. T = {}
    <2> SUFFICES ASSUME T # {} PROVE FALSE
      OBVIOUS
    <2>1. PICK m \in T : \A j \in T : m <= j
      <3>1. T \subseteq Nat
        BY <1>1
      <3> HIDE DEF T
      <3> QED BY <3>1, InBucket!LeastNat
    <2>2. m \in 0 .. N /\ Total(Upto(m)) # EndOf(m, n)
      BY <2>1
    <2>3. m # 0
      <3> SUFFICES ASSUME m = 0 PROVE FALSE
        OBVIOUS
      <3>1. DOMAIN Upto(m) = 1 .. 0
        OBVIOUS
      <3> HIDE DEF Upto, T
      <3> QED BY <1>1, <2>2, <3>1, TotalOfNone
    <2> DEFINE l == m - 1
    <2>4. l \in 0 .. N /\ l \in Nat /\ m = l + 1 /\ m \in 1 .. N /\ ~(m <= l)
      BY <1>1, <2>2, <2>3
    <2>5. Total(Upto(l)) = EndOf(l, n)
      <3> HIDE DEF l
      <3> QED BY <2>1, <2>4
    <2>6. Total(Upto(m)) = Total(Upto(l)) + Len(Upto(m)[m])
      <3> HIDE DEF l
      <3>1. DOMAIN Upto(l) = 1 .. l /\ DOMAIN Upto(m) = 1 .. l + 1
            /\ \A i \in 1 .. l : Upto(m)[i] = Upto(l)[i]
        BY <2>4
      <3> HIDE DEF Upto, T
      <3> QED BY <2>4, <3>1, TotalOfMore
    <2>7. Upto(m)[m] = q[m]
      BY <2>4
    <2>8. /\ EndOf(l, n) \in Nat /\ EndOf(m, n) \in EndOf(l, n) + 1 .. n
          /\ Len(q[m]) = EndOf(m, n) - EndOf(l, n)
      BY <1>1, <2>4
    <2> HIDE DEF Upto, T, l
    <2> QED BY <1>2, <2>2, <2>5, <2>6, <2>7, <2>8
  <1>4. Total(Upto(N)) = EndOf(N, n)
    BY <1>1, <1>3
  <1>5. Upto(N) = q
    BY <1>1
  <1> QED BY <1>1, <1>4, <1>5 DEF q, n

------------------------------------------------------------------------------
(* The ranges of the files.                                                *)

\* e has the range of a file with this content, in the first n blocks w.
RangeOk(data, e, w, n) ==
    /\ e.chunk_start_idx \in Nat /\ e.chunk_count \in Nat /\ e.chunk_count = Len(Chunks(data))
    /\ e.chunk_start_idx + e.chunk_count <= n
    /\ \A k \in 1 .. e.chunk_count : w[e.chunk_start_idx + k] = Chunks(data)[k]

RangeOf(i) == RangeOk(input[i].data, entries[i], Written, block_id_counter)

\* File k of group g comes before the cursor.
Behind(c, g, k) == g < c.g \/ (g = c.g /\ k < c.f)

\* The files behind it have their ranges.
Filed(c) ==
    \A g \in 1 .. Len(groups) : \A k \in 1 .. Len(groups[g].indices) :
       Behind(c, g, k) => RangeOf(groups[g].indices[k])

\* The blocks of the file at the cursor are the last ones.
FilePart ==
    cur.g <= Len(groups) /\ cur.f <= Len(results[cur.g]) =>
       \A k \in 1 .. cur.b - 1 : Written[global_chunk_idx + k] = Current.blocks[k]

Finishing == pc \in {"patch_header", "patch_files", "done"}

Ranges ==
    /\ Writing => Filed(cur) /\ FilePart
    /\ Finishing => \A i \in 1 .. Len(entries) : RangeOf(i)

\* A range stays when blocks are added.
LEMMA RangeStays ==
    ASSUME NEW data, NEW e, NEW w, NEW v, NEW n \in Nat, NEW m \in Nat, n <= m,
           \A b \in 1 .. n : v[b] = w[b], RangeOk(data, e, w, n)
    PROVE  RangeOk(data, e, v, m)
  <1> DEFINE s == e.chunk_start_idx
             y == e.chunk_count
  <1>1. /\ s \in Nat /\ y \in Nat /\ y = Len(Chunks(data)) /\ s + y <= n
        /\ \A k \in 1 .. y : w[s + k] = Chunks(data)[k]
    BY DEF RangeOk
  <1> HIDE DEF s, y
  <1>2. \A k \in 1 .. y : s + k \in 1 .. n
    BY <1>1
  <1>3. \A k \in 1 .. y : v[s + k] = Chunks(data)[k]
    BY <1>1, <1>2
  <1>4. s + y <= m
    BY <1>1
  <1> QED BY <1>1, <1>3, <1>4 DEF RangeOk, s, y

\* A range that is set, of one file only.
LEMMA NewRange ==
    ASSUME IInv, NEW i \in DOMAIN entries, NEW x, NEW y,
           entries' = [entries EXCEPT ![i].chunk_start_idx = x, ![i].chunk_count = y]
    PROVE  /\ entries'[i].chunk_start_idx = x /\ entries'[i].chunk_count = y
           /\ \A j \in DOMAIN entries : j # i => entries'[j] = entries[j]
  <1> DEFINE d == entries[i]
             e == [d EXCEPT !.chunk_start_idx = x]
             f == [e EXCEPT !.chunk_count = y]
  <1>1. EntryOf(call, i, d)
    BY Sizes DEF IInv, Tables
  <1>2. entries' = [entries EXCEPT ![i] = f]
    OBVIOUS
  <1>3. f.chunk_start_idx = x /\ f.chunk_count = y
    <2> HIDE DEF d
    <2>1. /\ "chunk_start_idx" \in DOMAIN d /\ "chunk_count" \in DOMAIN d
      BY <1>1 DEF EntryOf
    <2> QED BY <2>1
  <1> HIDE DEF f
  <1> QED BY <1>2, <1>3

\* The files behind the cursor after a step: those before and the files X.
LEMMA FiledMore ==
    ASSUME Filed(cur), groups' = groups, PlanOk(call, groups), NEW X,
           \A i \in DOMAIN input : i \notin X /\ RangeOf(i) => RangeOf(i)',
           \A i \in X : RangeOf(i)',
           \A g \in 1 .. Len(groups) : \A k \in 1 .. Len(groups[g].indices) :
              Behind(cur', g, k) => Behind(cur, g, k) \/ groups[g].indices[k] \in X
    PROVE  Filed(cur)'
  <1> SUFFICES ASSUME NEW g \in 1 .. Len(groups), NEW k \in 1 .. Len(groups[g].indices),
                      Behind(cur', g, k), NEW i, i = groups[g].indices[k]
               PROVE  RangeOf(i)'
    BY DEF Filed, Behind, RangeOf
  <1>1. i \in DOMAIN input
    BY DEF PlanOk, input
  <1>2. i \in X \/ RangeOf(i)
    BY DEF Filed
  <1> QED BY <1>1, <1>2

\* A step that leaves the blocks, the ranges and the place in them as they are.
LEMMA RangesQuiet ==
    ASSUME IInv, Image, Ranges, DiskStep, SameSizes, UNCHANGED <<entries, block_id_counter>>,
           Writing' => Writing /\ UNCHANGED <<cur, results, global_chunk_idx>>,
           Finishing' => Finishing
    PROVE  Ranges'
  <1>1. Written' = Written /\ UNCHANGED <<call, groups>>
    BY WrittenKept DEF SameSizes
  <1>2. \A i : RangeOf(i)' <=> RangeOf(i)
    BY <1>1 DEF RangeOf, input
  <1>3. Writing' => Filed(cur)' /\ FilePart'
    BY <1>1, <1>2 DEF Ranges, Filed, FilePart, Current
  <1>4. Finishing' => \A i \in 1 .. Len(entries') : RangeOf(i)'
    BY <1>2 DEF Ranges
  <1> QED BY <1>3, <1>4 DEF Ranges

\* A step before the blocks, or a failure.
LEMMA RangesElsewhere == ASSUME ~Writing', ~Finishing' PROVE Ranges'
  BY DEF Ranges

\* What the end of a block adds.
LEMMA TrailerWritten ==
    ASSUME IInv, Plan, Image, WriteTrailer
    PROVE  /\ pc = "trailer" /\ pc' = "blocks" /\ SameSizes
           /\ block_id_counter \in Nat /\ block_id_counter' = block_id_counter + 1
           /\ DOMAIN Written = 1 .. block_id_counter
           /\ DOMAIN Written' = 1 .. block_id_counter + 1
           /\ \A b \in 1 .. block_id_counter : Written'[b] = Written[b]
           /\ Written'[block_id_counter + 1] = CurrentChunk
           /\ cur'.g = cur.g /\ cur'.f = cur.f /\ cur'.b = cur.b + 1 /\ cur'.first = cur.first
  <1> DEFINE n == block_id_counter
             rec == [k |-> "btrl", content_blake3 |-> CurrentChunk]
  <1>1. /\ pc = "trailer" /\ pc' = "blocks" /\ disk' = Append(disk, rec)
        /\ block_id_counter' = n + 1 /\ cur' = [cur EXCEPT !.b = @ + 1]
    BY DEF WriteTrailer, Append1, NextBlockId
  <1>2. SameSizes /\ TablesEnd' = TablesEnd /\ \A j \in 1 .. Len(disk) : disk'[j] = disk[j]
    <2> HIDE DEF rec
    <2> QED BY <1>1, WriteTrailerOk, BlockStep DEF Writing
  <1>3. /\ TablesEnd \in Nat /\ n \in Nat /\ Len(disk) = TablesEnd + 3 * n + 2
        /\ disk[TablesEnd + 3 * n + 2].data = CurrentChunk
    BY <1>1, Ends DEF Image, Stages, BodyOk
  <1>4. cur'.g = cur.g /\ cur'.f = cur.f /\ cur'.b = cur.b + 1 /\ cur'.first = cur.first
    <2> DEFINE w == cur.b + 1
    <2>1. ToBlock(cur, w, cur') /\ IsCursor(cur)
      BY <1>1 DEF Plan, ToBlock
    <2> HIDE DEF w
    <2>2. cur'.g = cur.g /\ cur'.f = cur.f /\ cur'.b = w /\ cur'.first = cur.first
      BY <2>1, CursorToBlock
    <2> QED BY <2>2 DEF w
  <1>5. DOMAIN Written = 1 .. n /\ DOMAIN Written' = 1 .. n + 1
    BY <1>1 DEF Written
  <1>6. ASSUME NEW b \in 1 .. n PROVE Written'[b] = Written[b]
    <2>1. TablesEnd + 3 * (b - 1) + 2 \in 1 .. Len(disk)
      BY <1>3
    <2>2. b \in 1 .. n + 1
      BY <1>3
    <2> QED BY <1>1, <1>2, <2>1, <2>2 DEF Written
  <1>7. Written'[n + 1] = CurrentChunk
    <2>1. TablesEnd + 3 * (n + 1 - 1) + 2 = TablesEnd + 3 * n + 2 /\ n + 1 \in 1 .. n + 1
          /\ TablesEnd + 3 * n + 2 \in 1 .. Len(disk)
      BY <1>3
    <2> QED BY <1>1, <1>2, <1>3, <2>1 DEF Written
  <1> QED BY <1>1, <1>2, <1>3, <1>4, <1>5, <1>6, <1>7

\* A finished block belongs to the file at the cursor.
LEMMA RangesWriteTrailer == ASSUME IInv, Plan, Image, Ranges, WriteTrailer PROVE Ranges'
  <1> DEFINE n == block_id_counter
             i == Current.file_idx
  <1>1. /\ pc = "trailer" /\ pc' = "blocks" /\ SameSizes /\ n \in Nat /\ block_id_counter' = n + 1
        /\ \A b \in 1 .. n : Written'[b] = Written[b]
        /\ Written'[n + 1] = CurrentChunk
        /\ cur'.g = cur.g /\ cur'.f = cur.f /\ cur'.b = cur.b + 1
    BY TrailerWritten
  <1>2. UNCHANGED <<call, entries, groups, results, global_chunk_idx>>
    BY DEF WriteTrailer
  <1>3. Filed(cur) /\ FilePart
    BY <1>1 DEF Ranges, Writing
  <1>4. PlanOk(call, groups)
    BY Planned DEF Plan
  <1>5. ASSUME NEW j, RangeOf(j) PROVE RangeOf(j)'
    <2> DEFINE m == n + 1
               w == Written
               v == Written'
    <2>1. RangeOk(input[j].data, entries[j], w, n) /\ m \in Nat /\ n <= m
          /\ \A b \in 1 .. n : v[b] = w[b]
      BY <1>1, <1>5 DEF RangeOf
    <2> HIDE DEF m, w, v, n
    <2>2. RangeOk(input[j].data, entries[j], v, m)
      <3>1. n \in Nat
        BY <1>1
      <3> QED BY <2>1, <3>1, RangeStays
    <2> QED BY <1>1, <1>2, <2>2 DEF RangeOf, input, v, m
  <1>6. Filed(cur)'
    <2> DEFINE X == {}
    <2>1. \A h \in 1 .. Len(groups) : \A k \in 1 .. Len(groups[h].indices) :
             Behind(cur', h, k) => Behind(cur, h, k) \/ groups[h].indices[k] \in X
      BY <1>1 DEF Behind
    <2>2. \A j \in DOMAIN input : j \notin X /\ RangeOf(j) => RangeOf(j)'
      BY <1>5
    <2>3. groups' = groups /\ \A j \in X : RangeOf(j)'
      BY <1>2
    <2> HIDE DEF X
    <2> QED BY <1>3, <1>4, <2>1, <2>2, <2>3, FiledMore
  <1>7. FilePart'
    <2> SUFFICES ASSUME NEW k \in 1 .. cur'.b - 1
                 PROVE  Written'[global_chunk_idx + k] = Current.blocks[k]
      BY <1>1, <1>2 DEF FilePart, Current
    <2>1. /\ cur.g <= Len(groups) /\ cur.f <= Len(results[cur.g])
          /\ global_chunk_idx \in Nat /\ cur.b \in Nat \ {0} /\ n = global_chunk_idx + cur.b - 1
      <3>1. CursorOk /\ AtBlock
        BY <1>1 DEF Plan, Cursor, Writing
      <3>2. cur.b \in 1 .. Len(Current.blocks)
        BY <1>1, ChunkAtCursor
      <3> QED BY <3>1, <3>2 DEF CursorOk, AtBlock
    <2>2. CASE k = cur.b
      <3>1. global_chunk_idx + k = n + 1
        BY <2>1, <2>2
      <3> QED BY <1>1, <2>2, <3>1 DEF CurrentChunk
    <2>3. CASE k # cur.b
      <3>1. k \in 1 .. cur.b - 1 /\ global_chunk_idx + k \in 1 .. n
        <4>1. cur'.b = cur.b + 1 /\ n \in Nat
          BY <1>1
        <4> HIDE DEF n
        <4>2. k \in 1 .. cur.b - 1
          BY <2>1, <2>3, <4>1
        <4> QED BY <2>1, <4>1, <4>2
      <3> QED BY <1>1, <1>3, <2>1, <3>1 DEF FilePart
    <2> QED BY <2>2, <2>3
  <1> QED BY <1>1, <1>6, <1>7 DEF Ranges, Finishing

\* Nothing is behind the start.
LEMMA RangesJoinGroups == ASSUME IInv, Plan, JoinGroups PROVE Ranges'
  <1>1. pc' = "blocks" /\ cur' = Start /\ groups' = groups
    BY DEF JoinGroups
  <1>2. cur'.g = 1 /\ cur'.f = 1 /\ cur'.b = 1
    BY <1>1 DEF Start
  <1>3. \A g \in 1 .. Len(groups) : \A k \in 1 .. Len(groups[g].indices) : ~Behind(cur', g, k)
    BY <1>2 DEF Behind
  <1>4. Filed(cur)'
    BY <1>1, <1>3 DEF Filed, Behind
  <1>5. FilePart'
    BY <1>2 DEF FilePart
  <1> QED BY <1>1, <1>4, <1>5 DEF Ranges, Finishing

\* The file at the cursor is done, with this range.
LEMMA RangesNextFile ==
    ASSUME IInv, Plan, Ranges, AtFile, NextFile, pc' = pc, disk' = disk, NEW x, NEW y,
           UNCHANGED <<call, groups, results, block_id_counter>>,
           entries' = [entries EXCEPT ![Current.file_idx].chunk_start_idx = x,
                                      ![Current.file_idx].chunk_count = y],
           Len(entries') = Len(entries),
           \A e : e.chunk_start_idx = x /\ e.chunk_count = y =>
              RangeOk(input[Current.file_idx].data, e, Written, block_id_counter)
    PROVE  Ranges'
  <1> DEFINE i == Current.file_idx
  <1>1. pc = "blocks" /\ Filed(cur)
    BY DEF AtFile, Ranges, Writing
  <1>2. /\ cur.g \in 1 .. Len(groups) /\ cur.f \in 1 .. Len(results[cur.g])
        /\ i = groups[cur.g].indices[cur.f] /\ i \in DOMAIN input
        /\ cur'.g = cur.g /\ cur'.f = cur.f + 1 /\ cur'.b = 1
    <2> DEFINE g == cur.g
               k == cur.f
               v == cur.f + 1
    <2>1. g \in 1 .. Len(groups) /\ k \in 1 .. Len(results[g]) /\ Current = results[g][k]
          /\ i \in DOMAIN input
      BY AtCurrent
    <2>2. ToFile(cur, v, 1, cur') /\ IsCursor(cur)
      BY DEF NextFile, Plan, ToFile
    <2> HIDE DEF g, k, v
    <2>3. results[g][k].file_idx = groups[g].indices[k]
      BY <2>1, ResultAt
    <2>4. cur'.g = cur.g /\ cur'.f = v /\ cur'.b = 1
      BY <2>2, CursorToFile
    <2> QED BY <2>1, <2>3, <2>4 DEF g, k, v
  <1>3. i \in DOMAIN entries /\ DOMAIN entries = DOMAIN input
    BY <1>1, <1>2, Sizes DEF IInv, Phases
  <1>4. /\ entries'[i].chunk_start_idx = x /\ entries'[i].chunk_count = y
        /\ \A j \in DOMAIN entries : j # i => entries'[j] = entries[j]
    <2> HIDE DEF i
    <2> QED BY <1>3, NewRange DEF i
  <1>5. Written' = Written
    BY DEF Written, TablesEnd, Offset
  <1>6. RangeOk(input[i].data, entries'[i], Written, block_id_counter)
    <2> HIDE DEF i
    <2> QED BY <1>4 DEF i
  <1>7. PlanOk(call, groups)
    BY Planned DEF Plan
  <1> DEFINE X == {j \in DOMAIN input : j = i}
  <1>8. \A j \in DOMAIN input : j \notin X /\ RangeOf(j) => RangeOf(j)'
    <2> HIDE DEF i
    <2>1. \A j \in DOMAIN input : j \notin X => entries'[j] = entries[j]
      BY <1>3, <1>4
    <2> QED BY <1>5, <2>1 DEF RangeOf, input
  <1>9. \A j \in X : RangeOf(j)'
    <2> SUFFICES ASSUME NEW j \in X PROVE RangeOf(j)'
      OBVIOUS
    <2>1. j = i
      OBVIOUS
    <2> HIDE DEF i, X
    <2> QED BY <1>5, <1>6, <2>1 DEF RangeOf, input
  <1>10. \A g \in 1 .. Len(groups) : \A k \in 1 .. Len(groups[g].indices) :
            Behind(cur', g, k) => Behind(cur, g, k) \/ groups[g].indices[k] \in X
    <2> SUFFICES ASSUME NEW g \in 1 .. Len(groups), NEW k \in 1 .. Len(groups[g].indices),
                        Behind(cur', g, k), ~Behind(cur, g, k)
                 PROVE  groups[g].indices[k] = i
      BY <1>2
    <2>1. Len(results[cur.g]) \in Nat
      BY <1>2, SeqDomain DEF Plan, Results, RowOk
    <2> HIDE DEF i, X
    <2>2. cur.g \in Int /\ cur.f \in Int
      BY <1>2
    <2>3. g = cur.g
      BY <1>2, <2>2 DEF Behind
    <2>4. k < cur.f + 1 /\ ~(k < cur.f)
      BY <1>2, <2>3 DEF Behind
    <2>5. k = cur.f
      BY <2>2, <2>4
    <2> QED BY <1>2, <2>3, <2>5
  <1>11. Filed(cur)'
    <2> HIDE DEF X, i
    <2> QED BY <1>1, <1>7, <1>8, <1>9, <1>10, FiledMore
  <1>12. FilePart'
    <2>0. cur'.b = 1
      BY <1>2
    <2>1. 1 .. cur'.b - 1 = {}
      <3> HIDE DEF i, X
      <3> DEFINE v == cur'.b
      <3>1. v = 1
        BY <2>0
      <3> HIDE DEF v
      <3>2. 1 .. v - 1 = {}
        BY <3>1
      <3> QED BY <3>2 DEF v
    <2> QED BY <2>1 DEF FilePart
  <1> QED BY <1>1, <1>11, <1>12 DEF Ranges, Finishing

\* A file that was chunked: its blocks are the last ones.
LEMMA RangesEndFile == ASSUME IInv, Plan, Image, Ranges, EndFile PROVE Ranges'
  <1> DEFINE x == global_chunk_idx
             y == Len(Current.blocks)
             data == input[Current.file_idx].data
  <1>1. /\ AtFile /\ NextFile /\ pc' = pc /\ disk' = disk
        /\ UNCHANGED <<call, groups, results, block_id_counter>>
        /\ entries' = [entries EXCEPT ![Current.file_idx].chunk_start_idx = x,
                                      ![Current.file_idx].chunk_count = y]
        /\ Current.dup_of = 0 /\ cur.b > Len(Current.blocks)
    BY DEF EndFile
  <1>2. Len(entries') = Len(entries)
    BY EndFileOk, KeptSizes DEF StepOk, SameSizes
  <1>3. /\ y \in Nat /\ cur.b = y + 1 /\ x \in Nat /\ block_id_counter = x + y
        /\ Current.blocks = Chunks(data)
    <2>1. /\ Blocks = y /\ Blocks \in Nat /\ cur.b \in 1 .. Blocks + 1 /\ x \in Nat
          /\ block_id_counter = x + cur.b - 1 /\ Current.blocks = Chunks(data)
      BY <1>1, AtCurrent
    <2>2. cur.b = y + 1
      BY <1>1, <2>1
    <2> HIDE DEF x, y, data
    <2> QED BY <2>1, <2>2
  <1>4. \A k \in 1 .. y : Written[x + k] = Chunks(data)[k]
    <2>1. FilePart
      BY <1>1 DEF AtFile, Ranges, Writing
    <2>2. cur.g <= Len(groups) /\ cur.f <= Len(results[cur.g])
      BY <1>1 DEF AtFile
    <2>3. cur.b - 1 = y
      BY <1>3
    <2> HIDE DEF y, data, x
    <2> QED BY <1>3, <2>1, <2>2, <2>3 DEF FilePart, x
  <1>5. \A e : e.chunk_start_idx = x /\ e.chunk_count = y => RangeOk(data, e, Written, block_id_counter)
    <2>1. y = Len(Chunks(data)) /\ x + y <= block_id_counter
      BY <1>3
    <2> HIDE DEF x, y, data
    <2> QED BY <1>3, <1>4, <2>1 DEF RangeOk
  <1> HIDE DEF x, y
  <1> QED BY <1>1, <1>2, <1>5, RangesNextFile

\* A duplicate has the range of the first file of the group with its content.
LEMMA RangesShareBlocks == ASSUME IInv, Plan, Image, Ranges, ShareBlocks PROVE Ranges'
  <1> DEFINE d == Current.dup_of
             x == entries[d].chunk_start_idx
             y == entries[d].chunk_count
             data == input[Current.file_idx].data
  <1>1. /\ AtFile /\ NextFile /\ pc' = pc /\ disk' = disk /\ d # 0
        /\ UNCHANGED <<call, groups, results, block_id_counter>>
        /\ entries' = [entries EXCEPT ![Current.file_idx].chunk_start_idx = x,
                                      ![Current.file_idx].chunk_count = y]
    BY DEF ShareBlocks, counters
  <1>2. Len(entries') = Len(entries)
    BY ShareBlocksOk, KeptSizes DEF StepOk, SameSizes
  <1>3. input[d].data = data /\ RangeOf(d)
    <2> DEFINE g == cur.g
               k == cur.f
               s == groups[g].indices
    <2>1. g \in 1 .. Len(groups) /\ k \in 1 .. Len(results[g]) /\ Current = results[g][k]
      BY <1>1, AtCurrent
    <2> HIDE DEF g, k
    <2>2. k \in 1 .. Len(s) /\ Len(s) \in Nat
      BY <2>1, ResultAt
    <2>3. RowOk(call, s, results[g])
      BY <2>1 DEF Plan, Results
    <2>4. ResultOk(call, s, results[g], k)
      BY <2>1, <2>3 DEF RowOk
    <2>5. Current.file_idx = s[k]
      BY <2>1, <2>4 DEF ResultOk
    <2>6. PICK j \in 1 .. k - 1 : d = s[j] /\ call.files[s[j]].data = call.files[s[k]].data
      BY <1>1, <2>1, <2>4 DEF ResultOk
    <2>7. Behind(cur, g, j) /\ j \in 1 .. Len(s)
      BY <2>2, <2>6 DEF Behind, g, k
    <2>8. Filed(cur)
      BY <1>1 DEF AtFile, Ranges, Writing
    <2>9. RangeOf(s[j])
      BY <2>1, <2>7, <2>8 DEF Filed
    <2>10. RangeOf(d)
      <3> HIDE DEF d
      <3> QED BY <2>6, <2>9
    <2> QED BY <2>5, <2>6, <2>10 DEF input
  <1>4. \A e : e.chunk_start_idx = x /\ e.chunk_count = y => RangeOk(data, e, Written, block_id_counter)
    <2> HIDE DEF data, d
    <2> QED BY <1>3 DEF RangeOf, RangeOk
  <1> HIDE DEF d, x, y, data
  <1>5. /\ AtFile /\ NextFile /\ pc' = pc /\ disk' = disk
        /\ UNCHANGED <<call, groups, results, block_id_counter>>
        /\ entries' = [entries EXCEPT ![Current.file_idx].chunk_start_idx = x,
                                      ![Current.file_idx].chunk_count = y]
    BY <1>1
  <1> USE DEF data
  <1> QED BY <1>2, <1>4, <1>5, RangesNextFile

\* The end of a group is behind its last file.
LEMMA RangesEndGroup == ASSUME IInv, Plan, Ranges, EndGroup PROVE Ranges'
  <1>1. /\ pc = "blocks" /\ pc' = pc /\ disk' = disk
        /\ cur.g <= Len(groups) /\ cur.f > Len(results[cur.g])
        /\ cur' = [g |-> cur.g + 1, f |-> 1, b |-> 1, first |-> block_id_counter]
        /\ UNCHANGED <<call, entries, groups, results, block_id_counter>>
    BY DEF EndGroup, EnterGroup, counters
  <1>2. CursorOk /\ Joined /\ Filed(cur)
    BY <1>1 DEF Plan, Cursor, Ranges, Writing
  <1>3. cur.g \in 1 .. Len(groups) /\ cur.f \in Nat
    <2>1. cur.g \in 1 .. Len(groups) + 1 /\ cur.f \in Nat
      BY <1>2 DEF CursorOk
    <2>2. cur.g <= Len(groups) /\ Len(groups) \in Nat
      BY <1>1, Sizes
    <2> QED BY <2>1, <2>2
  <1>4. Len(results[cur.g]) = Len(groups[cur.g].indices) /\ Len(results[cur.g]) \in Nat
    BY <1>1, <1>2, <1>3, SeqDomain DEF Joined, Writing, Plan, Results, RowOk
  <1>5. \A g \in 1 .. Len(groups) : \A k \in 1 .. Len(groups[g].indices) :
           Behind(cur', g, k) => Behind(cur, g, k)
    <2> SUFFICES ASSUME NEW g \in 1 .. Len(groups), NEW k \in 1 .. Len(groups[g].indices),
                        Behind(cur', g, k)
                 PROVE  Behind(cur, g, k)
      OBVIOUS
    <2>1. cur'.g = cur.g + 1 /\ cur'.f = 1
      BY <1>1
    <2>2. g <= cur.g
      BY <1>3, <2>1 DEF Behind
    <2>3. CASE g < cur.g
      BY <2>3 DEF Behind
    <2>4. CASE g = cur.g
      <3>1. k < cur.f
        BY <1>1, <1>3, <1>4, <2>4
      <3> QED BY <2>4, <3>1 DEF Behind
    <2> QED BY <1>3, <2>2, <2>3, <2>4
  <1>6. Written' = Written
    BY <1>1 DEF Written, TablesEnd, Offset
  <1>7. \A i : RangeOf(i)' <=> RangeOf(i)
    BY <1>1, <1>6 DEF RangeOf, input
  <1>8. Filed(cur)'
    BY <1>1, <1>2, <1>5, <1>7 DEF Filed, Behind, RangeOf
  <1>9. FilePart'
    BY <1>1 DEF FilePart
  <1> QED BY <1>1, <1>8, <1>9 DEF Ranges, Finishing

\* When the footer is written, every file has been passed.
LEMMA RangesWriteFooter == ASSUME IInv, Plan, Image, Ranges, WriteFooter PROVE Ranges'
  <1>1. /\ pc = "blocks" /\ cur.g > Len(groups) /\ pc' = "patch_header"
        /\ UNCHANGED <<call, entries, groups, block_id_counter>>
    BY DEF WriteFooter, counters
  <1>2. Written' = Written
    BY <1>1, WriteFooterOk, KeptSizes, WrittenKept DEF StepOk
  <1>3. Filed(cur) /\ CursorOk /\ Len(groups) \in Nat
    BY <1>1, Sizes DEF Plan, Cursor, Ranges, Writing
  <1>4. PlanWhole(call, groups)
    BY <1>1, Planned DEF Plan
  <1>5. ASSUME NEW i \in 1 .. Len(entries) PROVE RangeOf(i)
    <2>1. i \in DOMAIN call.files
      BY <1>1, Sizes DEF IInv, Phases, input
    <2>2. PICK g \in 1 .. Len(groups) : \E k \in 1 .. Len(groups[g].indices) : groups[g].indices[k] = i
      BY <1>4, <2>1 DEF PlanWhole
    <2>3. PICK k \in 1 .. Len(groups[g].indices) : groups[g].indices[k] = i
      BY <2>2
    <2>4. Behind(cur, g, k)
      BY <1>1, <1>3 DEF Behind, CursorOk
    <2> QED BY <1>3, <2>3, <2>4 DEF Filed
  <1>6. \A i : RangeOf(i)' <=> RangeOf(i)
    BY <1>1, <1>2 DEF RangeOf, input
  <1> QED BY <1>1, <1>5, <1>6 DEF Ranges, Writing

\* The steps that leave the blocks and the place in them as they are.
LEMMA RangesQuietSteps ==
    ASSUME IInv, Image, Ranges,
           \/ WriteBlockHeader \/ WritePayload \/ WriteIndexEntry \/ TearHeader \/ PatchHeader
           \/ PatchChunkStart \/ PatchChunkCount \/ PatchGroupEntry \/ Finish
    PROVE  Ranges'
  <1>1. StepOk
    BY WriteBlockHeaderOk, WritePayloadOk, WriteIndexEntryOk, TearHeaderOk, PatchHeaderOk,
       PatchChunkStartOk, PatchChunkCountOk, PatchGroupEntryOk, FinishOk
  <1>2. DiskStep /\ SameSizes
    BY <1>1, KeptSizes DEF StepOk
  <1>3. UNCHANGED <<entries, block_id_counter>>
    BY DEF WriteBlockHeader, WritePayload, WriteIndexEntry, TearHeader, PatchHeader,
       PatchChunkStart, PatchChunkCount, PatchGroupEntry, Finish, counters
  <1>4. CASE WriteBlockHeader \/ WritePayload \/ WriteIndexEntry
    <2>1. Writing /\ ~Finishing' /\ UNCHANGED <<cur, results, global_chunk_idx>>
      BY <1>4 DEF WriteBlockHeader, WritePayload, WriteIndexEntry, AtFile, Writing, Finishing,
         counters
    <2> QED BY <1>2, <1>3, <2>1, RangesQuiet
  <1>5. CASE TearHeader \/ PatchHeader \/ PatchChunkStart \/ PatchChunkCount \/ PatchGroupEntry
             \/ Finish
    <2>1. Finishing /\ ~Writing'
      BY <1>5 DEF TearHeader, PatchHeader, PatchChunkStart, PatchChunkCount, PatchGroupEntry,
         Finish, Writing, Finishing
    <2> QED BY <1>2, <1>3, <2>1, RangesQuiet
  <1> QED BY <1>4, <1>5

\* The steps before the first block, and a failure.
LEMMA RangesEarlySteps ==
    ASSUME \/ ScanFile \/ GroupFiles \/ WritePlaceholder \/ WritePrefix \/ WriteFileEntry
           \/ WriteGroupEntry \/ StartPhaseA \/ (\E g \in DOMAIN groups : CompressFile(g)) \/ Fail
    PROVE  Ranges'
  <1>1. ~Writing' /\ ~Finishing'
    <2>1. CASE ScanFile \/ GroupFiles \/ StartPhaseA \/ Fail
      BY <2>1 DEF ScanFile, GroupFiles, StartPhaseA, Fail, Writing, Finishing
    <2>2. CASE WritePlaceholder \/ WritePrefix \/ WriteFileEntry \/ WriteGroupEntry
      BY <2>2 DEF WritePlaceholder, WritePrefix, WriteFileEntry, WriteGroupEntry, Writing,
         Finishing
    <2>3. CASE \E g \in DOMAIN groups : CompressFile(g)
      BY <2>3 DEF CompressFile, Writing, Finishing
    <2> QED BY <2>1, <2>2, <2>3
  <1> QED BY <1>1, RangesElsewhere

\* Every step keeps the ranges.
LEMMA RangesNext == ASSUME IInv, Plan, Image, Ranges, [Next]_vars PROVE Ranges'
  <1>1. CASE UNCHANGED vars
    <2>1. /\ UNCHANGED <<entries, block_id_counter, cur, results, global_chunk_idx, pc, disk>>
          /\ SameSizes
      BY <1>1 DEF vars, counters, SameSizes
    <2> QED BY <2>1, RangesQuiet DEF DiskStep, Writing, Finishing
  <1> QED BY <1>1, RangesQuietSteps, RangesEarlySteps, RangesJoinGroups, RangesEndFile,
             RangesShareBlocks, RangesEndGroup, RangesWriteFooter, RangesWriteTrailer
          DEF Next, Proceed, Write

\* There are none at the start.
LEMMA RangesInit == ASSUME Init PROVE Ranges
  BY DEF Init, Ranges, Writing, Finishing

------------------------------------------------------------------------------
(* The tables on disk.                                                     *)

\* As much as is written of what follows the header.
PrefixOnDisk ==
    \A p \in 1 .. Len(Prefix(call)) : p < Len(disk) => disk[p + 1].k = Prefix(call)[p]

\* The entries patched before file i, and before group g.
FilesPatched(i) ==
    \A j \in 1 .. Len(entries) : j < i => disk[Offset(call) + j] = entries[j]

GroupsPatched(g) ==
    \A h \in 1 .. Len(groups) :
       h < g => disk[Offset(call) + Len(entries) + h] = solid_group_entries[h]

OnDisk ==
    /\ PrefixOnDisk
    /\ pc = "patch_files" =>
          /\ cur.f \in Nat \ {0} /\ cur.g \in Nat \ {0}
          /\ FilesPatched(cur.f) /\ GroupsPatched(cur.g)
    /\ pc = "done" => FilesPatched(Len(entries) + 1) /\ GroupsPatched(Len(groups) + 1)

\* The placeholder has the companions of the final header.
LEMMA PrefixOfCall ==
    ASSUME IInv
    PROVE  /\ Prefix(placeholder_header) = Prefix(call)
           /\ Len(Prefix(call)) \in Nat /\ Offset(call) = 1 + Len(Prefix(call))
           /\ file_table_offset = Offset(call)
  <1>1. /\ placeholder_header.encrypted = call.encrypted
        /\ placeholder_header.dictionary = call.dictionary
    BY DEF placeholder_header, Header
  <1>2. Prefix(placeholder_header) = Prefix(call)
    BY <1>1 DEF Prefix
  <1>3. Prefix(call) \in Seq({"enc", "dict"})
    <2> DEFINE S == {"enc", "dict"}
    <2>1. <<"enc">> \in Seq(S) /\ <<"dict">> \in Seq(S) /\ << >> \in Seq(S)
      OBVIOUS
    <2> HIDE DEF S
    <2>2. \A s, t \in Seq(S) : s \o t \in Seq(S)
      BY ConcatProperties
    <2> QED BY <2>1, <2>2 DEF Prefix, S
  <1>4. Len(Prefix(call)) \in Nat
    BY <1>3, LenProperties
  <1> QED BY <1>2, <1>4, Offsets DEF Offset

\* A step that writes no companion keeps them.
LEMMA PrefixKept ==
    ASSUME IInv, DiskStep, PrefixOnDisk, UNCHANGED call,
           \/ Len(disk') = Len(disk)
           \/ Len(disk) = 0 /\ Len(disk') = 1
           \/ Len(disk) >= Offset(call)
    PROVE  PrefixOnDisk'
  <1> SUFFICES ASSUME NEW p \in 1 .. Len(Prefix(call)), p < Len(disk')
               PROVE  disk'[p + 1].k = Prefix(call)[p]
    BY DEF PrefixOnDisk
  <1>1. Len(disk) \in Nat /\ DOMAIN disk = 1 .. Len(disk)
    BY Sizes
  <1>2. p < Len(disk) /\ p + 1 \in DOMAIN disk
    <2> DEFINE n == Len(Prefix(call))
               d == Len(disk')
               e == Len(disk)
               o == Offset(call)
    <2>1. n \in Nat /\ o = 1 + n /\ d \in Nat /\ e \in Nat /\ p \in 1 .. n /\ p < d
      BY <1>1, PrefixOfCall, RecordsKept
    <2>2. d = e \/ (e = 0 /\ d = 1) \/ e >= o
      OBVIOUS
    <2> HIDE DEF n, d, e, o
    <2>3. p < e /\ p + 1 \in 1 .. e
      BY <2>1, <2>2
    <2> QED BY <1>1, <2>3 DEF e
  <1>3. disk'[p + 1].k = disk[p + 1].k
    BY <1>2, DiskStepKeeps
  <1> QED BY <1>2, <1>3 DEF PrefixOnDisk

\* The companion that is written is the one that is due.
LEMMA PrefixWritten == ASSUME IInv, PrefixOnDisk, WritePrefix PROVE PrefixOnDisk'
  <1> DEFINE rec == [k |-> Prefix(placeholder_header)[Len(disk)]]
  <1>1. /\ disk' = Append(disk, rec) /\ call' = call /\ rec.k = Prefix(call)[Len(disk)]
    BY PrefixOfCall DEF WritePrefix, Append1
  <1>2. IsSeq(disk) /\ Len(disk) \in Nat
    BY Sizes DEF IInv, Typed
  <1> HIDE DEF rec
  <1>3. /\ Len(disk') = Len(disk) + 1 /\ disk'[Len(disk) + 1] = rec
        /\ \A j \in 1 .. Len(disk) : disk'[j] = disk[j]
    BY <1>1, <1>2, AppendSeq
  <1> SUFFICES ASSUME NEW p \in 1 .. Len(Prefix(call)), p < Len(disk')
               PROVE  disk'[p + 1].k = Prefix(call)[p]
    BY <1>1 DEF PrefixOnDisk
  <1>4. CASE p = Len(disk)
    BY <1>1, <1>3, <1>4
  <1>5. CASE p # Len(disk)
    <2>1. p < Len(disk) /\ p + 1 \in 1 .. Len(disk)
      BY <1>2, <1>3, <1>5, PrefixOfCall
    <2> QED BY <1>3, <2>1 DEF PrefixOnDisk
  <1> QED BY <1>4, <1>5

\* Steps other than those of the last phase.
LEMMA OnDiskBefore ==
    ASSUME PrefixOnDisk', pc' \notin {"patch_files", "done"} PROVE OnDisk'
  BY DEF OnDisk

\* The first record, and the entries of the tables behind the companions.
LEMMA OnDiskTables ==
    ASSUME IInv, OnDisk, WritePlaceholder \/ WritePrefix \/ WriteFileEntry \/ WriteGroupEntry
    PROVE  OnDisk'
  <1>1. PrefixOnDisk
    BY DEF OnDisk
  <1>2. DiskStep /\ UNCHANGED call /\ pc' \notin {"patch_files", "done"}
    <2>1. StepOk
      BY WritePlaceholderOk, WritePrefixOk, WriteFileEntryOk, WriteGroupEntryOk
    <2> QED BY <2>1 DEF StepOk, TablesKept, WritePlaceholder, WritePrefix, WriteFileEntry,
                 WriteGroupEntry
  <1>3. CASE WritePlaceholder
    <2>1. Len(disk) = 0 /\ \E rec : disk' = Append(disk, rec)
      BY <1>3 DEF WritePlaceholder, Append1, IInv, Phases
    <2>2. PICK rec : disk' = Append(disk, rec)
      BY <2>1
    <2>3. Len(disk') = Len(disk) + 1
      BY <2>2, AppendSeq DEF IInv, Typed
    <2>4. Len(disk') = 1
      BY <2>1, <2>3
    <2>5. PrefixOnDisk'
      BY <1>1, <1>2, <2>1, <2>4, PrefixKept
    <2> QED BY <1>2, <2>5, OnDiskBefore
  <1>4. CASE WritePrefix
    BY <1>1, <1>2, <1>4, PrefixWritten, OnDiskBefore
  <1>5. CASE WriteFileEntry \/ WriteGroupEntry
    <2>1. \/ Len(disk) - file_table_offset + 1 \in 1 .. Len(entries)
          \/ Len(disk) - file_table_offset - Len(entries) + 1 \in 1 .. Len(groups)
      BY <1>5, Sizes DEF WriteFileEntry, WriteGroupEntry
    <2>2. Len(disk) >= Offset(call)
      BY <2>1, Sizes, Offsets
    <2>3. PrefixOnDisk'
      BY <1>1, <1>2, <2>2, PrefixKept
    <2> QED BY <1>2, <2>3, OnDiskBefore
  <1> QED BY <1>3, <1>4, <1>5

\* The blocks, the index and the footer come behind the tables.
LEMMA OnDiskBlocks ==
    ASSUME IInv, OnDisk,
           \/ WriteBlockHeader \/ WritePayload \/ WriteTrailer \/ WriteIndexEntry \/ WriteFooter
    PROVE  OnDisk'
  <1>1. PrefixOnDisk
    BY DEF OnDisk
  <1>2. DiskStep /\ UNCHANGED call
    <2>1. StepOk
      BY WriteBlockHeaderOk, WritePayloadOk, WriteTrailerOk, WriteIndexEntryOk, WriteFooterOk
    <2> QED BY <2>1 DEF StepOk, TablesKept
  <1>3. pc \in {"blocks", "payload", "trailer"} /\ pc' \notin {"patch_files", "done"}
    BY DEF WriteBlockHeader, WritePayload, WriteTrailer, WriteIndexEntry, WriteFooter, AtFile
  <1>4. Len(disk) >= Offset(call)
    <2>1. Len(disk) >= Offset(call) + Len(entries) + Len(groups)
      BY <1>3 DEF IInv, Phases
    <2> QED BY <2>1, Sizes, Offsets
  <1>5. PrefixOnDisk'
    BY <1>1, <1>2, <1>4, PrefixKept
  <1> QED BY <1>3, <1>5, OnDiskBefore

\* The steps that write nothing.
LEMMA OnDiskStill ==
    ASSUME IInv, OnDisk,
           \/ ScanFile \/ GroupFiles \/ StartPhaseA \/ (\E g \in DOMAIN groups : CompressFile(g))
           \/ JoinGroups \/ ShareBlocks \/ EndFile \/ EndGroup \/ Fail
    PROVE  OnDisk'
  <1>1. disk' = disk /\ call' = call
    BY DEF ScanFile, GroupFiles, StartPhaseA, CompressFile, JoinGroups, ShareBlocks, EndFile,
       EndGroup, Fail
  <1>2. pc' \notin {"patch_files", "done"}
    BY DEF ScanFile, GroupFiles, StartPhaseA, CompressFile, JoinGroups, ShareBlocks, EndFile,
       EndGroup, Fail, AtFile
  <1>3. PrefixOnDisk'
    BY <1>1 DEF OnDisk, PrefixOnDisk
  <1> QED BY <1>2, <1>3, OnDiskBefore

\* The header in place; then the tables are next.
LEMMA OnDiskHeader == ASSUME IInv, OnDisk, TearHeader \/ PatchHeader PROVE OnDisk'
  <1>1. DiskStep /\ UNCHANGED call /\ pc = "patch_header"
    <2>1. StepOk
      BY TearHeaderOk, PatchHeaderOk
    <2> QED BY <2>1 DEF StepOk, TablesKept, TearHeader, PatchHeader
  <1>2. Len(disk) >= Offset(call)
    <2>1. Len(disk) >= Offset(call) + Len(entries) + Len(groups)
      BY <1>1 DEF IInv, Phases
    <2> QED BY <2>1, Sizes, Offsets
  <1>3. PrefixOnDisk'
    BY <1>1, <1>2, PrefixKept DEF OnDisk
  <1>4. CASE TearHeader
    <2>1. pc' = "patch_header"
      BY <1>4 DEF TearHeader
    <2> QED BY <1>3, <2>1, OnDiskBefore
  <1>5. CASE PatchHeader
    <2>1. pc' = "patch_files" /\ cur' = Start
      BY <1>5 DEF PatchHeader
    <2>2. cur'.f = 1 /\ cur'.g = 1
      BY <2>1 DEF Start
    <2>3. FilesPatched(1)' /\ GroupsPatched(1)'
      BY DEF FilesPatched, GroupsPatched
    <2>4. FilesPatched(cur.f)' /\ GroupsPatched(cur.g)'
      BY <2>2, <2>3 DEF FilesPatched, GroupsPatched
    <2> QED BY <1>3, <2>1, <2>2, <2>4 DEF OnDisk
  <1> QED BY <1>4, <1>5

\* The record at pos is replaced; then the entries before f and g are patched.
Replaces(pos, rec, f, g) ==
    /\ pos \in Nat /\ f \in Nat \ {0} /\ g \in Nat \ {0}
    /\ disk' = [disk EXCEPT ![pos] = rec] /\ cur'.f = f /\ cur'.g = g
    /\ \A j \in 1 .. Len(entries) : j < f =>
          \/ j < cur.f /\ pos # Offset(call) + j
          \/ pos = Offset(call) + j /\ rec = entries[j]
    /\ \A h \in 1 .. Len(groups) : h < g =>
          \/ h < cur.g /\ pos # Offset(call) + Len(entries) + h
          \/ pos = Offset(call) + Len(entries) + h /\ rec = solid_group_entries[h]

\* One record of the tables is replaced; the others stay.
LEMMA OnDiskPatch ==
    ASSUME IInv, OnDisk, pc = "patch_files", pc' = pc, DiskStep,
           UNCHANGED <<call, entries, groups, solid_group_entries>>,
           NEW pos, NEW rec, NEW f, NEW g, Replaces(pos, rec, f, g)
    PROVE  OnDisk'
  <1>0. /\ pos \in Nat /\ f \in Nat \ {0} /\ g \in Nat \ {0}
        /\ disk' = [disk EXCEPT ![pos] = rec] /\ cur'.f = f /\ cur'.g = g
        /\ \A j \in 1 .. Len(entries) : j < f =>
              \/ j < cur.f /\ pos # Offset(call) + j
              \/ pos = Offset(call) + j /\ rec = entries[j]
        /\ \A h \in 1 .. Len(groups) : h < g =>
              \/ h < cur.g /\ pos # Offset(call) + Len(entries) + h
              \/ pos = Offset(call) + Len(entries) + h /\ rec = solid_group_entries[h]
    BY DEF Replaces
  <1>1. Len(disk') = Len(disk) /\ DOMAIN disk = 1 .. Len(disk)
    BY <1>0, ReplaceSeq, Sizes DEF IInv, Typed
  <1>2. PrefixOnDisk'
    BY <1>1, PrefixKept DEF OnDisk
  <1>3. FilesPatched(cur.f) /\ GroupsPatched(cur.g)
    BY DEF OnDisk
  <1>4. ASSUME NEW j \in 1 .. Len(entries), j < f PROVE disk'[Offset(call) + j] = entries[j]
    <2> DEFINE q == Offset(call) + j
    <2>1. q \in DOMAIN disk
      BY <1>1, TablesOnDisk
    <2>2. (j < cur.f /\ pos # q) \/ (pos = q /\ rec = entries[j])
      BY <1>0, <1>4
    <2>3. j < cur.f => disk[q] = entries[j]
      BY <1>3 DEF FilesPatched
    <2> HIDE DEF q
    <2>4. disk'[q] = entries[j]
      BY <1>0, <2>1, <2>2, <2>3
    <2> QED BY <2>4 DEF q
  <1>5. ASSUME NEW h \in 1 .. Len(groups), h < g
        PROVE  disk'[Offset(call) + Len(entries) + h] = solid_group_entries[h]
    <2> DEFINE q == Offset(call) + Len(entries) + h
    <2>1. q \in DOMAIN disk
      BY <1>1, TablesOnDisk
    <2>2. (h < cur.g /\ pos # q) \/ (pos = q /\ rec = solid_group_entries[h])
      BY <1>0, <1>5
    <2>3. h < cur.g => disk[q] = solid_group_entries[h]
      BY <1>3 DEF GroupsPatched
    <2> HIDE DEF q
    <2>4. disk'[q] = solid_group_entries[h]
      BY <1>0, <2>1, <2>2, <2>3
    <2> QED BY <2>4 DEF q
  <1>6. FilesPatched(cur.f)'
    BY <1>0, <1>4 DEF FilesPatched
  <1>7. GroupsPatched(cur.g)'
    BY <1>0, <1>5 DEF GroupsPatched
  <1> QED BY <1>0, <1>2, <1>6, <1>7 DEF OnDisk

\* The first half of a file entry; it is not counted yet.
LEMMA OnDiskPatchChunkStart == ASSUME IInv, Plan, OnDisk, PatchChunkStart PROVE OnDisk'
  <1> DEFINE pos == Offset(call) + cur.f
             rec == [disk[FileEntryOffset(cur.f) + 1] EXCEPT
                       !.chunk_start_idx = entries[cur.f].chunk_start_idx]
             f == cur.f
             g == cur.g
             two == 2
  <1>1. /\ pc = "patch_files" /\ pc' = pc /\ f \in 1 .. Len(entries)
        /\ disk' = [disk EXCEPT ![FileEntryOffset(f) + 1] = rec]
        /\ UNCHANGED <<call, entries, groups, solid_group_entries>>
    BY Sizes DEF PatchChunkStart, Overwrite
  <1>2. DiskStep
    BY PatchChunkStartOk DEF StepOk
  <1>3. f \in Nat \ {0} /\ g \in Nat \ {0}
    BY <1>1 DEF OnDisk
  <1>4. FileEntryOffset(f) + 1 = pos /\ pos \in Nat
    <2>1. file_table_offset = Offset(call) /\ Offset(call) \in Nat
      BY Offsets
    <2>2. FileEntryOffset(f) = file_table_offset + f - 1
      BY DEF FileEntryOffset
    <2> QED BY <1>3, <2>1, <2>2
  <1>5. ToBlock(cur, two, cur') /\ IsCursor(cur)
    BY DEF PatchChunkStart, ToBlock, Plan
  <1> HIDE DEF two
  <1>6. cur'.g = g /\ cur'.f = f
    BY <1>5, CursorToBlock
  <1>7. \A j \in 1 .. Len(entries) : j < f => j < cur.f /\ pos # Offset(call) + j
    BY <1>3, Sizes, Offsets
  <1>8. \A h \in 1 .. Len(groups) : h < g => h < cur.g /\ pos # Offset(call) + Len(entries) + h
    BY <1>1, <1>3, Sizes, Offsets
  <1>9. disk' = [disk EXCEPT ![pos] = rec]
    BY <1>1, <1>4
  <1>10. Replaces(pos, rec, f, g)
    <2> HIDE DEF pos, rec
    <2> QED BY <1>3, <1>4, <1>6, <1>7, <1>8, <1>9 DEF Replaces
  <1> HIDE DEF pos, rec, f, g
  <1> QED BY <1>1, <1>2, <1>10, OnDiskPatch

\* The second half completes it.
LEMMA OnDiskPatchChunkCount == ASSUME IInv, Plan, OnDisk, PatchChunkCount PROVE OnDisk'
  <1> DEFINE pos == Offset(call) + cur.f
             rec == entries[cur.f]
             f == cur.f + 1
             g == cur.g
  <1>1. /\ pc = "patch_files" /\ pc' = pc /\ cur.f \in 1 .. Len(entries)
        /\ disk' = [disk EXCEPT ![FileEntryOffset(cur.f) + 1] = rec]
        /\ UNCHANGED <<call, entries, groups, solid_group_entries>>
    BY Sizes DEF PatchChunkCount, Overwrite
  <1>2. DiskStep
    BY PatchChunkCountOk DEF StepOk
  <1>3. cur.f \in Nat \ {0} /\ f \in Nat \ {0} /\ g \in Nat \ {0}
    BY <1>1 DEF OnDisk
  <1>4. FileEntryOffset(cur.f) + 1 = pos /\ pos \in Nat
    BY <1>3, Sizes, Offsets DEF FileEntryOffset
  <1>5. ToFile(cur, f, 1, cur') /\ IsCursor(cur)
    BY DEF PatchChunkCount, NextFile, ToFile, Plan
  <1>6. \A j \in 1 .. Len(entries) : j < f =>
           \/ j < cur.f /\ pos # Offset(call) + j
           \/ pos = Offset(call) + j /\ rec = entries[j]
    <2> SUFFICES ASSUME NEW j \in 1 .. Len(entries), j < f
                 PROVE  \/ j < cur.f /\ pos # Offset(call) + j
                        \/ pos = Offset(call) + j /\ rec = entries[j]
      OBVIOUS
    <2>1. CASE j = cur.f
      BY <2>1
    <2>2. CASE j # cur.f
      <3>1. j < cur.f /\ pos # Offset(call) + j
        BY <1>3, <2>2, Sizes, Offsets
      <3> QED BY <3>1
    <2> QED BY <2>1, <2>2
  <1>7. \A h \in 1 .. Len(groups) : h < g => h < cur.g /\ pos # Offset(call) + Len(entries) + h
    BY <1>1, <1>3, Sizes, Offsets
  <1>8. disk' = [disk EXCEPT ![pos] = rec]
    BY <1>1, <1>4
  <1> HIDE DEF f
  <1>9. cur'.g = g /\ cur'.f = f
    BY <1>5, CursorToFile
  <1>10. Replaces(pos, rec, f, g)
    <2> HIDE DEF pos, rec
    <2> QED BY <1>3, <1>4, <1>6, <1>7, <1>8, <1>9 DEF Replaces
  <1> HIDE DEF pos, rec, g
  <1> QED BY <1>1, <1>2, <1>10, OnDiskPatch

\* An entry of the group table, behind the file table.
LEMMA OnDiskPatchGroupEntry == ASSUME IInv, Plan, OnDisk, PatchGroupEntry PROVE OnDisk'
  <1> DEFINE pos == Offset(call) + Len(entries) + cur.g
             rec == solid_group_entries[cur.g]
             f == cur.f
             g == cur.g + 1
             old == file_table_offset + Len(entries) + cur.g - 1
  <1>1. /\ pc = "patch_files" /\ pc' = pc /\ cur.g \in 1 .. Len(groups) /\ cur.f > Len(entries)
        /\ disk' = [disk EXCEPT ![old + 1] = rec]
        /\ UNCHANGED <<call, entries, groups, solid_group_entries>>
    BY Sizes DEF PatchGroupEntry, Overwrite
  <1>2. DiskStep
    BY PatchGroupEntryOk DEF StepOk
  <1>3. cur.g \in Nat \ {0} /\ f \in Nat \ {0} /\ g \in Nat \ {0}
    BY <1>1 DEF OnDisk
  <1>4. old + 1 = pos /\ pos \in Nat
    BY <1>3, Sizes, Offsets
  <1>5. ToGroup(cur, g, cur') /\ IsCursor(cur)
    BY DEF PatchGroupEntry, ToGroup, Plan
  <1>6. \A j \in 1 .. Len(entries) : j < f => j < cur.f /\ pos # Offset(call) + j
    BY <1>1, <1>3, Sizes, Offsets
  <1>7. \A h \in 1 .. Len(groups) : h < g =>
           \/ h < cur.g /\ pos # Offset(call) + Len(entries) + h
           \/ pos = Offset(call) + Len(entries) + h /\ rec = solid_group_entries[h]
    <2> SUFFICES ASSUME NEW h \in 1 .. Len(groups), h < g
                 PROVE  \/ h < cur.g /\ pos # Offset(call) + Len(entries) + h
                        \/ pos = Offset(call) + Len(entries) + h /\ rec = solid_group_entries[h]
      OBVIOUS
    <2>1. CASE h = cur.g
      BY <2>1
    <2>2. CASE h # cur.g
      <3>1. h < cur.g /\ pos # Offset(call) + Len(entries) + h
        BY <1>3, <2>2, Sizes, Offsets
      <3> QED BY <3>1
    <2> QED BY <2>1, <2>2
  <1>8. disk' = [disk EXCEPT ![pos] = rec]
    BY <1>1, <1>4
  <1> HIDE DEF g
  <1>9. cur'.g = g /\ cur'.f = f
    BY <1>5, CursorToGroup
  <1>10. Replaces(pos, rec, f, g)
    <2> HIDE DEF pos, rec
    <2> QED BY <1>3, <1>4, <1>6, <1>7, <1>8, <1>9 DEF Replaces
  <1> HIDE DEF pos, rec, f
  <1> QED BY <1>1, <1>2, <1>10, OnDiskPatch

\* At the end both tables are complete.
LEMMA OnDiskFinish == ASSUME IInv, OnDisk, Finish PROVE OnDisk'
  <1>1. /\ pc = "patch_files" /\ pc' = "done" /\ cur.f > Len(entries) /\ cur.g > Len(groups)
        /\ UNCHANGED <<call, disk, entries, groups, solid_group_entries>>
    BY DEF Finish
  <1>2. /\ PrefixOnDisk /\ cur.f \in Nat /\ cur.g \in Nat
        /\ FilesPatched(cur.f) /\ GroupsPatched(cur.g)
    BY <1>1 DEF OnDisk
  <1>3. PrefixOnDisk'
    BY <1>1, <1>2 DEF PrefixOnDisk
  <1>4. \A j \in 1 .. Len(entries) : disk[Offset(call) + j] = entries[j]
    BY <1>1, <1>2, Sizes DEF FilesPatched
  <1>5. \A h \in 1 .. Len(groups) : disk[Offset(call) + Len(entries) + h] = solid_group_entries[h]
    BY <1>1, <1>2, Sizes DEF GroupsPatched
  <1>6. FilesPatched(Len(entries) + 1)' /\ GroupsPatched(Len(groups) + 1)'
    BY <1>1, <1>4, <1>5 DEF FilesPatched, GroupsPatched
  <1> QED BY <1>1, <1>3, <1>6 DEF OnDisk

\* Every step keeps what is on disk.
LEMMA OnDiskNext == ASSUME IInv, Plan, OnDisk, [Next]_vars PROVE OnDisk'
  <1>1. CASE UNCHANGED vars
    BY <1>1 DEF vars, OnDisk, PrefixOnDisk, FilesPatched, GroupsPatched
  <1> QED BY <1>1, OnDiskTables, OnDiskBlocks, OnDiskStill, OnDiskHeader, OnDiskPatchChunkStart,
             OnDiskPatchChunkCount, OnDiskPatchGroupEntry, OnDiskFinish DEF Next, Proceed, Write

\* Nothing is at the start.
LEMMA OnDiskInit == ASSUME Init PROVE OnDisk
  <1>1. IInv /\ Len(disk) = 0 /\ pc = "scan"
    BY InitOk DEF Init, IInv, Phases
  <1> QED BY <1>1, PrefixOfCall DEF OnDisk, PrefixOnDisk

------------------------------------------------------------------------------
(* What the readers make of a finished archive.                            *)

\* In every reachable state the files behind the cursor have their ranges among
\* the written blocks, and the tables are patched as far as the cursor says.
THEOREM ArchiveInvariance ==
    Spec => [](IInv /\ Plan /\ Image /\ Amounts /\ Ranges /\ OnDisk)
  <1>1. Init => Ranges /\ OnDisk
    BY RangesInit, OnDiskInit
  <1>2. IInv /\ Plan /\ Image /\ Ranges /\ OnDisk /\ [Next]_vars => Ranges' /\ OnDisk'
    BY RangesNext, OnDiskNext
  <1>3. Init => IInv /\ Plan /\ Image /\ Amounts
    BY InitOk, PlanInit, ImageInit, AmountsInit
  <1>4. IInv /\ Plan /\ Image /\ Amounts /\ [Next]_vars => (IInv /\ Plan /\ Image /\ Amounts)'
    <2>1. IInv /\ [Next]_vars => IInv'
      BY NextOk, StutterOk
    <2> QED BY <2>1, PlanNext, ImageNext, AmountsNext
  <1> QED BY <1>1, <1>2, <1>3, <1>4, PTL DEF Spec

\* A file whose range holds its chunks is reassembled to its data.
LEMMA ReassembledFile ==
    ASSUME NEW S, NEW data \in Seq(S), NEW e, NEW w, NEW n \in Nat, DOMAIN w = 1 .. n,
           RangeOk(data, e, w, n), \A b \in 1 .. n : w[b] # NoData, e.original_size = Len(data)
    PROVE  Reassemble(e, w) = data
  <1> DEFINE s == e.chunk_start_idx
             y == e.chunk_count
             q == Chunks(data)
             range == s + 1 .. s + y
             parts == [i \in 1 .. y |-> w[s + i]]
             whole == FlattenSeq(parts)
  <1>1. /\ s \in Nat /\ y \in Nat /\ y = Len(q) /\ s + y <= n
        /\ \A k \in 1 .. y : w[s + k] = q[k]
    BY DEF RangeOk
  <1>2. CASE y = 0
    <2>1. data = << >>
      BY <1>1, <1>2, ChunksJoined
    <2> QED BY <1>2, <2>1 DEF Reassemble
  <1>3. CASE y # 0
    <2>1. range \subseteq 1 .. n
      <3> HIDE DEF s, y
      <3> QED BY <1>1
    <2>2. range \subseteq DOMAIN w /\ ~\E i \in range : w[i] = NoData
      BY <2>1
    <2>3. parts = q
      <3>1. IsSeq(q)
        BY ChunksOf
      <3>2. q = [k \in 1 .. Len(q) |-> q[k]]
        <4> HIDE DEF q
        <4>1. PICK T : q \in Seq(T)
          BY <3>1 DEF IsSeq
        <4> QED BY <4>1
      <3> HIDE DEF q, s, y
      <3> QED BY <1>1, <3>2
    <2>4. whole = data
      BY <2>3, ChunksJoined
    <2>5. SubSeq(data, 1, Len(data)) = data /\ Len(data) \in Nat
      BY SubSeqFull, LenProperties
    <2>6. Reassemble(e, w) = SubSeq(whole, 1, IF Len(whole) < e.original_size
                                              THEN Len(whole) ELSE e.original_size)
      <3> HIDE DEF parts
      <3>1. parts = [i \in 1 .. y |-> w[s + i]]
        BY DEF parts
      <3> QED BY <1>3, <2>2, <3>1 DEF Reassemble
    <2> HIDE DEF whole
    <2>7. (IF Len(whole) < e.original_size THEN Len(whole) ELSE e.original_size) = Len(data)
      BY <2>4
    <2> QED BY <2>4, <2>5, <2>6, <2>7
  <1> QED BY <1>2, <1>3

\* The first and the last record of a finished archive.
LEMMA FinalImage ==
    ASSUME IInv, Image, pc = "done"
    PROVE  /\ Len(disk) = BlocksEnd + block_id_counter + 1 /\ At(disk, 0) = final_header
           /\ LastFooter(disk) = [k |-> "footer", block_index_offset |-> BlocksEnd,
                                  file_table_offset |-> Offset(call),
                                  block_count |-> block_id_counter, file_count |-> Len(entries)]
           /\ BlockIndex(disk, LastFooter(disk)) = [k \in 1 .. block_id_counter |-> all_block_indices[k]]
  <1> DEFINE n == Len(disk)
             f == LastFooter(disk)
             B == block_id_counter
  <1>1. Closed /\ disk[1] = final_header
    BY DEF Closed, Image, Heads
  <1>2. /\ n = BlocksEnd + B + 1 /\ FooterOk(disk[n]) /\ IndexOn(disk, BlocksEnd, all_block_indices)
    BY <1>1 DEF Image, Stages
  <1>3. /\ n \in Nat \ {0} /\ B \in Nat /\ BlocksEnd \in Nat /\ B = Len(all_block_indices)
        /\ block_index_offset = BlocksEnd /\ file_table_offset = Offset(call)
    BY <1>2, Ends
  <1>4. At(disk, 0) = disk[1] /\ At(disk, n - 1) = disk[n]
    <2> HIDE DEF n
    <2>1. 0 \in 0 .. n - 1 /\ n - 1 \in 0 .. n - 1 /\ n - 1 + 1 = n /\ 0 + 1 = 1
      BY <1>3
    <2> QED BY <2>1 DEF At, n
  <1>5. f = disk[n]
    BY <1>2, <1>4 DEF LastFooter, FooterOk
  <1>6. /\ f = [k |-> "footer", block_index_offset |-> BlocksEnd, file_table_offset |-> Offset(call),
                block_count |-> B, file_count |-> Len(entries)]
    BY <1>2, <1>3, <1>5 DEF FooterOk
  <1>7. f.block_count = B /\ f.block_index_offset = BlocksEnd
    BY <1>6
  <1>8. ASSUME NEW k \in 1 .. B PROVE At(disk, BlocksEnd + k - 1) = all_block_indices[k]
    <2>1. BlocksEnd + k - 1 \in 0 .. n - 1 /\ BlocksEnd + k - 1 + 1 = BlocksEnd + k
          /\ BlocksEnd + k <= n
      BY <1>2, <1>3
    <2> QED BY <1>2, <1>3, <2>1 DEF At, IndexOn
  <1>9. BlockIndex(disk, f) = [k \in 1 .. B |-> all_block_indices[k]]
    <2> HIDE DEF f, B
    <2> QED BY <1>7, <1>8 DEF BlockIndex
  <1> QED BY <1>1, <1>2, <1>4, <1>6, <1>9

\* The counts of the archive are within the limits of the readers.  The writer
\* checks only that they fit in 32 bits.
WithinReaderLimits ==
    /\ Len(entries) <= MaxFileCount
    /\ Len(groups) <= MaxSolidGroupCount
    /\ block_id_counter <= MaxBlockCount

\* The fields of the final header.
LEMMA FinalFields ==
    /\ final_header.k = "header" /\ final_header.intact = TRUE
    /\ final_header.file_count = Len(entries) /\ final_header.solid_group_count = Len(groups)
    /\ final_header.block_count = block_id_counter
    /\ final_header.file_table_offset = file_table_offset
    /\ final_header.block_index_offset = block_index_offset
    /\ Prefix(final_header) = Prefix(call)
  <1>1. final_header.encrypted = call.encrypted /\ final_header.dictionary = call.dictionary
    BY DEF final_header, Header
  <1> QED BY <1>1 DEF final_header, Header, Prefix

\* The readers take the header and the tables of a finished archive.
LEMMA FinalTables ==
    ASSUME IInv, Image, OnDisk, pc = "done", PlainPaths, WithinReaderLimits
    PROVE  /\ HeaderOk(disk) /\ PrefixOk(disk) /\ TablesOk(disk, At(disk, 0), Offset(call))
           /\ FileTable(disk, At(disk, 0), Offset(call)) = [i \in 1 .. Len(entries) |-> entries[i]]
  <1> DEFINE n == Len(entries)
             m == Len(groups)
             o == Offset(call)
             d == Len(disk)
             h == At(disk, 0)
  <1>1. /\ d = BlocksEnd + block_id_counter + 1 /\ h = final_header
        /\ block_id_counter \in Nat /\ BlocksEnd = o + n + m + 3 * block_id_counter
        /\ o \in Nat /\ n \in Nat /\ m \in Nat /\ d \in Nat /\ Len(entries) = Len(input)
    BY FinalImage, Ends, Sizes, Offsets DEF TablesEnd, IInv, Phases
  <1>2. d > o + n + m
    <2> HIDE DEF d, o, n, m
    <2> QED BY <1>1
  <1>3. HeaderOk(disk)
    BY <1>1, FinalFields DEF HeaderOk, IsAt, WithinReaderLimits
  <1>4. PrefixOk(disk)
    <2> SUFFICES ASSUME NEW i \in DOMAIN Prefix(call) PROVE At(disk, i).k = Prefix(call)[i]
      BY <1>1, FinalFields DEF PrefixOk, IsAt
    <2>1. i \in 1 .. Len(Prefix(call)) /\ o = 1 + Len(Prefix(call)) /\ Len(Prefix(call)) \in Nat
      <3>1. Prefix(call) \in Seq({"enc", "dict"})
        <4> DEFINE S == {"enc", "dict"}
        <4>1. <<"enc">> \in Seq(S) /\ <<"dict">> \in Seq(S) /\ << >> \in Seq(S)
          OBVIOUS
        <4> HIDE DEF S
        <4>2. \A s, t \in Seq(S) : s \o t \in Seq(S)
          BY ConcatProperties
        <4> QED BY <4>1, <4>2 DEF Prefix, S
      <3> QED BY <3>1, LenProperties, PrefixOfCall
    <2> DEFINE z == Len(Prefix(call))
    <2>2. i \in 0 .. d - 1 /\ i < d
      <3>1. z \in Nat /\ i \in 1 .. z /\ o = 1 + z
        BY <2>1
      <3> HIDE DEF z, d, o, n, m
      <3> QED BY <1>1, <1>2, <3>1
    <2> QED BY <2>1, <2>2 DEF OnDisk, PrefixOnDisk, At
  <1>5. \A i \in 1 .. n : At(disk, o + i - 1) = entries[i]
    <2> SUFFICES ASSUME NEW i \in 1 .. n PROVE At(disk, o + i - 1) = entries[i]
      OBVIOUS
    <2>1. disk[o + i] = entries[i]
      <3>1. i < n + 1
        BY <1>1
      <3> QED BY <3>1 DEF OnDisk, FilesPatched
    <2> HIDE DEF n, m, d, o
    <2>2. o + i - 1 \in 0 .. d - 1 /\ o + i - 1 + 1 = o + i
      BY <1>1, <1>2
    <2> QED BY <2>1, <2>2 DEF At, d
  <1>6. \A g \in 1 .. m : At(disk, o + n + g - 1).k = "group"
    <2> SUFFICES ASSUME NEW g \in 1 .. m PROVE At(disk, o + n + g - 1).k = "group"
      OBVIOUS
    <2>1. disk[o + n + g] = solid_group_entries[g] /\ solid_group_entries[g].k = "group"
      <3>1. g < m + 1
        BY <1>1
      <3>2. GroupEntry(solid_group_entries[g])
        BY DEF IInv, Tables
      <3> QED BY <3>1, <3>2, GroupEntryKind DEF OnDisk, GroupsPatched
    <2> HIDE DEF n, m, d, o
    <2>2. o + n + g - 1 \in 0 .. d - 1 /\ o + n + g - 1 + 1 = o + n + g
      BY <1>1, <1>2
    <2> QED BY <2>1, <2>2 DEF At, d
  <1>7. \A i \in 1 .. n : entries[i].k = "file" /\ PathParses(entries[i].path)
    <2> SUFFICES ASSUME NEW i \in 1 .. n PROVE entries[i].k = "file" /\ PathParses(entries[i].path)
      OBVIOUS
    <2>1. EntryOf(call, i, entries[i])
      BY DEF IInv, Tables
    <2>2. entries[i].k = "file" /\ entries[i].path = StoredPath(call.files[i])
      BY <2>1, FileEntryFields
    <2>3. call \in Calls /\ i \in DOMAIN call.files
      BY <1>1, Sizes DEF IInv, Typed, input
    <2>4. StoredPath(call.files[i]).kind = "plain"
      BY <2>3 DEF PlainPaths
    <2> QED BY <2>2, <2>4 DEF PathParses
  <1>8. h.file_count = n /\ h.solid_group_count = m
    BY <1>1, FinalFields
  <1>9. TablesOk(disk, h, o)
    <2>1. ASSUME NEW i \in 0 .. n - 1 PROVE IsAt(disk, o + i, "file") /\ PathParses(At(disk, o + i).path)
      <3> DEFINE j == i + 1
      <3>1. j \in 1 .. n /\ o + j - 1 = o + i
        <4> HIDE DEF n, o
        <4> QED BY <1>1
      <3> HIDE DEF j, o, n
      <3> QED BY <1>5, <1>7, <3>1 DEF IsAt
    <2>2. ASSUME NEW g \in 0 .. m - 1 PROVE IsAt(disk, o + n + g, "group")
      <3> DEFINE j == g + 1
      <3>1. j \in 1 .. m /\ o + n + j - 1 = o + n + g
        <4> HIDE DEF n, m, o
        <4> QED BY <1>1
      <3> HIDE DEF j, o, n, m
      <3> QED BY <1>6, <3>1 DEF IsAt
    <2> HIDE DEF h, n, m, o
    <2> QED BY <1>8, <2>1, <2>2 DEF TablesOk
  <1>10. FileTable(disk, h, o) = [i \in 1 .. n |-> entries[i]]
    <2> HIDE DEF h, n, m, o
    <2> QED BY <1>5, <1>8 DEF FileTable
  <1> QED BY <1>3, <1>4, <1>9, <1>10

\* So both kinds of reader accept it.
LEMMA FinalMetadata ==
    ASSUME IInv, Image, OnDisk, pc = "done", PlainPaths, WithinReaderLimits
    PROVE  MetadataOk(disk) /\ MetadataOkStreaming(disk)
  <1> DEFINE f == LastFooter(disk)
             h == At(disk, 0)
             B == block_id_counter
             d == Len(disk)
  <1>1. /\ HeaderOk(disk) /\ PrefixOk(disk) /\ TablesOk(disk, h, Offset(call))
    BY FinalTables
  <1>2. /\ d = BlocksEnd + B + 1 /\ h = final_header
        /\ f = [k |-> "footer", block_index_offset |-> BlocksEnd,
                file_table_offset |-> Offset(call), block_count |-> B,
                file_count |-> Len(entries)]
        /\ BlockIndex(disk, f) = [k \in 1 .. B |-> all_block_indices[k]]
    BY FinalImage
  <1>3. /\ f.k = "footer" /\ f.block_index_offset = BlocksEnd /\ f.file_table_offset = Offset(call)
        /\ f.block_count = B /\ f.file_count = Len(entries)
    BY <1>2
  <1> HIDE DEF f
  <1>4. /\ B \in Nat /\ BlocksEnd \in Nat /\ Offset(call) \in Nat /\ Offset(call) <= BlocksEnd
        /\ block_index_offset = BlocksEnd /\ file_table_offset = Offset(call)
        /\ B = Len(all_block_indices)
    <2> DEFINE o == Offset(call)
               n == Len(entries)
               m == Len(groups)
    <2>1. o \in Nat /\ n \in Nat /\ m \in Nat /\ B \in Nat /\ BlocksEnd = o + n + m + 3 * B
      BY Ends, Sizes, Offsets DEF TablesEnd
    <2> HIDE DEF o, n, m, B
    <2>2. o <= BlocksEnd
      BY <2>1
    <2> QED BY <2>2, Ends, Offsets DEF o, B
  <1>5. HeaderMatchesFooter(h, f)
    BY <1>2, <1>3, <1>4, FinalFields DEF HeaderMatchesFooter
  <1>6. /\ f.file_table_offset < d /\ f.block_index_offset < d
        /\ f.block_index_offset + f.block_count <= d
    <2> HIDE DEF B, d
    <2> QED BY <1>2, <1>3, <1>4
  <1>7. \A k \in 1 .. B : all_block_indices[k].k = "index" /\ all_block_indices[k].block_id = k - 1
    <2> SUFFICES ASSUME NEW k \in 1 .. B
                 PROVE  all_block_indices[k].k = "index" /\ all_block_indices[k].block_id = k - 1
      OBVIOUS
    <2>1. BlockOk(call, disk, TablesEnd, all_block_indices[k], k)
      BY <1>4 DEF Image, BlocksOn
    <2> QED BY <2>1 DEF BlockOk
  <1>8. \A k \in 1 .. f.block_count : IsAt(disk, f.block_index_offset + k - 1, "index")
    <2> SUFFICES ASSUME NEW k \in 1 .. B PROVE At(disk, BlocksEnd + k - 1).k = "index"
      BY <1>3 DEF IsAt
    <2>1. BlockIndex(disk, f)[k] = all_block_indices[k]
      BY <1>2
    <2>2. BlockIndex(disk, f)[k] = At(disk, BlocksEnd + k - 1)
      BY <1>3 DEF BlockIndex
    <2> QED BY <1>7, <2>1, <2>2
  <1>9. \A i, j \in 1 .. f.block_count :
           BlockIndex(disk, f)[i].block_id = BlockIndex(disk, f)[j].block_id => i = j
    <2> SUFFICES ASSUME NEW i \in 1 .. B, NEW j \in 1 .. B,
                        BlockIndex(disk, f)[i].block_id = BlockIndex(disk, f)[j].block_id
                 PROVE  i = j
      BY <1>3
    <2>1. BlockIndex(disk, f)[i] = all_block_indices[i] /\ BlockIndex(disk, f)[j] = all_block_indices[j]
      BY <1>2
    <2>2. i - 1 = j - 1
      BY <1>7, <2>1
    <2> HIDE DEF B
    <2> QED BY <1>4, <2>2
  <1>10. f.file_count <= MaxFileCount /\ f.block_count <= MaxBlockCount
    BY <1>3 DEF WithinReaderLimits
  <1>11. MetadataOk(disk)
    <2> HIDE DEF h, B, d
    <2> QED BY <1>1, <1>3, <1>5, <1>6, <1>8, <1>9, <1>10 DEF MetadataOk, f, h, d
  <1>12. MetadataOkStreaming(disk)
    BY <1>1, ReadPrefix DEF MetadataOkStreaming
  <1> QED BY <1>11, <1>12

\* A table whose files are all intact is extracted completely.
LEMMA ExtractsAll ==
    ASSUME IInv, PlainPaths, NEW table, NEW blocks, TableOf(call, Len(input), table),
           \A i \in DOMAIN table : FileIntact(table[i], blocks)
    PROVE  ExtractFiles(table, blocks) = Complete
  <1> DEFINE Good(i) == FileIntact(table[i], blocks) /\ validate_extraction_path(table[i].path)
             upto == {i \in DOMAIN table : \A j \in 1 .. i : Good(j)}
             n == Len(input)
  <1>1. n \in Nat /\ DOMAIN call.files = 1 .. n /\ call \in Calls
    BY Sizes DEF IInv, Typed, input
  <1>2. TableOf(call, n, table)
    OBVIOUS
  <1> HIDE DEF n
  <1>3. \A i \in 1 .. n : Good(i)
    <2> SUFFICES ASSUME NEW i \in 1 .. n PROVE Good(i)
      OBVIOUS
    <2>1. table[i].path = StoredPath(call.files[i])
      BY <1>2, FileEntryFields DEF TableOf
    <2>2. validate_extraction_path(table[i].path)
      BY <1>1, <2>1 DEF PlainPaths, validate_extraction_path
    <2> QED BY <1>2, <2>2 DEF TableOf
  <1>4. upto = DOMAIN table
    <2>1. DOMAIN table = 1 .. n
      BY <1>2 DEF TableOf
    <2>2. \A i \in 1 .. n : \A j \in 1 .. i : j \in 1 .. n
      BY <1>1
    <2> HIDE DEF Good
    <2> QED BY <1>3, <2>1, <2>2
  <1>5. ExtractFiles(table, blocks).ok = TRUE
    BY <1>4 DEF ExtractFiles
  <1>6. ExtractFiles(table, blocks).written = FilesOf(call)
    BY <1>1, <1>2, <1>5, ExtractedFiles
  <1>7. ExtractFiles(table, blocks) = [ok |-> ExtractFiles(table, blocks).ok,
                                       written |-> ExtractFiles(table, blocks).written]
    BY DEF ExtractFiles
  <1>8. Files = FilesOf(call)
    BY DEF Files, FilesOf, input
  <1> QED BY <1>5, <1>6, <1>7, <1>8 DEF Complete

\* The files of a finished archive are intact in the blocks it holds.
LEMMA FinalFiles ==
    ASSUME IInv, Image, Ranges, pc = "done", NEW i \in 1 .. Len(entries)
    PROVE  /\ Reassemble(entries[i], Written) = input[i].data
           /\ FileIntact(entries[i], Written)
  <1> DEFINE data == input[i].data
             e == entries[i]
             B == block_id_counter
             w == Written
  <1>1. /\ i \in DOMAIN call.files /\ call \in Calls
    BY Sizes DEF IInv, Typed, Phases, input
  <1>2. data \in Seq(Range(data))
    BY <1>1, CallFiles DEF input
  <1>3. RangeOk(data, e, w, B)
    BY DEF Ranges, Finishing, RangeOf
  <1>4. DOMAIN w = 1 .. B /\ B \in Nat
    BY Ends DEF Written
  <1>5. \A b \in 1 .. B : w[b] # NoData
    <2>1. At(disk, 0).encrypted = call.encrypted
      BY FinalImage DEF final_header, Header
    <2> QED BY <2>1, BlockDecodes
  <1>6. e.original_size = Len(data) /\ e.blake3_hash = data
    <2>1. EntryOf(call, i, e)
      BY DEF IInv, Tables
    <2> QED BY <2>1, FileEntryFields DEF input
  <1> HIDE DEF data, e, w, B
  <1>7. Reassemble(e, w) = data
    BY <1>2, <1>3, <1>4, <1>5, <1>6, ReassembledFile
  <1> QED BY <1>6, <1>7 DEF FileIntact, data, e, w

\* A file alone is within the limit of the call.
LEMMA FileWithinTotal ==
    ASSUME IInv, Amounts, NEW i \in 1 .. Len(entries)
    PROVE  Len(input[i].data) <= MaxTotalInput
  <1> DEFINE L == Len(input[i].data)
             S == BytesOf(call, Len(entries))
             T == {i} \X (0 + 1 .. L)
  <1>1. i \in DOMAIN call.files /\ call \in Calls
    BY Sizes DEF IInv, Typed, Tables, input
  <1>2. L \in Nat
    BY <1>1, CallFiles DEF input
  <1>3. T \in SUBSET S
    BY DEF BytesOf, input
  <1>4. IsFiniteSet(S) /\ Cardinality(S) <= MaxTotalInput
    BY DEF Amounts
  <1>5. Cardinality(T) = L
    <2>1. 0 \in Nat /\ 0 <= L /\ L - 0 = L
      BY <1>2
    <2> HIDE DEF L
    <2> QED BY <1>2, <2>1, OneFile
  <1> HIDE DEF S, T
  <1>6. Cardinality(T) <= Cardinality(S) /\ Cardinality(S) \in Nat
    BY <1>3, <1>4, FS_Subset, FS_CardinalityType
  <1> HIDE DEF L
  <1>7. L <= MaxTotalInput
    BY <1>2, <1>4, <1>5, <1>6, CompressorAssumption
  <1> QED BY <1>7 DEF L

\* The blocks that extract_file reads for a file are its chunks.
LEMMA FileBlocks ==
    ASSUME NEW S, NEW data \in Seq(S), NEW e, NEW w, NEW n, RangeOk(data, e, w, n)
    PROVE  Total([k \in 1 .. e.chunk_count |-> w[e.chunk_start_idx + k]]) = Len(data)
  <1> DEFINE s == e.chunk_start_idx
             y == e.chunk_count
             q == Chunks(data)
  <1>1. y = Len(q) /\ \A k \in 1 .. y : w[s + k] = q[k]
    BY DEF RangeOk
  <1>2. q = [k \in 1 .. Len(q) |-> q[k]]
    <2>1. PICK T : q \in Seq(T)
      BY ChunksOf DEF IsSeq
    <2> HIDE DEF q
    <2> QED BY <2>1
  <1>3. Total(q) = Len(data)
    BY ChunksTotal
  <1> HIDE DEF s, y, q
  <1>4. [k \in 1 .. y |-> w[s + k]] = q
    BY <1>1, <1>2
  <1> QED BY <1>3, <1>4 DEF s, y

\* extract_file gives back the file that was stored under the path.
LEMMA FinalFile ==
    ASSUME IInv, Image, Amounts, Ranges, OnDisk, pc = "done", PlainPaths, PathsDistinct,
           WithinReaderLimits, NEW i \in DOMAIN input
    PROVE  extract_file(disk, StoredPath(input[i])) = input[i].data
  <1> DEFINE path == StoredPath(input[i])
             n == Len(entries)
             table == FileTable(disk, At(disk, 0), LastFooter(disk).file_table_offset)
             blocks == DecodedIndex(disk)
             found == {j \in DOMAIN table : table[j].path = path}
             first == CHOOSE j \in found : \A k \in found : j <= k
             used == [k \in 1 .. table[first].chunk_count |->
                        blocks[table[first].chunk_start_idx + k]]
  <1>1. extract_file(disk, path) =
           IF MetadataOk(disk) /\ found # {} /\ FileIntact(table[first], blocks)
              /\ Total(used) <= MaxTotalDecompressed
           THEN Reassemble(table[first], blocks) ELSE NoData
    BY DEF extract_file
  <1>2. MetadataOk(disk) /\ blocks = Written
    BY FinalMetadata, AcceptedBlocks
  <1>3. table = [j \in 1 .. n |-> entries[j]]
    BY <1>2, ReadFooter, FinalTables
  <1>4. /\ n \in Nat /\ DOMAIN input = 1 .. n /\ call \in Calls
        /\ \A j \in 1 .. n : entries[j].path = StoredPath(input[j])
    <2>1. n = Len(input)
      BY DEF IInv, Phases
    <2>2. \A j \in 1 .. n : EntryOf(call, j, entries[j])
      BY DEF IInv, Tables
    <2> QED BY <2>1, <2>2, Sizes, FileEntryFields DEF IInv, Typed, input
  <1> HIDE DEF table, blocks, n, path
  <1>5. i \in found /\ found \subseteq 1 .. n
    BY <1>3, <1>4 DEF path
  <1>6. first \in found
    <2>1. found # {} /\ found \subseteq Nat
      BY <1>4, <1>5
    <2> HIDE DEF found
    <2>2. \E j \in found : \A k \in found : j <= k
      BY <2>1, InBucket!LeastNat
    <2> QED BY <2>2
  <1> DEFINE f == first
  <1>7. f \in 1 .. n /\ table[f] = entries[f] /\ entries[f].path = path
    <2> HIDE DEF first
    <2> QED BY <1>3, <1>5, <1>6
  <1> HIDE DEF f
  <1>8. input[f].data = input[i].data
    BY <1>4, <1>7 DEF PathsDistinct, path, input
  <1>9. FileIntact(entries[f], blocks) /\ Reassemble(entries[f], blocks) = input[f].data
    BY <1>2, <1>7, FinalFiles DEF n
  <1>10. Total([k \in 1 .. entries[f].chunk_count |-> blocks[entries[f].chunk_start_idx + k]])
            <= MaxTotalDecompressed
    <2> DEFINE data == input[f].data
               e == entries[f]
               t == [k \in 1 .. e.chunk_count |-> blocks[e.chunk_start_idx + k]]
    <2>1. RangeOk(data, e, blocks, block_id_counter)
      BY <1>2, <1>7 DEF Ranges, Finishing, RangeOf, n
    <2>2. data \in Seq(Range(data)) /\ Len(data) \in Nat
      BY <1>4, <1>7, CallFiles DEF input
    <2>3. Len(data) <= MaxTotalInput
      BY <1>7, FileWithinTotal DEF n
    <2> HIDE DEF data, e
    <2>4. Total(t) = Len(data)
      BY <2>1, <2>2, FileBlocks
    <2> HIDE DEF t
    <2>5. Total(t) <= MaxTotalDecompressed
      BY <2>2, <2>3, <2>4, CompressorAssumption, ReaderLimitsAssumption
    <2> QED BY <2>5 DEF t, e
  <1>11. Total(used) <= MaxTotalDecompressed
    BY <1>7, <1>10 DEF f
  <1> HIDE DEF used, found
  <1>12. extract_file(disk, path) = Reassemble(table[f], blocks)
    <2>1. found # {} /\ FileIntact(table[first], blocks)
      BY <1>5, <1>7, <1>9 DEF f
    <2> QED BY <1>1, <1>2, <1>11, <2>1 DEF f
  <1> QED BY <1>7, <1>8, <1>9, <1>12 DEF path

\* Every reader gives back the files of a finished archive, completely, when
\* no path is one that extraction refuses, files stored under one path have
\* equal content, and the counts are within the readers' limits.
THEOREM ReadsBack ==
    ASSUME PlainPaths, PathsDistinct
    PROVE  Spec => [](WithinReaderLimits => FinishedReadsBack)
  <1>1. IInv /\ Plan /\ Image /\ Amounts /\ Ranges /\ OnDisk =>
           (WithinReaderLimits => FinishedReadsBack)
    <2> SUFFICES ASSUME IInv, Plan, Image, Amounts, Ranges, OnDisk, WithinReaderLimits, pc = "done"
                 PROVE  /\ extract_all(disk) = Complete
                        /\ extract_all_streaming(disk) = Complete
                        /\ verify(disk) /\ verify_streaming(disk)
                        /\ \A i \in DOMAIN input :
                              extract_file(disk, StoredPath(input[i])) = input[i].data
      BY DEF FinishedReadsBack
    <2> DEFINE n == Len(entries)
               h == At(disk, 0)
               table == FileTable(disk, h, Offset(call))
    <2>1. MetadataOk(disk) /\ MetadataOkStreaming(disk)
      BY FinalMetadata
    <2>2. /\ DecodedIndex(disk) = Written /\ DecodedStream(disk) = Written
          /\ BlocksOk(DecodedIndex(disk))
      BY <2>1, AcceptedBlocks
    <2>3. HeaderOk(disk) /\ TablesOk(disk, h, Offset(call)) /\ table = [i \in 1 .. n |-> entries[i]]
      BY FinalTables
    <2>4. /\ TableOf(call, Len(input), table)
          /\ \A i \in DOMAIN table : FileIntact(table[i], Written)
      <3>1. TableOf(call, Len(input), table)
        BY <2>3, ReadTable
      <3>2. \A i \in 1 .. n : FileIntact(entries[i], Written)
        BY FinalFiles
      <3> HIDE DEF n, table
      <3> QED BY <2>3, <3>1, <3>2
    <2> HIDE DEF table
    <2>5. ExtractFiles(table, Written) = Complete
      BY <2>4, ExtractsAll
    <2>6. /\ LastFooter(disk).file_table_offset = Offset(call)
          /\ 1 + Len(Prefix(At(disk, 0))) = Offset(call)
      BY <2>1, <2>3, ReadFooter, ReadPrefix
    <2>7. extract_all(disk) = Complete
      BY <2>1, <2>2, <2>5, <2>6 DEF extract_all, table, h
    <2>8. extract_all_streaming(disk) = Complete
      BY <2>1, <2>2, <2>5, <2>6 DEF extract_all_streaming, table, h
    <2>9. verify(disk)
      BY <2>1, <2>2, <2>4, <2>6 DEF verify, BlocksOk, table, h
    <2>10. verify_streaming(disk)
      BY <2>1, <2>2 DEF verify_streaming, BlocksOk
    <2> QED BY <2>7, <2>8, <2>9, <2>10, FinalFile
  <1> QED BY <1>1, ArchiveInvariance, PTL

------------------------------------------------------------------------------
(* The layout.                                                             *)

\* The blocks expected of group g, and those of the first n groups.
Expected(c, table, g) ==
    LET s == table[g].indices IN
    FlattenSeq([k \in DOMAIN s |->
                  IF \A j \in 1 .. k - 1 : c.files[s[j]].data # c.files[s[k]].data
                  THEN Chunks(c.files[s[k]].data) ELSE << >>])

Laid(c, table, n) == [g \in 1 .. n |-> Expected(c, table, g)]

\* What the first n results of a group have for blocks.
BlocksOf(row, n) == [k \in 1 .. n |-> row[k].blocks]

\* The files of the group before the cursor, and the blocks of the one at it.
Here(table, rows, c) ==
    IF c.g <= Len(table) THEN FlattenSeq(BlocksOf(rows[c.g], c.f - 1)) ELSE << >>

Now(table, rows, c) ==
    IF c.g <= Len(table) /\ c.f <= Len(rows[c.g])
    THEN SubSeq(rows[c.g][c.f].blocks, 1, c.b - 1) ELSE << >>

\* An entry of the group table describes group g, of m of the n blocks.
GroupDone(e, g, m, index, n) ==
    /\ e.block_count = m /\ e.first_block_idx \in Nat /\ e.first_block_idx + m <= n
    /\ \A b \in 1 .. n : (b \in e.first_block_idx + 1 .. e.first_block_idx + m)
                         <=> index[b].solid_group_id = g - 1

GroupsDone(h) ==
    \A g \in 1 .. Len(groups) :
       g < h => GroupDone(solid_group_entries[g], g, Len(Expected(call, groups, g)),
                          all_block_indices, block_id_counter)

\* The blocks of the group at the cursor are those from its first on.
OwnBlocks(index, n, g, first) ==
    \A b \in 1 .. n : /\ index[b].solid_group_id \in 0 .. g - 1
                      /\ index[b].solid_group_id = g - 1 <=> b > first

Laying ==
    /\ Written = (FlattenSeq(Laid(call, groups, cur.g - 1)) \o Here(groups, results, cur))
                 \o Now(groups, results, cur)
    /\ cur.first = Len(FlattenSeq(Laid(call, groups, cur.g - 1))) /\ cur.first <= block_id_counter
    /\ OwnBlocks(all_block_indices, block_id_counter, cur.g, cur.first)
    /\ GroupsDone(cur.g)

GroupIds == \A g \in 1 .. Len(groups) : solid_group_entries[g].group_id = g - 1

Layout ==
    /\ GroupIds
    /\ Writing => Laying
    /\ Finishing => /\ Written = FlattenSeq(Laid(call, groups, Len(groups)))
                    /\ GroupsDone(Len(groups) + 1)

\* The property's words for it.
LEMMA ExpectedIs == \A g : ExpectedOfGroup(g) = Expected(call, groups, g)
  BY DEF ExpectedOfGroup, Expected, GroupMembers, FirstInGroup, input

\* The empty sequence is one.
LEMMA NoneIsSeq == IsSeq(<< >>) /\ Len(<< >>) = 0
  <1>1. << >> \in Seq({})
    OBVIOUS
  <1> QED BY <1>1 DEF IsSeq

\* The blocks expected of a group are a sequence.
LEMMA ExpectedSeq ==
    ASSUME IInv, Plan, NEW g \in 1 .. Len(groups)
    PROVE  IsSeq(Expected(call, groups, g))
  <1> DEFINE s == groups[g].indices
             B(k) == IF \A j \in 1 .. k - 1 : call.files[s[j]].data # call.files[s[k]].data
                     THEN Chunks(call.files[s[k]].data) ELSE << >>
             q == [k \in DOMAIN s |-> B(k)]
  <1>1. PlanOk(call, groups) /\ call \in Calls
    BY Planned DEF Plan, IInv, Typed
  <1>2. Len(s) \in Nat /\ DOMAIN s = 1 .. Len(s) /\ \A k \in 1 .. Len(s) : s[k] \in DOMAIN input
    <2>1. IsSeq(s) /\ \A k \in 1 .. Len(s) : s[k] \in DOMAIN input
      BY <1>1 DEF PlanOk, input
    <2> QED BY <2>1, SeqDomain
  <1>3. ASSUME NEW k \in 1 .. Len(s) PROVE IsSeq(B(k))
    <2> DEFINE d == input[s[k]].data
    <2>1. d \in Seq(Range(d))
      BY <1>1, <1>2, CallFiles DEF input
    <2> HIDE DEF d
    <2>2. IsSeq(Chunks(d))
      BY <2>1, ChunksOf
    <2>3. B(k) = Chunks(d) \/ B(k) = << >>
      BY DEF d, input
    <2> HIDE DEF B
    <2> QED BY <2>2, <2>3, NoneIsSeq
  <1>4. Expected(call, groups, g) = FlattenSeq(q)
    BY DEF Expected
  <1> HIDE DEF B
  <1>5. q = [k \in 1 .. Len(s) |-> q[k]] /\ \A k \in 1 .. Len(s) : IsSeq(q[k])
    BY <1>2, <1>3
  <1> HIDE DEF q
  <1>6. IsSeq(FlattenSeq(q))
    BY <1>2, <1>5, FlattenIsSeq
  <1> QED BY <1>4, <1>6

\* One group more.
LEMMA LaidMore ==
    ASSUME IInv, Plan, NEW g \in 1 .. Len(groups)
    PROVE  /\ FlattenSeq(Laid(call, groups, g)) = FlattenSeq(Laid(call, groups, g - 1)) \o Expected(call, groups, g)
           /\ IsSeq(FlattenSeq(Laid(call, groups, g - 1))) /\ IsSeq(FlattenSeq(Laid(call, groups, g)))
  <1> DEFINE n == g - 1
             q == Laid(call, groups, n)
             r == Laid(call, groups, n + 1)
  <1>1. n \in Nat /\ n + 1 = g /\ g \in Nat
    BY Sizes
  <1>2. \A k \in 1 .. n + 1 : k \in 1 .. Len(groups)
    BY <1>1, Sizes
  <1> HIDE DEF n
  <1>3. q = [k \in 1 .. n |-> q[k]] /\ r = [k \in 1 .. n + 1 |-> r[k]]
        /\ \A k \in 1 .. n : r[k] = q[k]
    BY <1>1 DEF Laid
  <1>4. \A k \in 1 .. n + 1 : IsSeq(r[k])
    BY <1>2, ExpectedSeq DEF Laid
  <1>5. r[n + 1] = Expected(call, groups, g)
    BY <1>1 DEF Laid
  <1>6. IsSeq(r[n + 1]) /\ \A k \in 1 .. n : IsSeq(q[k])
    BY <1>1, <1>3, <1>4
  <1> HIDE DEF q, r
  <1>7. FlattenSeq(r) = FlattenSeq(q) \o r[n + 1]
    BY <1>1, <1>3, <1>6, FlattenMore
  <1>8. IsSeq(FlattenSeq(q))
    BY <1>1, <1>3, <1>6, FlattenIsSeq
  <1>9. IsSeq(FlattenSeq(r))
    BY <1>6, <1>7, <1>8, JoinSeq
  <1> QED BY <1>1, <1>5, <1>7, <1>8, <1>9 DEF q, r, n

\* None yet.
LEMMA LaidNone == FlattenSeq(Laid(call, groups, 0)) = << >>
  <1> DEFINE q == Laid(call, groups, 0)
  <1>1. q = [k \in 1 .. 0 |-> q[k]]
    BY DEF Laid
  <1> HIDE DEF q
  <1>2. FlattenSeq(q) = << >>
    BY <1>1, FlattenNone
  <1> QED BY <1>2 DEF q

\* The blocks of a result are a sequence.
LEMMA BlocksSeq ==
    ASSUME IInv, Plan, NEW g \in 1 .. Len(groups), NEW k \in 1 .. Len(results[g])
    PROVE  IsSeq(results[g][k].blocks)
  <1> DEFINE r == results[g][k]
             i == groups[g].indices[k]
             d == input[i].data
  <1>1. i \in DOMAIN input /\ (r.dup_of = 0 => r.blocks = Chunks(d))
    BY ResultAt
  <1>2. r.dup_of # 0 => r.blocks = << >>
    BY DEF Plan, Results, RowOk, ResultOk
  <1>3. d \in Seq(Range(d))
    BY <1>1, CallFiles DEF input, IInv, Typed
  <1> HIDE DEF d, r
  <1>4. IsSeq(Chunks(d))
    BY <1>3, ChunksOf
  <1>5. IsSeq(r.blocks)
    BY <1>1, <1>2, <1>4, NoneIsSeq
  <1> QED BY <1>5 DEF r

\* One file of a group more.
LEMMA FilesMore ==
    ASSUME IInv, Plan, NEW g \in 1 .. Len(groups), NEW k \in 1 .. Len(results[g])
    PROVE  /\ FlattenSeq(BlocksOf(results[g], k))
                = FlattenSeq(BlocksOf(results[g], k - 1)) \o results[g][k].blocks
           /\ IsSeq(FlattenSeq(BlocksOf(results[g], k - 1))) /\ IsSeq(FlattenSeq(BlocksOf(results[g], k)))
  <1> DEFINE n == k - 1
             q == BlocksOf(results[g], n)
             r == BlocksOf(results[g], n + 1)
  <1>0. Len(results[g]) \in Nat
    BY ResultAt
  <1>1. n \in Nat /\ n + 1 = k /\ k \in Nat /\ \A j \in 1 .. n + 1 : j \in 1 .. Len(results[g])
    BY <1>0
  <1> HIDE DEF n
  <1>3. q = [j \in 1 .. n |-> q[j]] /\ r = [j \in 1 .. n + 1 |-> r[j]]
        /\ \A j \in 1 .. n : r[j] = q[j]
    BY <1>1 DEF BlocksOf
  <1>4. \A j \in 1 .. n + 1 : IsSeq(r[j])
    BY <1>1, BlocksSeq DEF BlocksOf
  <1>5. r[n + 1] = results[g][k].blocks
    BY <1>1 DEF BlocksOf
  <1>6. IsSeq(r[n + 1]) /\ \A j \in 1 .. n : IsSeq(q[j])
    <2> HIDE DEF q, r
    <2>1. \A j \in 1 .. n : j \in 1 .. n + 1
      BY <1>1
    <2>2. n + 1 \in 1 .. n + 1
      BY <1>1
    <2> QED BY <2>1, <2>2, <1>3, <1>4
  <1> HIDE DEF q, r
  <1>7. FlattenSeq(r) = FlattenSeq(q) \o r[n + 1]
    BY <1>1, <1>3, <1>6, FlattenMore
  <1>8. IsSeq(FlattenSeq(q))
    BY <1>1, <1>3, <1>6, FlattenIsSeq
  <1>9. IsSeq(FlattenSeq(r))
    BY <1>6, <1>7, <1>8, JoinSeq
  <1> QED BY <1>1, <1>5, <1>7, <1>8, <1>9 DEF q, r, n

\* None of a group yet.
LEMMA FilesNone == ASSUME NEW row PROVE FlattenSeq(BlocksOf(row, 0)) = << >>
  <1> DEFINE q == BlocksOf(row, 0)
  <1>1. q = [k \in 1 .. 0 |-> q[k]]
    BY DEF BlocksOf
  <1> HIDE DEF q
  <1>2. FlattenSeq(q) = << >>
    BY <1>1, FlattenNone
  <1> QED BY <1>2 DEF q

\* When all files of a group are compressed, its blocks are those expected:
\* the pool skips the duplicates, and nothing else.
LEMMA GroupComplete ==
    ASSUME IInv, Plan, NEW g \in 1 .. Len(groups), Len(results[g]) = Len(groups[g].indices)
    PROVE  FlattenSeq(BlocksOf(results[g], Len(results[g]))) = Expected(call, groups, g)
  <1> DEFINE s == groups[g].indices
             n == Len(results[g])
             B(k) == IF \A j \in 1 .. k - 1 : call.files[s[j]].data # call.files[s[k]].data
                     THEN Chunks(call.files[s[k]].data) ELSE << >>
  <1>1. IsSeq(s) /\ RowOk(call, s, results[g])
    BY Planned DEF Plan, Results, PlanOk
  <1>2. DOMAIN s = 1 .. n /\ n \in Nat
    BY <1>1, SeqDomain
  <1>3. ASSUME NEW k \in 1 .. n PROVE results[g][k].blocks = B(k)
    <2>1. ResultOk(call, s, results[g], k)
      BY <1>1, <1>3 DEF RowOk
    <2>2. CASE results[g][k].dup_of = 0
      <3> QED BY <2>1, <2>2 DEF ResultOk
    <2>3. CASE results[g][k].dup_of # 0
      <3> QED BY <2>1, <2>3 DEF ResultOk
    <2> QED BY <2>2, <2>3
  <1>4. BlocksOf(results[g], n) = [k \in DOMAIN s |-> B(k)]
    <2> HIDE DEF B, s, n
    <2> QED BY <1>2, <1>3 DEF BlocksOf
  <1>5. Expected(call, groups, g) = FlattenSeq([k \in DOMAIN s |-> B(k)])
    BY DEF Expected
  <1> HIDE DEF B, s, n
  <1> QED BY <1>4, <1>5 DEF n

\* An element behind a sequence.
LEMMA OneBehind ==
    ASSUME NEW s, NEW t, IsSeq(s), IsSeq(t), NEW x, Len(t) = Len(s) + 1,
           \A i \in 1 .. Len(s) : t[i] = s[i], t[Len(s) + 1] = x
    PROVE  t = s \o <<x>>
  <1>1. <<x>> \in Seq({x}) /\ Len(<<x>>) = 1 /\ <<x>>[1] = x
    OBVIOUS
  <1> DEFINE y == <<x>>
             u == s \o y
  <1>2. PICK S : s \in Seq(S) /\ t \in Seq(S) /\ y \in Seq(S)
    <2>1. IsSeq(y)
      BY <1>1 DEF IsSeq
    <2> HIDE DEF y
    <2> QED BY <2>1, CommonSet
  <1>3. Len(y) = 1 /\ y[1] = x
    BY <1>1
  <1> HIDE DEF y
  <1>4. /\ u \in Seq(S) /\ Len(s) \in Nat /\ Len(u) = Len(s) + 1
        /\ \A i \in 1 .. Len(s) : u[i] = s[i]
        /\ \A i \in 1 .. 1 : u[Len(s) + i] = y[i]
    <2>1. /\ s \o y \in Seq(S) /\ Len(s) \in Nat /\ Len(s \o y) = Len(s) + Len(y)
          /\ (\A i \in 1 .. Len(s) : (s \o y)[i] = s[i])
          /\ (\A i \in 1 .. Len(y) : (s \o y)[Len(s) + i] = y[i])
      BY <1>2, JoinElements
    <2> QED BY <1>3, <2>1
  <1> HIDE DEF u
  <1>5. u[Len(s) + 1] = x
    BY <1>3, <1>4
  <1>6. \A i \in 1 .. Len(t) : t[i] = u[i]
    BY <1>4, <1>5
  <1>7. t = u
    BY <1>2, <1>4, <1>6, SeqEqual
  <1> QED BY <1>7 DEF u, y

\* One block of a file more.
LEMMA PartMore ==
    ASSUME NEW s, IsSeq(s), NEW k \in 1 .. Len(s)
    PROVE  /\ SubSeq(s, 1, k) = SubSeq(s, 1, k - 1) \o <<s[k]>>
           /\ IsSeq(SubSeq(s, 1, k - 1)) /\ IsSeq(<<s[k]>>)
  <1>1. PICK S : s \in Seq(S)
    BY DEF IsSeq
  <1>2. Len(s) \in Nat /\ \A i \in 1 .. Len(s) : s[i] \in S
    BY <1>1, LenProperties
  <1>3. 1 \in 1 .. Len(s) /\ k \in 1 .. Len(s)
    BY <1>2
  <1>4. SubSeq(s, 1, k) = SubSeq(s, 1, k - 1) \o <<s[k]>>
    BY <1>1, <1>3, SubSeqRecursiveSecond
  <1>5. SubSeq(s, 1, k - 1) \in Seq(S)
    <2> DEFINE m == k - 1
    <2>1. m \in Int /\ 1 \in Int /\ \A i \in 1 .. m : s[i] \in S
      BY <1>2
    <2> HIDE DEF m
    <2>2. SubSeq(s, 1, m) \in Seq(S)
      BY <2>1, SubSeqProperties
    <2> QED BY <2>2 DEF m
  <1>6. <<s[k]>> \in Seq(S)
    BY <1>2
  <1> QED BY <1>4, <1>5, <1>6 DEF IsSeq

\* The table with another range for group h.
Ranged(table, h, x, y, new) ==
    new = [table EXCEPT ![h].first_block_idx = x, ![h].block_count = y]

\* The range of an entry is set, of one group only.
LEMMA NewGroupRange ==
    ASSUME IInv, NEW h \in 1 .. Len(groups), NEW x, NEW y,
           Ranged(solid_group_entries, h, x, y, solid_group_entries')
    PROVE  /\ solid_group_entries'[h].first_block_idx = x /\ solid_group_entries'[h].block_count = y
           /\ solid_group_entries'[h].group_id = solid_group_entries[h].group_id
           /\ \A g \in 1 .. Len(groups) : g # h => solid_group_entries'[g] = solid_group_entries[g]
  <1> DEFINE d == solid_group_entries[h]
             e == [d EXCEPT !.first_block_idx = x]
             f == [e EXCEPT !.block_count = y]
  <1>1. GroupEntry(d)
    BY DEF IInv, Tables
  <1>2. solid_group_entries' = [solid_group_entries EXCEPT ![h] = f]
    BY DEF Ranged
  <1>3. f.first_block_idx = x /\ f.block_count = y /\ f.group_id = d.group_id
    <2> HIDE DEF d
    <2>1. d = [k |-> "group", group_id |-> d.group_id, content_type |-> d.content_type,
               first_block_idx |-> d.first_block_idx, block_count |-> d.block_count,
               file_count |-> d.file_count]
      BY <1>1 DEF GroupEntry
    <2>2. "first_block_idx" \in DOMAIN d /\ "block_count" \in DOMAIN d /\ "group_id" \in DOMAIN d
      BY <2>1
    <2> QED BY <2>2
  <1>4. DOMAIN solid_group_entries = 1 .. Len(groups)
    BY Sizes
  <1> HIDE DEF f
  <1> QED BY <1>2, <1>3, <1>4

\* The entries name their groups from their making on.
LEMMA GroupIdsNext == ASSUME IInv, Plan, GroupIds, [Next]_vars PROVE GroupIds'
  <1>1. CASE GroupFiles
    <2>1. /\ groups' = group_files(FileInfos) /\ Len(entries) = Len(input)
          /\ solid_group_entries' =
                [g \in DOMAIN groups' |-> [k |-> "group", group_id |-> groups'[g].group_id,
                                           content_type |-> groups'[g].type,
                                           first_block_idx |-> 0, block_count |-> 0,
                                           file_count |-> Len(groups'[g].indices)]]
      BY <1>1 DEF GroupFiles
    <2>2. FileInfos = Infos(call) /\ call \in Calls
      BY <2>1, InfosAre DEF IInv, Typed
    <2>3. PlanOk(call, groups')
      BY <2>1, <2>2, GroupsPlanned
    <2>4. DOMAIN groups' = 1 .. Len(groups')
      BY <2>3, SeqDomain DEF PlanOk
    <2> QED BY <2>1, <2>3, <2>4 DEF GroupIds, PlanOk
  <1>2. CASE EndGroup
    <2> DEFINE h == cur.g
               x == cur.first
               y == block_id_counter - cur.first
    <2>1. /\ pc = "blocks" /\ h <= Len(groups) /\ groups' = groups
          /\ Ranged(solid_group_entries, h, x, y, solid_group_entries')
      BY <1>2 DEF EndGroup, Ranged
    <2>2. h \in 1 .. Len(groups)
      BY <2>1, Sizes DEF Plan, Cursor, CursorOk, Writing
    <2> HIDE DEF h, x, y
    <2>3. /\ solid_group_entries'[h].group_id = solid_group_entries[h].group_id
          /\ \A g \in 1 .. Len(groups) : g # h => solid_group_entries'[g] = solid_group_entries[g]
      BY <2>1, <2>2, NewGroupRange
    <2> QED BY <2>1, <2>3 DEF GroupIds
  <1>3. CASE UNCHANGED <<groups, solid_group_entries>>
    BY <1>3 DEF GroupIds
  <1>4. \/ ScanFile \/ StartPhaseA \/ (\E g \in DOMAIN groups : CompressFile(g)) \/ JoinGroups
        \/ ShareBlocks \/ EndFile \/ Finish \/ Fail \/ UNCHANGED vars
        => UNCHANGED <<groups, solid_group_entries>>
    BY DEF ScanFile, StartPhaseA, CompressFile, JoinGroups, ShareBlocks, EndFile, Finish, Fail, vars
  <1>5. Write => UNCHANGED <<groups, solid_group_entries>>
    BY DEF Write, WritePlaceholder, WritePrefix, WriteFileEntry, WriteGroupEntry, WriteBlockHeader,
       WritePayload, WriteTrailer, WriteIndexEntry, WriteFooter, TearHeader, PatchHeader,
       PatchChunkStart, PatchChunkCount, PatchGroupEntry
  <1> QED BY <1>1, <1>2, <1>3, <1>4, <1>5 DEF Next, Proceed

\* A step that leaves the blocks and the place in them as they are.
LEMMA LayoutQuiet ==
    ASSUME IInv, Image, Layout, GroupIds', DiskStep, SameSizes,
           UNCHANGED <<block_id_counter, solid_group_entries, all_block_indices>>,
           Writing' => Writing /\ UNCHANGED <<cur, results>>,
           Finishing' => Finishing
    PROVE  Layout'
  <1>1. Written' = Written /\ UNCHANGED <<call, groups>>
    BY WrittenKept DEF SameSizes
  <1>2. Writing' => Laying'
    <2> SUFFICES ASSUME Writing' PROVE Laying'
      OBVIOUS
    <2>1. cur' = cur /\ results' = results /\ Laying
      BY DEF Layout
    <2> QED BY <1>1, <2>1 DEF Laying, GroupsDone
  <1>3. Finishing' => /\ Written' = FlattenSeq(Laid(call', groups', Len(groups')))
                      /\ GroupsDone(Len(groups) + 1)'
    BY <1>1 DEF Layout, GroupsDone
  <1> QED BY <1>2, <1>3 DEF Layout

\* Nothing is laid out at the start.
LEMMA LayoutJoinGroups == ASSUME IInv, Plan, JoinGroups, GroupIds' PROVE Layout'
  <1>1. /\ pc = "compress" /\ pc' = "blocks" /\ cur' = Start
        /\ UNCHANGED <<call, groups, results, entries, disk, block_id_counter, all_block_indices>>
    BY DEF JoinGroups, counters
  <1>2. cur'.g = 1 /\ cur'.f = 1 /\ cur'.b = 1 /\ cur'.first = 0 /\ block_id_counter = 0
    BY <1>1 DEF Start, Plan, Cursor
  <1>3. Written' = << >>
    BY <1>1, <1>2 DEF Written
  <1>4. FlattenSeq(Laid(call, groups, 0)) = << >> /\ Len(<< >>) = 0 /\ IsSeq(<< >>)
    BY LaidNone, NoneIsSeq
  <1>5. Here(groups, results, cur') = << >>
    <2> DEFINE c == cur'
    <2>1. c.f - 1 = 0
      BY <1>2
    <2> HIDE DEF c
    <2> QED BY <2>1, FilesNone DEF Here, c
  <1>6. Now(groups, results, cur') = << >>
    <2> DEFINE c == cur'
    <2>1. c.b - 1 = 0
      BY <1>2
    <2>2. ASSUME NEW s PROVE SubSeq(s, 1, 0) = << >>
      BY SubSeqEmpty
    <2> HIDE DEF c
    <2> QED BY <2>1, <2>2 DEF Now, c
  <1>7. (<< >> \o << >>) \o << >> = << >>
    BY <1>4, JoinSeq
  <1>8. cur'.g - 1 = 0
    BY <1>2
  <1>9. OwnBlocks(all_block_indices, 0, cur'.g, cur'.first)
    BY DEF OwnBlocks
  <1>10. GroupsDone(cur.g)'
    BY <1>2 DEF GroupsDone
  <1>11. Laying'
    BY <1>1, <1>2, <1>3, <1>4, <1>5, <1>6, <1>7, <1>8, <1>9, <1>10 DEF Laying
  <1> QED BY <1>1, <1>11 DEF Layout, Finishing

\* What is laid out is a sequence.
LEMMA LaidSeq ==
    ASSUME IInv, Plan, NEW n \in 0 .. Len(groups) PROVE IsSeq(FlattenSeq(Laid(call, groups, n)))
  <1>1. CASE n = 0
    BY <1>1, LaidNone, NoneIsSeq
  <1>2. CASE n # 0
    <2>1. n \in 1 .. Len(groups)
      BY <1>2, Sizes
    <2> QED BY <2>1, LaidMore
  <1> QED BY <1>1, <1>2

\* A block of another group changes nothing for one that is done.
LEMMA GroupStays ==
    ASSUME NEW e, NEW g \in Int, NEW m \in Nat, NEW index, NEW new, NEW n \in Nat,
           GroupDone(e, g, m, index, n), \A b \in 1 .. n : new[b] = index[b],
           new[n + 1].solid_group_id # g - 1
    PROVE  GroupDone(e, g, m, new, n + 1)
  <1> DEFINE s == e.first_block_idx
  <1>1. e.block_count = m /\ s \in Nat /\ s + m <= n
        /\ \A b \in 1 .. n : (b \in s + 1 .. s + m) <=> index[b].solid_group_id = g - 1
    BY DEF GroupDone
  <1> HIDE DEF s
  <1>2. s + m <= n + 1
    BY <1>1
  <1>3. ASSUME NEW b \in 1 .. n + 1
        PROVE  (b \in s + 1 .. s + m) <=> new[b].solid_group_id = g - 1
    <2>1. CASE b = n + 1
      <3>1. ~(b \in s + 1 .. s + m)
        BY <1>1, <2>1
      <3> QED BY <2>1, <3>1
    <2>2. CASE b # n + 1
      <3>1. b \in 1 .. n
        BY <2>2
      <3> QED BY <1>1, <3>1
    <2> QED BY <2>1, <2>2
  <1> QED BY <1>1, <1>2, <1>3 DEF GroupDone, s

\* So the groups done stay done when a block of the group at the cursor is added.
LEMMA GroupsStay ==
    ASSUME IInv, Plan, GroupsDone(cur.g), WriteTrailer, cur'.g = cur.g, cur.g \in Int,
           \A b \in 1 .. block_id_counter : all_block_indices'[b] = all_block_indices[b],
           all_block_indices'[block_id_counter + 1].solid_group_id = cur.g - 1
    PROVE  GroupsDone(cur.g)'
  <1> SUFFICES ASSUME NEW g \in 1 .. Len(groups), g < cur.g
               PROVE  GroupDone(solid_group_entries[g], g, Len(Expected(call, groups, g)),
                                all_block_indices', block_id_counter + 1)
    BY DEF GroupsDone, WriteTrailer, NextBlockId
  <1> DEFINE n == block_id_counter
             m == Len(Expected(call, groups, g))
             e == solid_group_entries[g]
             x == all_block_indices
             y == all_block_indices'
  <1>1. n \in Nat /\ g \in Int
    BY Ends
  <1>2. m \in Nat
    BY ExpectedSeq, SeqDomain
  <1>3. GroupDone(e, g, m, x, n)
    BY DEF GroupsDone
  <1>4. y[n + 1].solid_group_id # g - 1
    BY <1>1
  <1>5. \A b \in 1 .. n : y[b] = x[b]
    OBVIOUS
  <1> HIDE DEF n, m, e, x, y
  <1>6. GroupDone(e, g, m, y, n + 1)
    BY <1>1, <1>2, <1>3, <1>4, <1>5, GroupStays
  <1> QED BY <1>6 DEF n, m, e, y

\* A block more.
LEMMA LayoutWriteTrailer ==
    ASSUME IInv, Plan, Image, Layout, GroupIds', WriteTrailer PROVE Layout'
  <1> DEFINE n == block_id_counter
             x == CurrentChunk
             A == FlattenSeq(Laid(call, groups, cur.g - 1))
             H == Here(groups, results, cur)
             P == Now(groups, results, cur)
  <1>1. /\ pc = "trailer" /\ pc' = "blocks" /\ n \in Nat /\ block_id_counter' = n + 1
        /\ DOMAIN Written = 1 .. n /\ DOMAIN Written' = 1 .. n + 1
        /\ \A b \in 1 .. n : Written'[b] = Written[b]
        /\ Written'[n + 1] = x
        /\ cur'.g = cur.g /\ cur'.f = cur.f /\ cur'.b = cur.b + 1 /\ cur'.first = cur.first
    BY TrailerWritten
  <1>2. UNCHANGED <<call, groups, results, solid_group_entries>>
    BY DEF WriteTrailer, SameSizes
  <1>3. Laying
    BY <1>1 DEF Layout, Writing
  <1>4. /\ cur.g \in 1 .. Len(groups) /\ cur.f \in 1 .. Len(results[cur.g])
        /\ cur.b \in 1 .. Len(Current.blocks) /\ Len(groups) \in Nat /\ Len(results[cur.g]) \in Nat
    <2>1. cur.g \in 1 .. Len(groups) /\ cur.f \in 1 .. Len(results[cur.g])
          /\ cur.b \in 1 .. Len(Current.blocks)
      BY <1>1, ChunkAtCursor
    <2> QED BY <2>1, Sizes, SeqDomain DEF Plan, Results, RowOk
  <1>5. IsSeq(A) /\ IsSeq(H) /\ IsSeq(P) /\ IsSeq(<<x>>)
        /\ Now(groups, results, cur') = P \o <<x>>
    <2> DEFINE g == cur.g
               k == cur.f
               b == cur.b
               s == results[g][k].blocks
    <2>1. g \in 1 .. Len(groups) /\ k \in 1 .. Len(results[g]) /\ b \in 1 .. Len(s)
      BY <1>4 DEF Current
    <2>2. /\ A = FlattenSeq(Laid(call, groups, g - 1))
          /\ H = FlattenSeq(BlocksOf(results[g], k - 1))
          /\ P = SubSeq(s, 1, b - 1) /\ x = s[b]
      BY <1>4 DEF Here, Now, CurrentChunk, Current
    <2>3. Now(groups, results, cur') = SubSeq(s, 1, b)
      <3>1. cur'.b - 1 = b
        <4>1. b \in Int
          BY <2>1
        <4> HIDE DEF b
        <4>2. cur'.b = b + 1
          BY <1>1 DEF b
        <4> QED BY <4>1, <4>2
      <3> QED BY <1>1, <1>4, <3>1 DEF Now
    <2> HIDE DEF A, H, P, x, g, k, b
    <2>4. IsSeq(A)
      BY <2>1, <2>2, LaidMore
    <2>5. IsSeq(H)
      BY <2>1, <2>2, FilesMore
    <2>6. IsSeq(s)
      BY <2>1, BlocksSeq
    <2> HIDE DEF s
    <2>7. SubSeq(s, 1, b) = SubSeq(s, 1, b - 1) \o <<s[b]>>
           /\ IsSeq(SubSeq(s, 1, b - 1)) /\ IsSeq(<<s[b]>>)
      BY <2>1, <2>6, PartMore
    <2> QED BY <2>2, <2>3, <2>4, <2>5, <2>7
  <1>6. Written' = Written \o <<x>>
    <2> DEFINE s == Written
               t == Written'
    <2>1. s = [b \in 1 .. n |-> s[b]] /\ t = [b \in 1 .. n + 1 |-> t[b]]
      BY <1>1 DEF Written
    <2>2. n \in Nat /\ n + 1 \in Nat /\ (\A b \in 1 .. n : t[b] = s[b]) /\ t[n + 1] = x
      BY <1>1
    <2> HIDE DEF s, t, n, x
    <2>3. IsSeq(s) /\ Len(s) = n
      BY <2>1, <2>2, IntervalSeq
    <2>4. IsSeq(t) /\ Len(t) = n + 1
      BY <2>1, <2>2, IntervalSeq
    <2>5. t = s \o <<x>>
      BY <2>2, <2>3, <2>4, OneBehind
    <2> QED BY <2>5 DEF s, t
  <1>7. Written = (A \o H) \o P
    BY <1>3 DEF Laying
  <1>8. Here(groups, results, cur') = H
    BY <1>1 DEF Here
  <1>9. Written' = (A \o H) \o Now(groups, results, cur')
    <2> DEFINE y == <<x>>
               AH == A \o H
    <2>1. IsSeq(y) /\ Written' = (AH \o P) \o y /\ Now(groups, results, cur') = P \o y
      BY <1>5, <1>6, <1>7
    <2> HIDE DEF y, A, H, P
    <2>2. IsSeq(AH) /\ IsSeq(P) /\ IsSeq(y)
      BY <1>5, <2>1, JoinSeq
    <2> HIDE DEF AH
    <2>3. (AH \o P) \o y = AH \o (P \o y)
      BY <2>2, JoinThree
    <2>4. Written' = AH \o Now(groups, results, cur')
      BY <2>1, <2>3
    <2> QED BY <2>4 DEF AH
  <1>10. /\ \A b \in 1 .. n : all_block_indices'[b] = all_block_indices[b]
         /\ all_block_indices'[n + 1].solid_group_id = cur.g - 1
    <2> DEFINE rec == [k |-> "index", block_id |-> block_id_counter,
                       archive_offset |-> Len(disk) - 2,
                       uncompressed_size |-> Len(CurrentChunk),
                       solid_group_id |-> groups[cur.g].group_id]
    <2>1. all_block_indices' = Append(all_block_indices, rec)
      BY DEF WriteTrailer
    <2>2. rec.solid_group_id = groups[cur.g].group_id
      OBVIOUS
    <2> HIDE DEF rec
    <2>3. IsSeq(all_block_indices) /\ Len(all_block_indices) = n
      BY DEF IInv, Typed
    <2>4. groups[cur.g].group_id = cur.g - 1
      BY <1>4, Planned DEF Plan, PlanOk
    <2> HIDE DEF n
    <2> QED BY <2>1, <2>2, <2>3, <2>4, AppendSeq
  <1>11. OwnBlocks(all_block_indices', n + 1, cur'.g, cur'.first) /\ cur'.first <= n + 1
    <2> DEFINE g == cur.g
               s == cur.first
               y == all_block_indices'
    <2>1. /\ g \in 1 .. Len(groups) /\ s <= n /\ s \in Int
          /\ \A b \in 1 .. n : y[b].solid_group_id \in 0 .. g - 1
          /\ \A b \in 1 .. n : y[b].solid_group_id = g - 1 <=> b > s
          /\ y[n + 1].solid_group_id = g - 1
      <3>1. s = Len(A) /\ s <= n /\ OwnBlocks(all_block_indices, n, g, s)
        BY <1>3 DEF Laying
      <3>2. s \in Int
        <4> HIDE DEF A, s
        <4>1. Len(A) \in Nat
          BY <1>5, SeqDomain
        <4> QED BY <3>1, <4>1
      <3> QED BY <1>4, <1>10, <3>1, <3>2 DEF OwnBlocks
    <2>2. cur'.g = g /\ cur'.first = s
      BY <1>1
    <2> HIDE DEF g, s, y, n
    <2>3. g - 1 \in 0 .. g - 1 /\ n + 1 > s /\ s <= n + 1
      BY <1>1, <1>4, <2>1
    <2>4. \A b \in 1 .. n + 1 : b \in 1 .. n \/ b = n + 1
      BY <1>1
    <2>5. OwnBlocks(y, n + 1, g, s)
      BY <2>1, <2>3, <2>4 DEF OwnBlocks
    <2> QED BY <2>2, <2>3, <2>5 DEF y
  <1>12. GroupsDone(cur.g)'
    BY <1>1, <1>3, <1>4, <1>10, GroupsStay DEF Laying
  <1>13. cur'.first = Len(A)
    BY <1>1, <1>3 DEF Laying
  <1>14. Laying'
    BY <1>1, <1>2, <1>8, <1>9, <1>11, <1>12, <1>13 DEF Laying
  <1> QED BY <1>1, <1>14 DEF Layout, Finishing

\* The next file of a group, when the blocks of the one at the cursor are written.
LEMMA LayoutNextFile ==
    ASSUME IInv, Plan, Layout, GroupIds', AtFile, NextFile, pc' = pc, disk' = disk,
           Len(entries') = Len(entries), Now(groups, results, cur) = Current.blocks,
           UNCHANGED <<call, groups, results, block_id_counter, all_block_indices,
                       solid_group_entries>>
    PROVE  Layout'
  <1> DEFINE A == FlattenSeq(Laid(call, groups, cur.g - 1))
             H == Here(groups, results, cur)
             P == Now(groups, results, cur)
             G == Here(groups, results, cur')
  <1>1. pc = "blocks" /\ Laying
    BY DEF AtFile, Layout, Writing
  <1>2. cur'.g = cur.g /\ cur'.f = cur.f + 1 /\ cur'.b = 1 /\ cur'.first = cur.first
    <2> DEFINE v == cur.f + 1
    <2>1. ToFile(cur, v, 1, cur') /\ IsCursor(cur)
      BY DEF NextFile, Plan, ToFile
    <2> HIDE DEF v
    <2>2. cur'.g = cur.g /\ cur'.f = v /\ cur'.b = 1 /\ cur'.first = cur.first
      BY <2>1, CursorToFile
    <2> QED BY <2>2 DEF v
  <1>3. /\ cur.g \in 1 .. Len(groups) /\ cur.f \in 1 .. Len(results[cur.g]) /\ Len(groups) \in Nat
        /\ Current = results[cur.g][cur.f]
    BY AtCurrent, Sizes
  <1>4. IsSeq(A) /\ IsSeq(H) /\ IsSeq(P) /\ G = H \o P
    <2> DEFINE g == cur.g
               k == cur.f
               s == results[g][k].blocks
    <2>1. g \in 1 .. Len(groups) /\ k \in 1 .. Len(results[g]) /\ P = s
      BY <1>3
    <2>2. A = FlattenSeq(Laid(call, groups, g - 1)) /\ H = FlattenSeq(BlocksOf(results[g], k - 1))
      BY <1>3 DEF Here
    <2>3. G = FlattenSeq(BlocksOf(results[g], k))
      <3>1. cur'.f - 1 = k
        <4>1. k \in Int
          BY <2>1
        <4> HIDE DEF k
        <4>2. cur'.f = k + 1
          BY <1>2 DEF k
        <4> QED BY <4>1, <4>2
      <3> QED BY <1>2, <1>3, <3>1 DEF Here
    <2> HIDE DEF A, H, P, G, g, k, s
    <2>4. IsSeq(A)
      BY <2>1, <2>2, LaidMore
    <2> USE DEF s
    <2>5. IsSeq(H) /\ G = H \o P
      BY <2>1, <2>2, <2>3, FilesMore
    <2>6. IsSeq(P)
      BY <2>1, BlocksSeq
    <2> QED BY <2>4, <2>5, <2>6
  <1>5. Now(groups, results, cur') = << >>
    <2> DEFINE c == cur'
    <2>1. c.b - 1 = 0
      BY <1>2
    <2>2. ASSUME NEW s PROVE SubSeq(s, 1, 0) = << >>
      BY SubSeqEmpty
    <2> HIDE DEF c
    <2> QED BY <2>1, <2>2 DEF Now, c
  <1>6. Written' = Written
    BY DEF Written, TablesEnd, Offset
  <1>7. Written = (A \o H) \o P
    BY <1>1 DEF Laying
  <1>8. Written' = (A \o G) \o << >>
    <2> HIDE DEF A, H, P, G
    <2>1. (A \o H) \o P = A \o (H \o P)
      BY <1>4, JoinThree
    <2>2. IsSeq(G)
      BY <1>4, JoinSeq
    <2>3. IsSeq(A \o G)
      BY <1>4, <2>2, JoinSeq
    <2>4. (A \o G) \o << >> = A \o G
      BY <2>3, NoneIsSeq, JoinSeq
    <2> QED BY <1>4, <1>6, <1>7, <2>1, <2>4
  <1>9. Written' = (A \o G) \o Now(groups, results, cur')
    BY <1>5, <1>8
  <1>10. Laying'
    BY <1>1, <1>2, <1>9 DEF Laying, GroupsDone
  <1> QED BY <1>1, <1>10 DEF Layout, Finishing

\* A duplicate has no blocks.
LEMMA LayoutShareBlocks ==
    ASSUME IInv, Plan, Layout, GroupIds', ShareBlocks PROVE Layout'
  <1>1. /\ AtFile /\ NextFile /\ pc' = pc /\ disk' = disk /\ Current.dup_of # 0
        /\ UNCHANGED <<call, groups, results, block_id_counter, all_block_indices,
                       solid_group_entries>>
    BY DEF ShareBlocks, counters
  <1>2. Len(entries') = Len(entries)
    BY ShareBlocksOk, KeptSizes DEF StepOk, SameSizes
  <1>3. Now(groups, results, cur) = Current.blocks
    <2> DEFINE g == cur.g
               k == cur.f
    <2>1. /\ g \in 1 .. Len(groups) /\ k \in 1 .. Len(results[g]) /\ Current = results[g][k]
          /\ Blocks = 0 /\ cur.b \in 1 .. Blocks + 1
      BY <1>1, AtCurrent
    <2>2. Current.blocks = << >>
      <3> HIDE DEF g, k
      <3>1. RowOk(call, groups[g].indices, results[g])
        BY <2>1 DEF Plan, Results
      <3>2. ResultOk(call, groups[g].indices, results[g], k)
        BY <2>1, <3>1 DEF RowOk
      <3> QED BY <1>1, <2>1, <3>2 DEF ResultOk
    <2>3. cur.b - 1 = 0
      BY <2>1
    <2>4. SubSeq(<< >>, 1, 0) = << >>
      BY SubSeqEmpty
    <2>5. cur.g <= Len(groups) /\ cur.f <= Len(results[cur.g])
      BY <1>1 DEF AtFile
    <2> QED BY <2>1, <2>2, <2>3, <2>4, <2>5 DEF Now
  <1> QED BY <1>1, <1>2, <1>3, LayoutNextFile

\* The blocks of a file that was chunked are all written.
LEMMA LayoutEndFile == ASSUME IInv, Plan, Layout, GroupIds', EndFile PROVE Layout'
  <1>1. /\ AtFile /\ NextFile /\ pc' = pc /\ disk' = disk /\ cur.b > Len(Current.blocks)
        /\ UNCHANGED <<call, groups, results, block_id_counter, all_block_indices,
                       solid_group_entries>>
    BY DEF EndFile
  <1>2. Len(entries') = Len(entries)
    BY EndFileOk, KeptSizes DEF StepOk, SameSizes
  <1>3. Now(groups, results, cur) = Current.blocks
    <2> DEFINE g == cur.g
               k == cur.f
               b == cur.b
               s == results[g][k].blocks
    <2>1. /\ g \in 1 .. Len(groups) /\ k \in 1 .. Len(results[g]) /\ Current = results[g][k]
          /\ Blocks = Len(Current.blocks) /\ Blocks \in Nat /\ b \in 1 .. Blocks + 1
      BY <1>1, AtCurrent
    <2>2. b - 1 = Len(s)
      <3> HIDE DEF b
      <3>1. b > Blocks
        BY <1>1, <2>1 DEF b
      <3>2. b - 1 = Blocks
        BY <2>1, <3>1
      <3> QED BY <2>1, <3>2
    <2>3. cur.g <= Len(groups) /\ cur.f <= Len(results[cur.g])
      BY <1>1 DEF AtFile
    <2>4. Now(groups, results, cur) = SubSeq(s, 1, Len(s))
      BY <2>2, <2>3 DEF Now
    <2> HIDE DEF g, k, b
    <2>5. IsSeq(s)
      BY <2>1, BlocksSeq
    <2>6. Current.blocks = s
      BY <2>1
    <2> HIDE DEF s
    <2>7. SubSeq(s, 1, Len(s)) = s
      BY <2>5, SubSeqFull DEF IsSeq
    <2> QED BY <2>4, <2>6, <2>7
  <1> QED BY <1>1, <1>2, <1>3, LayoutNextFile

\* The end of a group: its blocks are those expected, and its entry counts them.
LEMMA LayoutEndGroup == ASSUME IInv, Plan, Layout, GroupIds', EndGroup PROVE Layout'
  <1> DEFINE g == cur.g
             s == cur.first
             n == block_id_counter
             A == FlattenSeq(Laid(call, groups, g - 1))
             E == Expected(call, groups, g)
             m == Len(E)
             y == n - s
  <1>1. /\ pc = "blocks" /\ pc' = pc /\ disk' = disk /\ g <= Len(groups) /\ cur.f > Len(results[g])
        /\ cur' = [g |-> g + 1, f |-> 1, b |-> 1, first |-> n]
        /\ Ranged(solid_group_entries, g, s, y, solid_group_entries')
        /\ UNCHANGED <<call, entries, groups, results, block_id_counter, all_block_indices>>
    BY DEF EndGroup, EnterGroup, counters, Ranged
  <1>2. CursorOk /\ Laying /\ Joined
    BY <1>1 DEF Plan, Cursor, Layout, Writing
  <1>3. /\ g \in 1 .. Len(groups) /\ Len(groups) \in Nat /\ n \in Nat
        /\ cur'.g = g + 1 /\ cur'.f = 1 /\ cur'.b = 1 /\ cur'.first = n
    <2>1. cur'.g = g + 1 /\ cur'.f = 1 /\ cur'.b = 1 /\ cur'.first = n
      BY <1>1
    <2>2. g \in 1 .. Len(groups) + 1 /\ g <= Len(groups)
      BY <1>1, <1>2 DEF CursorOk
    <2> HIDE DEF g, n
    <2>3. Len(groups) \in Nat /\ n \in Nat
      BY Sizes, Ends DEF n
    <2> QED BY <2>1, <2>2, <2>3
  <1>4. Len(results[g]) = Len(groups[g].indices) /\ Len(results[g]) \in Nat
    BY <1>1, <1>2, <1>3, SeqDomain DEF Joined, Writing, Plan, Results, RowOk
  <1>5. cur.f - 1 = Len(results[g])
    <2> DEFINE f == cur.f
    <2>1. f \in Nat /\ f <= Len(results[g]) + 1 /\ f > Len(results[g])
      BY <1>1, <1>2 DEF CursorOk
    <2> HIDE DEF f, g
    <2>2. f - 1 = Len(results[g])
      BY <1>4, <2>1
    <2> QED BY <2>2 DEF f
  <1>6. Here(groups, results, cur) = E /\ IsSeq(A) /\ IsSeq(E)
    <2>1. Here(groups, results, cur) = FlattenSeq(BlocksOf(results[g], Len(results[g])))
      BY <1>1, <1>5 DEF Here
    <2> HIDE DEF g
    <2>2. FlattenSeq(BlocksOf(results[g], Len(results[g]))) = E
      BY <1>3, <1>4, GroupComplete
    <2> QED BY <1>3, <2>1, <2>2, LaidMore, ExpectedSeq
  <1>7. Now(groups, results, cur) = << >>
    <2>1. ~(cur.f <= Len(results[g]))
      BY <1>2, <1>4, <1>5 DEF CursorOk
    <2> QED BY <2>1 DEF Now
  <1>8. Written = FlattenSeq(Laid(call, groups, g)) /\ Written = A \o E
    <2>1. Written = (A \o E) \o << >>
      BY <1>2, <1>6, <1>7 DEF Laying
    <2> HIDE DEF g
    <2>2. FlattenSeq(Laid(call, groups, g)) = A \o E
      BY <1>3, LaidMore
    <2> HIDE DEF A, E
    <2>3. IsSeq(A \o E)
      BY <1>6, JoinSeq
    <2>4. (A \o E) \o << >> = A \o E
      BY <2>3, NoneIsSeq, JoinSeq
    <2> QED BY <2>1, <2>2, <2>4
  <1>9. s = Len(A) /\ s \in Nat /\ m \in Nat /\ n = s + m /\ Len(Written) = n
    <2>1. s = Len(A)
      BY <1>2 DEF Laying
    <2>2. Len(A) \in Nat /\ m \in Nat /\ Len(A \o E) = Len(A) + m
      <3> HIDE DEF A, E
      <3> QED BY <1>6, SeqDomain, JoinSeq DEF m
    <2>3. Len(Written) = n
      <3> DEFINE w == Written
      <3>1. w = [b \in 1 .. n |-> w[b]]
        BY DEF Written
      <3> HIDE DEF w, n
      <3>2. Len(w) = n
        BY <1>3, <3>1, IntervalSeq
      <3> QED BY <3>2 DEF w
    <2> QED BY <1>8, <2>1, <2>2, <2>3
  <1>10. Written' = Written
    BY <1>1 DEF Written, TablesEnd, Offset
  <1>11. Here(groups, results, cur') = << >> /\ Now(groups, results, cur') = << >>
    <2> DEFINE c == cur'
    <2>1. c.f - 1 = 0 /\ c.b - 1 = 0
      BY <1>3
    <2>2. ASSUME NEW t PROVE SubSeq(t, 1, 0) = << >>
      BY SubSeqEmpty
    <2> HIDE DEF c
    <2> QED BY <2>1, <2>2, FilesNone DEF Here, Now, c
  <1>12. Written' = (FlattenSeq(Laid(call, groups, g)) \o Here(groups, results, cur'))
                    \o Now(groups, results, cur')
    <2> DEFINE L == FlattenSeq(Laid(call, groups, g))
    <2>1. IsSeq(L)
      <3> HIDE DEF g
      <3> QED BY <1>3, LaidMore
    <2> HIDE DEF L
    <2>2. (L \o << >>) \o << >> = L
      BY <2>1, JoinSeq
    <2>3. Written' = L
      BY <1>8, <1>10 DEF L
    <2> QED BY <1>11, <2>2, <2>3 DEF L
  <1>13. OwnBlocks(all_block_indices, n, g + 1, n)
    <2>1. OwnBlocks(all_block_indices, n, g, s)
      BY <1>2 DEF Laying
    <2> HIDE DEF g, s, n
    <2> DEFINE h == g + 1
    <2>2. g \in Int /\ h - 1 = g
      BY <1>3
    <2> HIDE DEF h
    <2>3. ASSUME NEW b \in 1 .. n
          PROVE  /\ all_block_indices[b].solid_group_id \in 0 .. h - 1
                 /\ all_block_indices[b].solid_group_id = h - 1 <=> b > n
      <3> DEFINE i == all_block_indices[b].solid_group_id
      <3>1. i \in 0 .. g - 1
        BY <2>1 DEF OwnBlocks
      <3> HIDE DEF i
      <3>2. i \in 0 .. g /\ i # g /\ ~(b > n)
        BY <1>3, <2>2, <3>1
      <3> QED BY <2>2, <3>2 DEF i
    <2>4. OwnBlocks(all_block_indices, n, h, n)
      BY <2>3 DEF OwnBlocks
    <2> QED BY <2>4 DEF h
  <1>14. GroupDone(solid_group_entries'[g], g, m, all_block_indices, n)
         /\ \A h \in 1 .. Len(groups) : h # g => solid_group_entries'[h] = solid_group_entries[h]
    <2>1. OwnBlocks(all_block_indices, n, g, s)
      BY <1>2 DEF Laying
    <2>2. y = m /\ n = s + m /\ s \in Nat /\ m \in Nat
      BY <1>9
    <2>0. g \in 1 .. Len(groups)
      BY <1>3
    <2>3. Ranged(solid_group_entries, g, s, y, solid_group_entries')
      BY <1>1
    <2> HIDE DEF g, s, n, m, y
    <2>4. /\ solid_group_entries'[g].first_block_idx = s /\ solid_group_entries'[g].block_count = y
          /\ \A h \in 1 .. Len(groups) : h # g => solid_group_entries'[h] = solid_group_entries[h]
      BY <2>0, <2>3, NewGroupRange
    <2>5. ASSUME NEW b \in 1 .. n
          PROVE  (b \in s + 1 .. s + m) <=> all_block_indices[b].solid_group_id = g - 1
      <3>1. all_block_indices[b].solid_group_id = g - 1 <=> b > s
        BY <2>1 DEF OwnBlocks
      <3>2. (b \in s + 1 .. s + m) <=> b > s
        BY <1>3, <2>2
      <3> QED BY <3>1, <3>2
    <2>6. s + m <= n
      BY <2>2
    <2> QED BY <2>2, <2>4, <2>5, <2>6 DEF GroupDone
  <1>15. GroupsDone(cur.g)'
    <2> SUFFICES ASSUME NEW h \in 1 .. Len(groups), h < cur'.g
                 PROVE  GroupDone(solid_group_entries'[h], h, Len(Expected(call, groups, h)),
                                  all_block_indices, n)
      BY <1>1 DEF GroupsDone
    <2>1. h = g \/ h < g
      <3> HIDE DEF g
      <3> QED BY <1>3
    <2>2. CASE h = g
      BY <1>14, <2>2
    <2>3. CASE h < g
      <3>1. h # g
        BY <1>3, <2>3
      <3> QED BY <1>2, <1>14, <2>3, <3>1 DEF Laying, GroupsDone
    <2> QED BY <2>1, <2>2, <2>3
  <1>16. Laying'
    <2>1. cur'.g - 1 = g
      <3> HIDE DEF g
      <3> QED BY <1>3
    <2>2. n <= n /\ cur'.first = Len(FlattenSeq(Laid(call, groups, g)))
      BY <1>3, <1>8, <1>9
    <2> QED BY <1>1, <1>3, <1>12, <1>13, <1>15, <2>1, <2>2 DEF Laying
  <1> QED BY <1>1, <1>16 DEF Layout, Finishing, Writing

\* When the footer is written, every group is laid out.
LEMMA LayoutWriteFooter == ASSUME IInv, Plan, Image, Layout, GroupIds', WriteFooter PROVE Layout'
  <1>1. /\ pc = "blocks" /\ cur.g > Len(groups) /\ pc' = "patch_header"
        /\ UNCHANGED <<call, groups, block_id_counter, all_block_indices, solid_group_entries>>
    BY DEF WriteFooter, counters
  <1>2. Written' = Written
    BY <1>1, WriteFooterOk, KeptSizes, WrittenKept DEF StepOk
  <1>3. Laying /\ CursorOk /\ Len(groups) \in Nat
    BY <1>1, Sizes DEF Plan, Cursor, Layout, Writing
  <1>4. cur.g = Len(groups) + 1 /\ cur.g - 1 = Len(groups)
    <2> DEFINE g == cur.g
    <2>1. g \in 1 .. Len(groups) + 1 /\ g > Len(groups)
      BY <1>1, <1>3 DEF CursorOk
    <2> HIDE DEF g
    <2>2. g = Len(groups) + 1 /\ g - 1 = Len(groups)
      BY <1>3, <2>1
    <2> QED BY <2>2 DEF g
  <1>5. Here(groups, results, cur) = << >> /\ Now(groups, results, cur) = << >>
    <2>1. ~(cur.g <= Len(groups))
      BY <1>3, <1>4
    <2> QED BY <2>1 DEF Here, Now
  <1>6. Written = FlattenSeq(Laid(call, groups, Len(groups)))
    <2> DEFINE L == FlattenSeq(Laid(call, groups, Len(groups)))
    <2>1. Written = (L \o << >>) \o << >>
      BY <1>3, <1>4, <1>5 DEF Laying
    <2>2. IsSeq(L)
      BY <1>3, LaidSeq
    <2> HIDE DEF L
    <2>3. (L \o << >>) \o << >> = L
      BY <2>2, JoinSeq
    <2> QED BY <2>1, <2>3 DEF L
  <1>7. GroupsDone(Len(groups) + 1)
    BY <1>3, <1>4 DEF Laying
  <1> QED BY <1>1, <1>2, <1>6, <1>7 DEF Layout, Writing, GroupsDone

\* The steps that leave the blocks and the place in them as they are.
LEMMA LayoutQuietSteps ==
    ASSUME IInv, Image, Layout, GroupIds',
           \/ WriteBlockHeader \/ WritePayload \/ WriteIndexEntry \/ TearHeader \/ PatchHeader
           \/ PatchChunkStart \/ PatchChunkCount \/ PatchGroupEntry \/ Finish
    PROVE  Layout'
  <1>1. StepOk
    BY WriteBlockHeaderOk, WritePayloadOk, WriteIndexEntryOk, TearHeaderOk, PatchHeaderOk,
       PatchChunkStartOk, PatchChunkCountOk, PatchGroupEntryOk, FinishOk
  <1>2. DiskStep /\ SameSizes
    BY <1>1, KeptSizes DEF StepOk
  <1>3. UNCHANGED <<block_id_counter, solid_group_entries, all_block_indices>>
    BY DEF WriteBlockHeader, WritePayload, WriteIndexEntry, TearHeader, PatchHeader,
       PatchChunkStart, PatchChunkCount, PatchGroupEntry, Finish, counters
  <1>4. CASE WriteBlockHeader \/ WritePayload \/ WriteIndexEntry
    <2>1. Writing /\ ~Finishing' /\ UNCHANGED <<cur, results>>
      BY <1>4 DEF WriteBlockHeader, WritePayload, WriteIndexEntry, AtFile, Writing, Finishing,
         counters
    <2> QED BY <1>2, <1>3, <2>1, LayoutQuiet
  <1>5. CASE TearHeader \/ PatchHeader \/ PatchChunkStart \/ PatchChunkCount \/ PatchGroupEntry
             \/ Finish
    <2>1. Finishing /\ ~Writing'
      BY <1>5 DEF TearHeader, PatchHeader, PatchChunkStart, PatchChunkCount, PatchGroupEntry,
         Finish, Writing, Finishing
    <2> QED BY <1>2, <1>3, <2>1, LayoutQuiet
  <1> QED BY <1>4, <1>5

\* Every step keeps the layout.
LEMMA LayoutNext == ASSUME IInv, Plan, Image, Layout, [Next]_vars PROVE Layout'
  <1>1. GroupIds'
    BY GroupIdsNext DEF Layout
  <1>2. CASE UNCHANGED vars
    <2>1. /\ UNCHANGED <<block_id_counter, solid_group_entries, all_block_indices, cur, results,
                         pc, disk>>
          /\ SameSizes
      BY <1>2 DEF vars, counters, SameSizes
    <2> QED BY <1>1, <2>1, LayoutQuiet DEF DiskStep, Writing, Finishing
  <1>3. CASE \/ ScanFile \/ GroupFiles \/ WritePlaceholder \/ WritePrefix \/ WriteFileEntry
             \/ WriteGroupEntry \/ StartPhaseA \/ (\E g \in DOMAIN groups : CompressFile(g)) \/ Fail
    <2>1. ~Writing' /\ ~Finishing'
      <3>1. CASE ScanFile \/ GroupFiles \/ StartPhaseA \/ Fail
        BY <3>1 DEF ScanFile, GroupFiles, StartPhaseA, Fail, Writing, Finishing
      <3>2. CASE WritePlaceholder \/ WritePrefix \/ WriteFileEntry \/ WriteGroupEntry
        BY <3>2 DEF WritePlaceholder, WritePrefix, WriteFileEntry, WriteGroupEntry, Writing,
           Finishing
      <3>3. CASE \E g \in DOMAIN groups : CompressFile(g)
        BY <3>3 DEF CompressFile, Writing, Finishing
      <3> QED BY <1>3, <3>1, <3>2, <3>3
    <2> QED BY <1>1, <2>1 DEF Layout
  <1> QED BY <1>1, <1>2, <1>3, LayoutQuietSteps, LayoutJoinGroups, LayoutEndFile,
             LayoutShareBlocks, LayoutEndGroup, LayoutWriteFooter, LayoutWriteTrailer
          DEF Next, Proceed, Write

\* There is none at the start.
LEMMA LayoutInit == ASSUME Init PROVE Layout
  <1>1. Len(groups) = 0
    BY DEF Init
  <1> QED BY <1>1 DEF Init, Layout, GroupIds, Writing, Finishing

\* The blocks of a finished archive, read one after the other.
LEMMA FinalStream ==
    ASSUME IInv, Image, pc = "done" PROVE DecodedStream(disk) = Written
  <1> DEFINE h == At(disk, 0)
             n == block_id_counter
             o == FirstBlock(disk)
  <1>1. h = final_header /\ n \in Nat /\ file_table_offset = Offset(call)
    BY FinalImage, Ends
  <1>2. /\ h.file_count = Len(entries) /\ h.solid_group_count = Len(groups) /\ h.block_count = n
        /\ Prefix(h) = Prefix(call)
    BY <1>1, FinalFields
  <1>3. h.encrypted = call.encrypted
    BY <1>1 DEF final_header, Header
  <1>4. o = TablesEnd
    <2> HIDE DEF h
    <2> QED BY <1>2 DEF FirstBlock, TablesEnd, Offset, h
  <1>5. ASSUME NEW b \in 1 .. n PROVE DecodeAt(disk, o + 3 * (b - 1)) = Written[b]
    <2> HIDE DEF o
    <2> QED BY <1>3, <1>4, BlockDecodes
  <1>6. Written = [b \in 1 .. n |-> Written[b]]
    BY DEF Written
  <1>7. DecodedStream(disk) = [b \in 1 .. n |-> DecodeAt(disk, o + 3 * (b - 1))]
    BY <1>2 DEF DecodedStream
  <1> HIDE DEF o, n
  <1> QED BY <1>5, <1>6, <1>7

\* The layout of a finished archive is the expected one, and its group table
\* says which blocks are whose.
LEMMA FinalLayout ==
    ASSUME IInv, Image, OnDisk, Layout, pc = "done" PROVE LayoutReproducible
  <1> DEFINE n == block_id_counter
             index == BlockIndex(disk, LastFooter(disk))
  <1>1. DOMAIN groups = 1 .. Len(groups) /\ Len(groups) \in Nat /\ Len(entries) \in Nat
        /\ file_table_offset = Offset(call)
    BY Sizes, Ends
  <1>2. /\ Written = FlattenSeq(Laid(call, groups, Len(groups)))
        /\ GroupsDone(Len(groups) + 1) /\ GroupIds
    BY DEF Layout, Finishing
  <1>3. DecodedStream(disk) = FlattenSeq([g \in DOMAIN groups |-> ExpectedOfGroup(g)])
    <2>1. Laid(call, groups, Len(groups)) = [g \in DOMAIN groups |-> ExpectedOfGroup(g)]
      BY <1>1, ExpectedIs DEF Laid
    <2> QED BY <1>2, <2>1, FinalStream
  <1>4. index = [k \in 1 .. n |-> all_block_indices[k]]
    BY FinalImage
  <1> HIDE DEF index
  <1>5. ASSUME NEW g \in DOMAIN groups, NEW rec, rec = disk[file_table_offset + Len(entries) + g]
        PROVE  /\ rec.block_count = Len(ExpectedOfGroup(g))
               /\ \A b \in 1 .. n :
                     (b \in rec.first_block_idx + 1 .. rec.first_block_idx + rec.block_count)
                     <=> (index[b].solid_group_id = rec.group_id)
    <2>1. rec = solid_group_entries[g]
      <3>1. g \in 1 .. Len(groups) /\ g < Len(groups) + 1
        BY <1>1
      <3> QED BY <1>1, <1>5, <3>1 DEF OnDisk, GroupsPatched
    <2>2. GroupDone(rec, g, Len(Expected(call, groups, g)), all_block_indices, n)
          /\ rec.group_id = g - 1
      <3>1. g \in 1 .. Len(groups) /\ g < Len(groups) + 1
        BY <1>1
      <3> QED BY <1>2, <2>1, <3>1 DEF GroupsDone, GroupIds
    <2>3. \A b \in 1 .. n : index[b] = all_block_indices[b]
      BY <1>4
    <2>4. Len(ExpectedOfGroup(g)) = Len(Expected(call, groups, g))
      BY ExpectedIs
    <2> HIDE DEF n
    <2> QED BY <2>2, <2>3, <2>4 DEF GroupDone
  <1> QED BY <1>3, <1>5 DEF LayoutReproducible, index

\* In every reachable state, what is written is laid out as expected.
THEOREM LayoutInvariance == Spec => [](IInv /\ Plan /\ Image /\ OnDisk /\ Layout)
  <1>1. Init => Layout
    BY LayoutInit
  <1>2. IInv /\ Plan /\ Image /\ Layout /\ [Next]_vars => Layout'
    BY LayoutNext
  <1> QED BY <1>1, <1>2, ArchiveInvariance, PTL DEF Spec

\* The byte layout of a finished archive does not depend on the order in which
\* the pool compressed the groups.
THEOREM LayoutKept == Spec => []LayoutReproducible
  <1>1. IInv /\ Image /\ OnDisk /\ Layout => LayoutReproducible
    BY FinalLayout DEF LayoutReproducible
  <1> QED BY <1>1, LayoutInvariance, PTL
=============================================================================
