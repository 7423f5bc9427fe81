--------------------------- MODULE FoldInduction ----------------------------
(***************************************************************************)
(* Loop invariants for FoldLeft.  The models write the loops of the code   *)
(* as folds; what such a loop computes is proved with an invariant on the  *)
(* accumulator.  The loop and its invariant are operators, so they are     *)
(* parameters of this module, and a proof about a loop instantiates it.    *)
(***************************************************************************)
EXTENDS Integers, Sequences, SequencesExt, WellFoundedInduction, TLAPS

CONSTANTS Step(_, _, _),     \* the loop body: context, accumulator, element
          Good(_, _, _, _)   \* its invariant: context, input, elements done, accumulator

Loop(p, base, q) == FoldLeft(LAMBDA acc, x : Step(p, acc, x), base, q)

\* A set of natural numbers has a least one.
LEMMA LeastNat ==
    ASSUME NEW T, T \subseteq Nat, T # {}
    PROVE  \E n \in T : \A m \in T : n <= m
  <1> DEFINE R == OpToRel(<, Nat)
  <1>1. IsWellFoundedOn(R, Nat)
    BY NatLessThanWellFounded
  <1> HIDE DEF R
  <1>2. \A x, y \in Nat : <<x, y>> \in R <=> x < y
    BY DEF R, OpToRel
  <1>3. PICK x \in T : \A y \in T : ~(<<y, x>> \in R)
    BY <1>1, WFMin
  <1>4. ASSUME NEW y \in T PROVE x <= y
    <2>1. ~(<<y, x>> \in R)
      BY <1>3
    <2>2. x \in Nat /\ y \in Nat
      OBVIOUS
    <2>3. ~(y < x)
      BY <1>2, <2>1, <2>2
    <2> QED BY <2>2, <2>3
  <1> QED BY <1>4

\* A bounded set of natural numbers has a largest one.
LEMMA MaxOfInterval ==
    ASSUME NEW N \in Nat, NEW s \in SUBSET (1 .. N), s # {}
    PROVE  Max(s) \in s /\ \A y \in s : y <= Max(s)
  <1> DEFINE U == {m \in Nat : \A y \in s : y <= m}
  <1>1. U # {} /\ U \subseteq Nat
    <2>1. N \in U
      OBVIOUS
    <2> QED BY <2>1
  <1>2. PICK m \in U : \A k \in U : m <= k
    <2> HIDE DEF U
    <2> QED BY <1>1, LeastNat
  <1>3. m \in s
    <2> SUFFICES ASSUME m \notin s PROVE FALSE
      OBVIOUS
    <2>1. \A y \in s : y \in Nat /\ y <= m /\ y # m /\ y >= 1
      BY <1>2
    <2>2. PICK y \in s : TRUE
      OBVIOUS
    <2>3. m - 1 \in U
      BY <1>2, <2>1, <2>2
    <2> QED BY <1>2, <2>3
  <1>4. \E x \in s : \A y \in s : x >= y
    BY <1>2, <1>3
  <1> HIDE DEF U
  <1>5. Max(s) \in s /\ \A y \in s : Max(s) >= y
    BY <1>4 DEF Max
  <1> QED BY <1>5

\* h lists the values of the accumulator, from before the first element on.
Values(p, base, q, N, h) ==
    /\ h[0] = base /\ h[N] = Loop(p, base, q)
    /\ \A n \in 1 .. N : h[n] = Step(p, h[n - 1], q[n])

\* The values the accumulator goes through: each is one step from the one
\* before it.
LEMMA LoopSteps ==
    ASSUME NEW p, NEW base, NEW q, NEW N \in Nat, DOMAIN q = 1 .. N
    PROVE  \E h : Values(p, base, q, N, h)
  <1> DEFINE Next(f, s) == IF s = {} THEN base ELSE Step(p, f[s \ {Max(s)}], q[Max(s)])
             Def(f, n) == f = [s \in SUBSET (1 .. n) |-> Next(f, s)]
  <1>1. \A n \in 0 .. N : \E f : Def(f, n)
    <2> DEFINE T == {n \in 0 .. N : ~\E f : Def(f, n)}
    <2> SUFFICES ASSUME T # {} PROVE FALSE
      OBVIOUS
    <2>1. PICK n \in T : \A m \in T : n <= m
      <3>1. T \subseteq Nat
        OBVIOUS
      <3> HIDE DEF T
      <3> QED BY <3>1, LeastNat
    <2>2. n \in 0 .. N /\ ~\E f : Def(f, n)
      BY <2>1
    <2>3. n # 0
      <3> SUFFICES ASSUME n = 0 PROVE FALSE
        OBVIOUS
      <3> DEFINE f == [s \in SUBSET (1 .. 0) |-> base]
      <3>1. \A s \in SUBSET (1 .. 0) : s = {}
        OBVIOUS
      <3>2. Def(f, 0)
        BY <3>1
      <3> QED BY <2>2, <3>2
    <2>4. n - 1 \in 0 .. N /\ n - 1 \notin T
      <3> HIDE DEF T, Def
      <3> QED BY <2>1, <2>2, <2>3
    <2>5. PICK f : Def(f, n - 1)
      <3> HIDE DEF Def
      <3> QED BY <2>4
    <2> HIDE DEF T
    <2> DEFINE g == [s \in SUBSET (1 .. n) |->
                       IF n \in s THEN Step(p, f[s \ {n}], q[n]) ELSE f[s]]
    <2>6. ASSUME NEW s \in SUBSET (1 .. n) PROVE g[s] = Next(g, s)
      <3>1. CASE n \in s
        <4>1. Max(s) = n
          <5>1. n \in Nat /\ s # {}
            BY <2>2, <3>1
          <5>2. Max(s) \in s /\ \A y \in s : y <= Max(s)
            BY <5>1, MaxOfInterval
          <5>3. n <= Max(s)
            BY <3>1, <5>2
          <5>4. Max(s) \in 1 .. n
            BY <5>2
          <5> QED BY <5>1, <5>3, <5>4
        <4>2. s \ {n} \in SUBSET (1 .. n) /\ s \ {n} \in SUBSET (1 .. n - 1) /\ n \notin s \ {n}
          BY <2>2
        <4>3. g[s \ {n}] = f[s \ {n}]
          BY <4>2
        <4>4. g[s] = Step(p, f[s \ {n}], q[n])
          BY <3>1
        <4> HIDE DEF g
        <4> QED BY <3>1, <4>1, <4>3, <4>4
      <3>2. CASE n \notin s
        <4>1. s \in SUBSET (1 .. n - 1)
          BY <2>2, <3>2
        <4>2. g[s] = f[s] /\ f[s] = Next(f, s)
          BY <2>5, <3>2, <4>1
        <4>3. CASE s = {}
          BY <4>2, <4>3
        <4>4. CASE s # {}
          <5>1. Max(s) \in s
            <6>1. n \in Nat
              BY <2>2
            <6> QED BY <4>4, <6>1, MaxOfInterval
          <5> DEFINE r == s \ {Max(s)}
          <5>2. r \in SUBSET (1 .. n) /\ n \notin r
            BY <3>2
          <5>3. g[r] = f[r]
            BY <5>2
          <5> HIDE DEF g
          <5> QED BY <4>2, <4>4, <5>3
        <4> QED BY <4>3, <4>4
      <3> QED BY <3>1, <3>2
    <2>7. g = [s \in SUBSET (1 .. n) |-> g[s]]
      OBVIOUS
    <2> HIDE DEF g
    <2>8. Def(g, n)
      BY <2>6, <2>7
    <2> QED BY <2>2, <2>8
  <1> DEFINE iter == CHOOSE f : f = [s \in SUBSET (DOMAIN q) |-> Next(f, s)]
  <1>2. Def(iter, N)
    <2>1. \E f : f = [s \in SUBSET (DOMAIN q) |-> Next(f, s)]
      <3>1. PICK f : Def(f, N)
        <4> HIDE DEF Def
        <4> QED BY <1>1
      <3>2. f = [s \in SUBSET (DOMAIN q) |-> Next(f, s)]
        BY <3>1
      <3> HIDE DEF Next
      <3> QED BY <3>2
    <2>2. iter = [s \in SUBSET (DOMAIN q) |-> Next(iter, s)]
      BY <2>1
    <2> QED BY <2>2
  <1>3. Loop(p, base, q) = iter[1 .. N]
    <2>1. Loop(p, base, q) = iter[DOMAIN q]
      BY DEF Loop, FoldLeft, MapThenFoldSet
    <2> QED BY <2>1
  <1> HIDE DEF iter
  <1> DEFINE h == [n \in 0 .. N |-> iter[1 .. n]]
  <1>4. h[0] = base
    <2>1. 1 .. 0 = {} /\ {} \in SUBSET (1 .. N)
      OBVIOUS
    <2>2. iter[{}] = base
      BY <1>2, <2>1
    <2> QED BY <2>1, <2>2
  <1>5. h[N] = Loop(p, base, q)
    BY <1>3
  <1>6. ASSUME NEW n \in 1 .. N PROVE h[n] = Step(p, h[n - 1], q[n])
    <2>1. 1 .. n \in SUBSET (1 .. N) /\ 1 .. n # {} /\ n \in 1 .. n
      <3> HIDE DEF h, Next, Def
      <3>1. n \in Nat /\ 1 <= n /\ n <= N
        OBVIOUS
      <3> QED BY <3>1
    <2>2. Max(1 .. n) \in 1 .. n /\ \A y \in 1 .. n : y <= Max(1 .. n)
      BY <2>1, MaxOfInterval
    <2>3. Max(1 .. n) = n
      BY <2>1, <2>2
    <2>4. (1 .. n) \ {n} = 1 .. n - 1
      OBVIOUS
    <2>5. iter[1 .. n] = Next(iter, 1 .. n)
      BY <1>2, <2>1
    <2>6. iter[1 .. n] = Step(p, iter[1 .. n - 1], q[n])
      BY <2>1, <2>3, <2>4, <2>5
    <2>7. h[n] = iter[1 .. n] /\ h[n - 1] = iter[1 .. n - 1]
      OBVIOUS
    <2> QED BY <2>6, <2>7
  <1> HIDE DEF h
  <1> QED BY <1>4, <1>5, <1>6 DEF Values

\* A loop invariant: true before the first element, kept by every element,
\* it is true after the last one.
THEOREM LoopInvariant ==
    ASSUME NEW p, NEW base, NEW q, NEW N \in Nat, DOMAIN q = 1 .. N,
           Good(p, q, 0, base),
           \A n \in 1 .. N : \A acc : Good(p, q, n - 1, acc) => Good(p, q, n, Step(p, acc, q[n]))
    PROVE  Good(p, q, N, Loop(p, base, q))
  <1>1. PICK h : /\ h[0] = base /\ h[N] = Loop(p, base, q)
                 /\ \A n \in 1 .. N : h[n] = Step(p, h[n - 1], q[n])
    <2>1. N \in Nat /\ DOMAIN q = 1 .. N
      OBVIOUS
    <2>2. \E h : Values(p, base, q, N, h)
      BY <2>1, LoopSteps
    <2> QED BY <2>2 DEF Values
  <1> DEFINE T == {n \in 0 .. N : ~Good(p, q, n, h[n])}
  <1>2. T = {}
    <2> SUFFICES ASSUME T # {} PROVE FALSE
      OBVIOUS
    <2>1. PICK n \in T : \A m \in T : n <= m
      <3>1. T \subseteq Nat
        OBVIOUS
      <3> HIDE DEF T
      <3> QED BY <3>1, LeastNat
    <2>2. n \in 0 .. N /\ ~Good(p, q, n, h[n])
      BY <2>1
    <2>3. n # 0
      <3>1. n = 0 => Good(p, q, n, h[n])
        BY <1>1, Zenon
      <3> QED BY <2>2, <3>1
    <2>4. n \in 1 .. N /\ n - 1 \in 0 .. N /\ n - 1 \notin T
      BY <2>1, <2>2, <2>3
    <2>5. Good(p, q, n - 1, h[n - 1])
      BY <2>4
    <2> QED BY <1>1, <2>2, <2>4, <2>5
  <1>3. N \in 0 .. N
    OBVIOUS
  <1>4. Good(p, q, N, h[N])
    BY <1>2, <1>3
  <1> QED BY <1>1, <1>4

\* Two inputs that agree on the first elements are at the same point after
\* them; so an input with one more element takes one more step.
LEMMA LoopAppend ==
    ASSUME NEW p, NEW base, NEW q, NEW r, NEW N \in Nat, DOMAIN q = 1 .. N, DOMAIN r = 1 .. N + 1,
           \A n \in 1 .. N : r[n] = q[n]
    PROVE  Loop(p, base, r) = Step(p, Loop(p, base, q), r[N + 1])
  <1>1. PICK h : /\ h[0] = base /\ h[N] = Loop(p, base, q)
                 /\ \A n \in 1 .. N : h[n] = Step(p, h[n - 1], q[n])
    <2>1. N \in Nat /\ DOMAIN q = 1 .. N
      OBVIOUS
    <2>2. \E h : Values(p, base, q, N, h)
      BY <2>1, LoopSteps
    <2> QED BY <2>2 DEF Values
  <1>2. PICK k : /\ k[0] = base /\ k[N + 1] = Loop(p, base, r)
                 /\ \A n \in 1 .. N + 1 : k[n] = Step(p, k[n - 1], r[n])
    <2>1. N + 1 \in Nat
      OBVIOUS
    <2>2. \E k : Values(p, base, r, N + 1, k)
      BY <2>1, LoopSteps
    <2> QED BY <2>2 DEF Values
  <1> DEFINE T == {n \in 0 .. N : h[n] # k[n]}
  <1>3. T = {}
    <2> SUFFICES ASSUME T # {} PROVE FALSE
      OBVIOUS
    <2>1. PICK n \in T : \A m \in T : n <= m
      <3>1. T \subseteq Nat
        OBVIOUS
      <3> HIDE DEF T
      <3> QED BY <3>1, LeastNat
    <2>2. n \in 0 .. N /\ h[n] # k[n]
      BY <2>1
    <2>3. n # 0
      BY <1>1, <1>2, <2>2
    <2>4. n \in 1 .. N /\ n \in 1 .. N + 1 /\ n - 1 \in 0 .. N /\ n - 1 \notin T
      BY <2>1, <2>2, <2>3
    <2>5. h[n - 1] = k[n - 1]
      BY <2>4
    <2>6. h[n] = Step(p, h[n - 1], q[n]) /\ k[n] = Step(p, k[n - 1], r[n]) /\ r[n] = q[n]
      BY <1>1, <1>2, <2>4
    <2> QED BY <2>2, <2>5, <2>6
  <1>4. h[N] = k[N]
    BY <1>3
  <1>5. k[N + 1] = Step(p, k[N], r[N + 1])
    <2>1. N + 1 \in 1 .. N + 1 /\ N + 1 - 1 = N
      OBVIOUS
    <2> QED BY <1>2, <2>1
  <1> QED BY <1>1, <1>2, <1>4, <1>5

\* Without elements the loop takes no step.
LEMMA LoopEmpty ==
    ASSUME NEW p, NEW base, NEW q, DOMAIN q = 1 .. 0
    PROVE  Loop(p, base, q) = base
  <1>1. 0 \in Nat
    OBVIOUS
  <1> QED BY <1>1, LoopSteps DEF Values
==============================================================================
