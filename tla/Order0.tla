------------------------------- MODULE Order0 --------------------------------
(***************************************************************************)
(* The order-0 adaptive model (aether-core/src/entropy/order0.rs): counts  *)
(* per byte, kept a second time as a Fenwick tree so that one boundary of  *)
(* the cumulative table is found without building the table.  Encoder and  *)
(* decoder each use a shortcut of their own, and any difference between    *)
(* them desynchronises the range coder.                                    *)
(*                                                                         *)
(* counts is a function on Byte, fenwick one on 1 .. Base (the code's      *)
(* fenwick[idx - 1]).                                                      *)
(***************************************************************************)
EXTENDS RangeCoder

CONSTANTS RescaleAt,        \* counts are halved above this total, 1_000_000
          MaxMagicTotal,    \* MAX_MAGIC_TOTAL: largest total divided by the magic
          MagicShift,       \* ExactDivisor::SHIFT
          MaxCount          \* load_state's MAX_COUNT

ASSUME Order0Assumption ==
    /\ RescaleAt \in Nat /\ RescaleAt >= Base
    /\ MaxMagicTotal \in Nat \ {0} /\ MagicShift \in Nat /\ MaxCount \in Nat \ {0}
    /\ MaxMagicTotal^2 * (ProbTotal + 1) <= 2^MagicShift

\* n / total, by multiply and shift as long as total is small enough.
ExactDiv(total, n) ==
    IF total <= MaxMagicTotal THEN (n * (2^MagicShift \div total + 1)) \div 2^MagicShift
    ELSE n \div total

LowBit(idx) == Max({2^k : k \in {j \in 0 .. 8 : 2^j <= Base /\ idx % 2^j = 0}})

\* Each node adds itself to its parent, in increasing order.
rebuild_fenwick(counts) ==
    LET lift(tree, idx) ==
            LET parent == idx + LowBit(idx)
            IN  IF parent <= Base THEN [tree EXCEPT ![parent] = @ + tree[idx]] ELSE tree
    IN  FoldLeft(lift, [idx \in 1 .. Base |-> counts[idx - 1]], [idx \in 1 .. Base |-> idx])

\* The nodes fenwick_add visits for symbol i: i + 1 and its ancestors.
Ancestors(i) ==
    LET up[idx \in 1 .. 2 * Base] ==
            IF idx > Base THEN {} ELSE {idx} \cup up[idx + LowBit(idx)]
    IN  up[i + 1]

fenwick_add(fenwick, i, delta) ==
    [idx \in 1 .. Base |-> fenwick[idx] + (IF idx \in Ancestors(i) THEN delta ELSE 0)]

\* The sum of the counts of the first len symbols.
fenwick_prefix(fenwick, len) ==
    LET sum[idx \in 0 .. Base] == IF idx = 0 THEN 0 ELSE fenwick[idx] + sum[idx - LowBit(idx)]
    IN  sum[len]

quantize_boundary(total, cum, symbol_index) ==
    symbol_index + ExactDiv(total, cum * (ProbTotal - Base))

Model(counts) == [counts |-> counts, fenwick |-> rebuild_fenwick(counts),
                  total |-> SumOn(counts, Byte)]

\* Order0Model::new and reset.
order0_new == Model([b \in Byte |-> 1])

order0_predict_cdf(m) ==
    [i \in 0 .. Base |->
       IF i = Base THEN ProbTotal
       ELSE quantize_boundary(m.total, SumOn(m.counts, 0 .. i - 1), i)]

\* Mutant: the counts are halved and the tree is not rebuilt.
order0_update_stale(m, byte) ==
    LET counts == [m.counts EXCEPT ![byte] = @ + 1]
        halved == [b \in Byte |-> Max({counts[b] \div 2, 1})]
    IN  IF m.total + 1 > RescaleAt
        THEN [m EXCEPT !.counts = halved, !.total = SumOn(halved, Byte)]
        ELSE [counts |-> counts, fenwick |-> fenwick_add(m.fenwick, byte, 1), total |-> m.total + 1]

order0_update(m, byte) ==
    LET counts == [m.counts EXCEPT ![byte] = @ + 1]
    IN  IF m.total + 1 > RescaleAt
        THEN Model([b \in Byte |-> Max({counts[b] \div 2, 1})])
        ELSE [counts |-> counts, fenwick |-> fenwick_add(m.fenwick, byte, 1), total |-> m.total + 1]

\* The encoder's shortcut: the interval of one byte.
order0_query_cdf(m, byte) ==
    LET cum == fenwick_prefix(m.fenwick, byte)
    IN  <<quantize_boundary(m.total, cum, byte),
          IF byte = Base - 1 THEN ProbTotal
          ELSE quantize_boundary(m.total, cum + m.counts[byte], byte + 1)>>

\* The decoder's shortcut: binary lifting in the tree, halving the step.
order0_decode_symbol(m, freq) ==
    LET lift(s, k) ==
            LET cand == s.lo + 2^k
                cum == s.cum + m.fenwick[cand]
                mid == quantize_boundary(m.total, cum, cand)
            IN  IF 2^k >= Base THEN s
                ELSE IF mid <= freq THEN [s EXCEPT !.lo = cand, !.cum = cum, !.lo_value = mid]
                ELSE [s EXCEPT !.hi_value = mid]
        found == FoldLeft(lift, [lo |-> 0, cum |-> 0, lo_value |-> 0, hi_value |-> ProbTotal],
                          <<7, 6, 5, 4, 3, 2, 1, 0>>)
    IN  <<found.lo, found.lo_value, found.hi_value>>

\* A state read back from a dictionary: refused unless every count is in
\* 1 .. MaxCount.  (MaxCount * Base fits in u32, the last check of the code.)
order0_load_state(m, counts) ==
    IF \A b \in Byte : counts[b] \in 1 .. MaxCount THEN Model(counts) ELSE m
==============================================================================
