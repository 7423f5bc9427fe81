----------------------------- MODULE RangeCoder ------------------------------
(***************************************************************************)
(* The byte-aligned range coder (aether-core/src/coding/rans.rs) and the   *)
(* conversion of a predictor's probabilities to a cumulative table.        *)
(*                                                                         *)
(* A table is a function on 0 .. Base, as cdf in the code.  low has one    *)
(* digit more than range: the carry.  Words have four digits: u32 is       *)
(* 0 .. Base^4 - 1, TOP is Base^3.                                         *)
(***************************************************************************)
EXTENDS ByteCodec

CONSTANTS ProbTotal,    \* PROB_TOTAL, 2^15 in the code
          MaxCache      \* deferred digits the encoder may hold, 2^24 in the code

Top == Base^3           \* TOP
Word == Base^4          \* u32 arithmetic is modulo Word

ASSUME ProbTotalAssumption == ProbTotal \in (2 * Base) .. Top
ASSUME MaxCacheAssumption == MaxCache \in Nat \ {0}

------------------------------------------------------------------------------
(* probs_to_cdf: weights are integers on Byte (the f32 probabilities, exact *)
(* here); a weight below zero stands for a NaN, an infinity or a negative   *)
(* probability.                                                             *)

Clamped(w) == [i \in Byte |-> IF w[i] > 0 THEN w[i] ELSE 0]

Uniform == [i \in 0 .. Base |-> (i * ProbTotal) \div Base]

\* The rounded cumulative sums, scaled to ProbTotal.
Rounded(c) ==
    LET sum == SumOn(c, Byte)
    IN  [i \in 0 .. Base |-> (2 * SumOn(c, 0 .. i - 1) * ProbTotal + sum) \div (2 * sum)]

\* The forward pass that gives every symbol a frequency of at least one: each
\* entry is at least its predecessor plus one.
Raised(r) == [i \in 0 .. Base |-> Max({r[j] + (i - j) : j \in 0 .. i})]

\* The redistribution when the forward pass went past ProbTotal: one for each
\* symbol, the rest in proportion, what rounding left to the likeliest ones.
Redistributed(c) ==
    LET sum == SumOn(c, Byte)
        share == [i \in Byte |-> (c[i] * (ProbTotal - Base)) \div sum]
        leftover == ProbTotal - Base - SumOn(share, Byte)
        rank == [i \in Byte |->
                   Cardinality({j \in Byte : c[j] > c[i] \/ (c[j] = c[i] /\ j < i)})]
        freq == [i \in Byte |-> 1 + share[i] + (IF rank[i] < leftover THEN 1 ELSE 0)]
    IN  [i \in 0 .. Base |-> SumOn(freq, 0 .. i - 1)]

\* Mutant: the forward pass is kept although it went past ProbTotal.
probs_to_cdf_overshoot(w) ==
    LET c == Clamped(w)
    IN  IF SumOn(c, Byte) = 0 THEN Uniform ELSE Raised(Rounded(c))

probs_to_cdf(w) ==
    LET c == Clamped(w)
        raised == Raised(Rounded(c))
    IN  IF SumOn(c, Byte) = 0 THEN Uniform
        ELSE IF raised[Base] = ProbTotal THEN raised ELSE Redistributed(c)

\* The symbol whose interval contains freq: two prefix checks, then a binary
\* search that starts at symbol 2.
find_symbol(cdf, freq) ==
    LET search[lo \in 0 .. Base, hi \in 0 .. Base] ==
            LET mid == (lo + hi) \div 2
            IN  IF lo >= hi THEN lo
                ELSE IF cdf[mid + 1] <= freq THEN search[mid + 1, hi] ELSE search[lo, mid]
    IN  IF freq < cdf[1] THEN 0 ELSE IF freq < cdf[2] THEN 1 ELSE search[2, Base]

------------------------------------------------------------------------------
(* RangeEncoder *)

NewEncoder == [low |-> 0, range |-> Word - 1, cache |-> 0, cache_size |-> 1,
               output |-> << >>, cache_overflow |-> FALSE]

\* Mutant: the carry does not reach the pending digits.
ReleaseNoCarry(e, carry) ==
    <<(e.cache + carry) % Base>> \o Fill(Base - 1, e.cache_size - 1)

\* The cached digit and the pending maximal digits behind it, with the carry.
Release(e, carry) ==
    <<(e.cache + carry) % Base>> \o Fill((Base - 1 + carry) % Base, e.cache_size - 1)

\* The top digit of low leaves it: it becomes the cached digit, or, when a
\* later carry could still ripple through it, one more pending digit.
shift_low(e) ==
    LET carry == e.low \div Word
        top == (e.low \div Top) % Base
        settled == (e.low % Word) < (Base - 1) * Top \/ carry # 0
        moved == IF settled
                 THEN [e EXCEPT !.output = @ \o Release(e, carry), !.cache = top, !.cache_size = 1]
                 ELSE [e EXCEPT !.cache_size = @ + 1]
        valve == IF moved.cache_size > MaxCache
                 THEN [moved EXCEPT !.output = Append(@, moved.cache) \o Fill(Base - 1, moved.cache_size - 2),
                                    !.cache = top, !.cache_size = 1, !.cache_overflow = TRUE]
                 ELSE moved
    IN  [valve EXCEPT !.low = (e.low % Top) * Base]

\* How often `while range < TOP { range <<= 8 }` runs.
Renormalisations(range) == Min({n \in 0 .. 4 : range * Base^n >= Top})

encode_interval(e, cdf_lo, cdf_hi) ==
    LET r == e.range \div ProbTotal
        range == (cdf_hi - cdf_lo) * r
        n == Renormalisations(range)
        narrowed == [e EXCEPT !.low = @ + cdf_lo * r, !.range = range * Base^n]
    IN  Times(shift_low, n, narrowed)

finish(e) ==
    LET done == Times(shift_low, 5, e)
    IN  IF done.cache_overflow THEN Err ELSE Ok(done.output)

------------------------------------------------------------------------------
(* RangeDecoder: input is the compressed bytes, pos how many were read. *)

read_digit(d, input) ==
    LET known == d.pos < Len(input)
        digit == IF known THEN input[d.pos + 1] ELSE 0
    IN  [d EXCEPT !.code = (@ * Base + digit) % Word,
                  !.pos = IF known THEN @ + 1 ELSE @,
                  !.eof_overread = IF known THEN @ ELSE @ + 1]

NewDecoder(input) ==
    Times(LAMBDA d : read_digit(d, input), 5,
          [code |-> 0, range |-> Word - 1, pos |-> 0, eof_overread |-> 0])

decode_freq(d) == Min({d.code \div (d.range \div ProbTotal), ProbTotal - 1})

advance(d, input, cdf_lo, cdf_hi) ==
    LET r == d.range \div ProbTotal
        range == (cdf_hi - cdf_lo) * r
        n == Renormalisations(range)
        consumed == [d EXCEPT !.code = @ - cdf_lo * r, !.range = range * Base^n]
    IN  Times(LAMBDA x : read_digit(x, input), n, consumed)

------------------------------------------------------------------------------
(* Blocks.  The predictor is a value with three operators: the interval of *)
(* a byte, the byte (and interval) at a frequency, and the update.         *)

encode_block(data, predictor, Query(_, _), Update(_, _)) ==
    LET step(acc, byte) ==
            LET interval == Query(acc.predictor, byte)
            IN  [predictor |-> Update(acc.predictor, byte),
                 enc |-> encode_interval(acc.enc, interval[1], interval[2])]
        last == FoldLeft(step, [predictor |-> predictor, enc |-> NewEncoder], data)
    IN  IF data = << >> THEN Ok(<< >>) ELSE finish(last.enc)

MaxNormalOverread == 5  \* MAX_NORMAL_OVERREAD

decode_block(input, expected_len, predictor, Decode(_, _), Update(_, _)) ==
    LET step(acc, k) ==
            LET found == Decode(acc.predictor, decode_freq(acc.dec))
            IN  [predictor |-> Update(acc.predictor, found[1]),
                 dec |-> advance(acc.dec, input, found[2], found[3]),
                 output |-> Append(acc.output, found[1])]
        last == FoldLeft(step, [predictor |-> predictor, dec |-> NewDecoder(input),
                                output |-> << >>], Fill(0, expected_len))
    IN  IF expected_len = 0 THEN Ok(<< >>)
        ELSE IF input = << >> \/ expected_len > MaxBlock THEN Err
        ELSE IF last.dec.eof_overread > MaxNormalOverread THEN Err
        ELSE Ok(last.output)
==============================================================================
