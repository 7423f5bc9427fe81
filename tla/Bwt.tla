-------------------------------- MODULE Bwt ----------------------------------
(***************************************************************************)
(* The Burrows-Wheeler path (aether-core/src/coding/bwt_preprocess.rs):    *)
(* BWT, move-to-front and zero-run coding, each with its inverse.          *)
(*                                                                         *)
(* Positions and ranks count from 0 as in the code; byte sequences are TLA+ *)
(* sequences, so position p of s is s[p + 1].                              *)
(***************************************************************************)
EXTENDS ByteCodec

CONSTANTS MaxBwtInput,      \* MAX_BWT_INPUT_SIZE
          TwoChainMin,      \* TWO_CHAIN_MIN
          MaxPackedLf       \* MAX_PACKED_LF: (lf << 8) | byte fits in a word

ASSUME BwtAssumption == MaxBwtInput \in Nat /\ TwoChainMin \in Nat /\ MaxPackedLf \in Nat

------------------------------------------------------------------------------
\* Order of the suffixes of text that start at i and j; a proper prefix is
\* smaller.
SuffixBefore(text, i, j) ==
    LET differ == {k \in 1 .. Len(text) - Max({i, j}) : text[i + k] # text[j + k]}
    IN  IF differ = {} THEN i > j ELSE text[i + Min(differ)] < text[j + Min(differ)]

\* The start of the rotation of each rank: the suffixes of data \o data that
\* start in its first half, sorted (libsais).
SortedRotations(data) ==
    SortSeq([r \in 1 .. Len(data) |-> r - 1],
            LAMBDA i, j : SuffixBefore(data \o data, i, j))

\* The byte before each rotation, and the rank of the rotation that is the
\* text itself; an input above the limit is refused.
bwt_encode(data) ==
    LET n == Len(data)
        sa == SortedRotations(data)
    IN  IF n <= 1 THEN [ok |-> TRUE, val |-> data, primary |-> 0]
        ELSE IF n > MaxBwtInput THEN [ok |-> FALSE, val |-> << >>, primary |-> 0]
        ELSE [ok |-> TRUE, val |-> [r \in 1 .. n |-> data[((sa[r] + n - 1) % n) + 1]],
              primary |-> (CHOOSE r \in 1 .. n : sa[r] = 0) - 1]

\* lf[i] = cumul[c] + occ[c]: where the rotation one byte longer is ranked.
LF(bwt) ==
    [i \in 0 .. Len(bwt) - 1 |->
       LET c == bwt[i + 1]
       IN  Cardinality({k \in DOMAIN bwt : bwt[k] < c})
             + Cardinality({k \in 1 .. i : bwt[k] = c})]

\* The k-th index of the walk that starts at p.
Walk(next, p, k) ==
    LET at[m \in 0 .. k] == IF m = 0 THEN p ELSE next[at[m - 1]]
    IN  at[k]

\* Mutant: an odd block leaves its middle byte unset.
WalkTwoChainsEven(bwt, lf, p) ==
    LET n == Len(bwt)
        half == n \div 2
        inverse == [j \in 0 .. n - 1 |-> CHOOSE i \in 0 .. n - 1 : lf[i] = j]
    IN  [k \in 1 .. n |-> IF k - 1 < half THEN bwt[Walk(inverse, p, k) + 1]
                          ELSE IF k - 1 >= n - half THEN bwt[Walk(lf, p, n - k) + 1] ELSE 0]

\* The first half of the output follows the inverse of lf forwards, the second
\* half follows lf backwards; an odd middle byte goes to the backward chain.
WalkTwoChains(bwt, lf, p) ==
    LET n == Len(bwt)
        half == n \div 2
        inverse == [j \in 0 .. n - 1 |-> CHOOSE i \in 0 .. n - 1 : lf[i] = j]
    IN  [k \in 1 .. n |-> IF k - 1 < half THEN bwt[Walk(inverse, p, k) + 1]
                          ELSE bwt[Walk(lf, p, n - k) + 1]]

\* One array of words (lf << 8) | byte: an index of max_packed_lf or more
\* would lose its top digits.
WalkPacked(bwt, lf, p, max_packed_lf) ==
    LET n == Len(bwt)
        packed == [i \in 0 .. n - 1 |-> (lf[i] * Base + bwt[i + 1]) % (max_packed_lf * Base)]
        next == [i \in 0 .. n - 1 |-> packed[i] \div Base]
    IN  [k \in 1 .. n |-> packed[Walk(next, p, n - k)] % Base]

WalkTwoArrays(bwt, lf, p) ==
    [k \in 1 .. Len(bwt) |-> bwt[Walk(lf, p, Len(bwt) - k) + 1]]

bwt_decode_with(bwt, primary_index, two_chain_min, max_packed_lf) ==
    LET n == Len(bwt)
        lf == LF(bwt)
    IN  IF n = 0 THEN Ok(<< >>)
        ELSE IF primary_index >= n THEN Err
        ELSE IF n > max_packed_lf THEN Ok(WalkTwoArrays(bwt, lf, primary_index))
        ELSE IF n <= two_chain_min THEN Ok(WalkPacked(bwt, lf, primary_index, max_packed_lf))
        ELSE Ok(WalkTwoChains(bwt, lf, primary_index))

bwt_decode(bwt, primary_index) == bwt_decode_with(bwt, primary_index, TwoChainMin, MaxPackedLf)

------------------------------------------------------------------------------
(* Move-to-front: list[r + 1] is the byte of rank r (the code also keeps   *)
(* its inverse, pos).                                                      *)

InitialList == [i \in 1 .. Base |-> i - 1]

ToFront(list, r) == <<list[r + 1]>> \o RemoveAt(list, r + 1)

mtf_encode(data) ==
    FoldLeft(LAMBDA s, byte :
               LET r == (CHOOSE i \in DOMAIN s.list : s.list[i] = byte) - 1
               IN  [out |-> Append(s.out, r), list |-> ToFront(s.list, r)],
             [out |-> << >>, list |-> InitialList], data).out

mtf_decode(ranks) ==
    FoldLeft(LAMBDA s, r : [out |-> Append(s.out, s.list[r + 1]), list |-> ToFront(s.list, r)],
             [out |-> << >>, list |-> InitialList], ranks).out

------------------------------------------------------------------------------
(* Zero runs in bijective base 2: RUNA = 0, RUNB = 1, lowest digit first.  *)

encode_run_length(n) ==
    LET digits[m \in Nat] == IF m = 0 THEN << >>
                             ELSE <<(m - 1) % 2>> \o digits[(m - 1) \div 2]
    IN  digits[n]

\* The first position from i on whose rank is not zero.
RunEnd(ranks, i) == Min({j \in i .. Len(ranks) + 1 : j = Len(ranks) + 1 \/ ranks[j] # 0})

\* The stream: runs as digits, every other rank as Symbol gives it.
RunCoded(ranks, Symbol(_)) ==
    LET from[i \in 1 .. Len(ranks) + 1] ==
            IF i = Len(ranks) + 1 THEN << >>
            ELSE IF ranks[i] # 0 THEN Symbol(ranks[i]) \o from[i + 1]
            ELSE encode_run_length(RunEnd(ranks, i) - i) \o from[RunEnd(ranks, i)]
    IN  from[1]

\* None when the last byte value occurs as a rank.
rle_encode(ranks) ==
    IF \E i \in DOMAIN ranks : ranks[i] = Base - 1 THEN Err
    ELSE Ok(RunCoded(ranks, LAMBDA r : <<r + 1>>))

\* The two highest ranks are escaped with suffixes that are not run digits.
rle_encode_escaped(ranks) ==
    RunCoded(ranks, LAMBDA r : IF r < Base - 2 THEN <<r + 1>>
                               ELSE <<Base - 1, IF r = Base - 2 THEN 2 ELSE 3>>)

DecodeStart == [ok |-> TRUE, out |-> << >>, run |-> 0, power |-> 1, escape |-> FALSE]

\* Mutant: a run that does not fit is cut off instead of refused.
EndRunTruncated(s, size) ==
    [s EXCEPT !.out = @ \o Fill(0, Min({s.run, size - Len(s.out)})), !.run = 0, !.power = 1]

\* The zeros of a run that has ended, unless they exceed what is left to fill.
EndRun(s, size) ==
    IF s.run > size - Len(s.out) THEN [s EXCEPT !.ok = FALSE]
    ELSE [s EXCEPT !.out = @ \o Fill(0, s.run), !.run = 0, !.power = 1]

Push(s, rank, size) ==
    IF Len(s.out) >= size THEN [s EXCEPT !.ok = FALSE]
    ELSE [s EXCEPT !.out = Append(@, rank), !.escape = FALSE]

RunDigit(s, sym) == [s EXCEPT !.run = @ + (sym + 1) * s.power, !.power = @ * 2]

DecodeSymbol(s, sym, size) ==
    IF ~s.ok THEN s
    ELSE IF sym <= 1 THEN RunDigit(s, sym)
    ELSE LET ended == EndRun(s, size) IN IF ended.ok THEN Push(ended, sym - 1, size) ELSE ended

DecodeEscapedSymbol(s, sym, size) ==
    IF ~s.ok THEN s
    ELSE IF s.escape THEN IF sym \in {2, 3} THEN Push(s, Base - 4 + sym, size)
                          ELSE [s EXCEPT !.ok = FALSE]
    ELSE IF sym <= 1 THEN RunDigit(s, sym)
    ELSE LET ended == EndRun(s, size)
         IN  IF ~ended.ok THEN ended
             ELSE IF sym = Base - 1 THEN [ended EXCEPT !.escape = TRUE]
             ELSE Push(ended, sym - 1, size)

\* The end of the stream: the last run, and the expected size.
DecodeEnd(s, size) ==
    LET last == IF s.ok THEN EndRun(s, size) ELSE s
    IN  IF last.ok /\ ~last.escape /\ Len(last.out) = size THEN Ok(last.out) ELSE Err

rle_decode(stream, size) ==
    DecodeEnd(FoldLeft(LAMBDA s, sym : DecodeSymbol(s, sym, size), DecodeStart, stream), size)

rle_decode_escaped(stream, size) ==
    DecodeEnd(FoldLeft(LAMBDA s, sym : DecodeEscapedSymbol(s, sym, size), DecodeStart, stream), size)

------------------------------------------------------------------------------
(* Both transforms together. *)

bwt_mtf_encode_parts(data) ==
    LET b == bwt_encode(data) IN [b EXCEPT !.val = mtf_encode(b.val)]

\* The legacy stream: the primary index in four bytes, then the ranks.
bwt_mtf_encode(data) ==
    LET parts == bwt_mtf_encode_parts(data)
    IN  IF parts.ok THEN Ok(LE32(parts.primary) \o parts.val) ELSE Err

bwt_mtf_decode_parts(primary_index, ranks, size) ==
    LET original == bwt_decode(mtf_decode(ranks), primary_index)
    IN  IF size > MaxBlock \/ ~original.ok \/ Len(original.val) # size THEN Err ELSE original

bwt_mtf_decode(encoded, size) ==
    IF size > MaxBlock \/ Len(encoded) < 4 \/ Len(encoded) - 4 # size THEN Err
    ELSE bwt_mtf_decode_parts(FromLE32(encoded), SubSeq(encoded, 5, Len(encoded)), size)
==============================================================================
