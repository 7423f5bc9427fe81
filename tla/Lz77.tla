-------------------------------- MODULE Lz77 ---------------------------------
(***************************************************************************)
(* The LZ77 preprocessor (aether-core/src/coding/lz77_preprocess.rs): a    *)
(* hash-chain match finder over a sliding window, lazy matching, an        *)
(* LZ4-like token stream and its decoder.                                  *)
(*                                                                         *)
(* The format's limits are constants: a nibble holds 0 .. NibbleMax (15),  *)
(* an extension byte 0 .. ExtMax (255), an offset two digits in base       *)
(* OffsetBase (256), so the window is OffsetBase^2 positions (65536).      *)
(* A token is the pair of its nibbles, <<literals, match>> written as one  *)
(* number.  Positions count from 0: position p of data is data[p + 1].     *)
(***************************************************************************)
EXTENDS ByteCodec

CONSTANTS NibbleMax, ExtMax, OffsetBase,
          HashSize,     \* HASH_SIZE
          MaxChain,     \* MAX_CHAIN
          NiceMatch,    \* NICE_MATCH
          MaxMatch      \* MAX_MATCH

MinMatch == 3                   \* MIN_MATCH
WindowSize == OffsetBase^2      \* WINDOW_SIZE
Empty == -1                     \* EMPTY

ASSUME Lz77Assumption ==
    /\ {NibbleMax, ExtMax, OffsetBase, HashSize, MaxChain, NiceMatch} \subseteq Nat \ {0}
    /\ MaxMatch \in Nat /\ MaxMatch >= MinMatch

------------------------------------------------------------------------------
(* MatchFinder *)

\* Three bytes to a bucket.  Which function it is decides only which matches
\* are found.
hash3(data, pos) == (data[pos + 1] * Base^2 + data[pos + 2] * Base + data[pos + 3]) % HashSize

NewFinder == [head |-> [h \in 0 .. HashSize - 1 |-> Empty],
              prev |-> [slot \in 0 .. WindowSize - 1 |-> Empty]]

insert(f, data, pos) ==
    LET h == hash3(data, pos)
    IN  [head |-> [f.head EXCEPT ![h] = pos],
         prev |-> [f.prev EXCEPT ![pos % WindowSize] = f.head[h]]]

\* How many bytes from a and from b on agree, at most max_len.
MatchLen(data, a, b, max_len) ==
    Max({k \in 0 .. max_len : \A m \in 1 .. k : data[a + m] = data[b + m]})

\* Mutant: an offset of a whole window is accepted; its two digits are zero.
InWindowInclusive(ref_pos, pos) == ref_pos < pos /\ pos - ref_pos <= WindowSize

\* A position the two digits of an offset can reach back to.
InWindow(ref_pos, pos) == ref_pos < pos /\ pos - ref_pos < WindowSize

\* The longest match along the chain of the bucket, the nearest among equals.
\* A slot of prev is reused after a window, so the walk ends as soon as the
\* positions stop decreasing.
find_best(f, data, pos) ==
    LET max_len == Min({Len(data) - pos, MaxMatch})
        visit(s) ==
            IF s.stop \/ s.at = Empty \/ ~InWindow(s.at, pos) \/ s.at >= s.last
            THEN [s EXCEPT !.stop = TRUE]
            ELSE LET len == MatchLen(data, s.at, pos, max_len)
                     better == len > s.len
                 IN  [at |-> f.prev[s.at % WindowSize], last |-> s.at,
                      len |-> IF better THEN len ELSE s.len,
                      offset |-> IF better THEN (pos - s.at) % WindowSize ELSE s.offset,
                      stop |-> better /\ (len >= NiceMatch \/ len = max_len)]
    IN  Times(visit, MaxChain, [at |-> f.head[hash3(data, pos)], last |-> pos,
                                len |-> MinMatch - 1, offset |-> 0, stop |-> FALSE])

\* Some, or None: nothing of MIN_MATCH bytes.
Found(match) == match.len >= MinMatch

------------------------------------------------------------------------------
(* Tokens *)

Extension(n) ==
    LET rest == n - NibbleMax
    IN  IF rest < 0 THEN << >> ELSE Append(Fill(ExtMax, rest \div ExtMax), rest % ExtMax)

Nibble(n) == Min({n, NibbleMax})

emit_sequence(literals, offset, match_len) ==
    <<Nibble(Len(literals)) * (NibbleMax + 1) + Nibble(match_len - MinMatch)>>
      \o Extension(Len(literals)) \o literals
      \o <<offset % OffsetBase, offset \div OffsetBase>>
      \o Extension(match_len - MinMatch)

emit_final_literals(literals) ==
    <<Nibble(Len(literals)) * (NibbleMax + 1)>> \o Extension(Len(literals)) \o literals

\* Lazy matching: a match is put off once for a longer one a byte later.
UseMatch(s, data, current) ==
    /\ Found(current)
    /\ \/ s.deferred
       \/ s.pos + 3 >= Len(data)
       \/ LET next == find_best(s.finder, data, s.pos + 1)
          IN  ~Found(next) \/ next.len <= current.len + 1

\* One turn of the encoder's loop.
EncodeStep(s, data) ==
    LET current == find_best(s.finder, data, s.pos)
        end == Min({s.pos + current.len, Len(data) - 2})
        covered == [k \in 1 .. end - s.pos |-> s.pos + k - 1]
    IN  IF s.pos + 2 >= Len(data) THEN s
        ELSE IF UseMatch(s, data, current)
        THEN [finder |-> FoldLeft(LAMBDA f, p : insert(f, data, p), s.finder, covered),
              out |-> s.out \o emit_sequence(SubSeq(data, s.lit_start + 1, s.pos),
                                             current.offset, current.len),
              pos |-> s.pos + current.len, lit_start |-> s.pos + current.len,
              deferred |-> FALSE]
        ELSE [s EXCEPT !.finder = insert(@, data, s.pos), !.pos = @ + 1,
                       !.deferred = Found(current)]

\* The stream lz77_encode builds, kept or not.
Lz77Stream(data) ==
    LET end == Times(LAMBDA s : EncodeStep(s, data), Len(data),
                     [finder |-> NewFinder, out |-> LE32(Len(data)), pos |-> 0,
                      lit_start |-> 0, deferred |-> FALSE])
        rest == SubSeq(data, end.lit_start + 1, Len(data))
    IN  IF rest = << >> THEN end.out ELSE end.out \o emit_final_literals(rest)

\* None unless the stream is shorter than the data.
lz77_encode(data) ==
    IF Len(data) < MinMatch \/ Len(data) > MaxBlock THEN Err
    ELSE IF Len(Lz77Stream(data)) < Len(data) THEN Ok(Lz77Stream(data)) ELSE Err

------------------------------------------------------------------------------
(* The decoder: s.pos is the next byte to read, counted from 1. *)

Fail(s) == [s EXCEPT !.ok = FALSE]

\* A length whose nibble is full goes on in extension bytes, each checked
\* against the output still missing.
ReadLength(s, enc, nibble, len, size) ==
    LET more[p \in 1 .. Len(enc) + 1, n \in 0 .. Len(enc) * ExtMax + size] ==
            IF p > Len(enc) THEN Fail(s)
            ELSE IF n + enc[p] > size - Len(s.out) THEN Fail(s)
            ELSE IF enc[p] < ExtMax THEN [s EXCEPT !.pos = p + 1, !.len = n + enc[p]]
            ELSE more[p + 1, n + enc[p]]
    IN  IF nibble < NibbleMax THEN [s EXCEPT !.len = len] ELSE more[s.pos, len]

\* The bytes a match repeats; it may overlap the bytes it produces.
CopyMatch(out, offset, len) ==
    out \o [k \in 1 .. len |-> out[Len(out) - offset + 1 + ((k - 1) % offset)]]

DecodeMatch(s, enc, token, size) ==
    IF s.pos + 1 > Len(enc) THEN Fail(s)
    ELSE LET offset == enc[s.pos] + enc[s.pos + 1] * OffsetBase
             m == ReadLength([s EXCEPT !.pos = @ + 2], enc, token % (NibbleMax + 1),
                             MinMatch + (token % (NibbleMax + 1)), size)
         IN  IF offset = 0 \/ offset > Len(s.out) \/ ~m.ok THEN Fail(s)
             ELSE [m EXCEPT !.out = CopyMatch(@, offset, m.len)]

\* One token sequence.
DecodeStep(s, enc, size) ==
    IF ~s.ok \/ Len(s.out) >= size THEN s
    ELSE IF s.pos > Len(enc) THEN Fail(s)
    ELSE LET token == enc[s.pos]
             lit == ReadLength([s EXCEPT !.pos = @ + 1], enc, token \div (NibbleMax + 1),
                               token \div (NibbleMax + 1), size)
             literals == [lit EXCEPT !.out = @ \o SubSeq(enc, lit.pos, lit.pos + lit.len - 1),
                                     !.pos = @ + lit.len]
         IN  IF ~lit.ok \/ lit.pos + lit.len - 1 > Len(enc) THEN Fail(s)
             ELSE IF Len(literals.out) >= size THEN literals
             ELSE DecodeMatch(literals, enc, token, size)

lz77_decode(enc, size) ==
    LET end == Times(LAMBDA s : DecodeStep(s, enc, size), Len(enc),
                     [ok |-> TRUE, out |-> << >>, pos |-> 5, len |-> 0])
    IN  IF Len(enc) < 4 THEN Err
        ELSE IF FromLE32(enc) # size \/ size > MaxBlock THEN Err
        ELSE IF end.ok /\ Len(end.out) = size THEN Ok(end.out) ELSE Err
==============================================================================
