----------------------------- MODULE BytePlane -------------------------------
(***************************************************************************)
(* Byte planes (aether-core/src/coding/byteplane_preprocess.rs) and the    *)
(* x86 branch filter (aether-core/src/coding/bcj.rs).                      *)
(*                                                                         *)
(* Which planes are worth a delta or the range coder is decided by entropy *)
(* estimates; here the two decisions are sets of planes given from outside, *)
(* so that what is checked holds for every outcome of the estimates.       *)
(* Planes are numbered from 0.                                             *)
(***************************************************************************)
EXTENDS Order0

CONSTANTS MinBytePlane,     \* MIN_BYTEPLANE_SIZE
          MinDelta          \* the shortest plane should_delta considers, 16

ASSUME BytePlaneAssumption == MinBytePlane \in Nat /\ MinDelta \in Nat

Widths == {2, 4}            \* BytePlaneWidth

byteplane_split(data, w) ==
    LET n == Len(data) \div w
    IN  [planes |-> [p \in 0 .. w - 1 |-> [i \in 1 .. n |-> data[(i - 1) * w + p + 1]]],
         tail |-> SubSeq(data, n * w + 1, Len(data))]

byteplane_merge(planes, w, tail) ==
    [k \in 1 .. Len(planes[0]) * w |-> planes[(k - 1) % w][((k - 1) \div w) + 1]] \o tail

\* Every byte minus its predecessor, and the running sum that undoes it; both
\* wrap around.
delta_encode(plane) ==
    [i \in DOMAIN plane |-> IF i = 1 THEN plane[1] ELSE (plane[i] - plane[i - 1]) % Base]

delta_decode(plane) ==
    LET sum[i \in DOMAIN plane] == IF i = 1 THEN plane[1] ELSE (plane[i] + sum[i - 1]) % Base
    IN  [i \in DOMAIN plane |-> sum[i]]

RcEncode(plane) == encode_block(plane, order0_new, order0_query_cdf, order0_update)

RcDecode(bytes, n) == decode_block(bytes, n, order0_new, order0_decode_symbol, order0_update)

\* encode_one: the range-coded plane if it was asked for and is shorter.
EncodePlane(plane, wanted) ==
    LET coded == RcEncode(plane)
    IN  IF wanted /\ coded.ok /\ Len(coded.val) < Len(plane) THEN coded.val ELSE plane

\* A set of planes as the bits of a nibble.
Bits(S) == SumOn([p \in S |-> 2^p], S)
HasBit(nibble, p) == (nibble \div 2^p) % 2 = 1

\* The planes that really became shorter: the flags of the payload.
RcPlanes(planes, encoded, wants_rc) ==
    {p \in wants_rc : Len(encoded[p]) < Len(planes[p])}

\* The payload: width, flags, the sizes of the planes, the planes, the tail.
\* None if no plane is worth coding or nothing was gained.
byteplane_encode(data, w, wants_delta, wants_rc) ==
    LET split == byteplane_split(data, w)
        n == Len(data) \div w
        delta == {p \in wants_delta : p < w /\ n >= MinDelta}
        rc == {p \in wants_rc : p < w /\ n > 0}
        planes == [p \in 0 .. w - 1 |-> IF p \in delta THEN delta_encode(split.planes[p])
                                        ELSE split.planes[p]]
        encoded == [p \in 0 .. w - 1 |-> EncodePlane(planes[p], p \in rc)]
        flags == Bits(RcPlanes(planes, encoded, rc)) + 16 * Bits(delta)
        ordered == [p \in 1 .. w |-> encoded[p - 1]]
        sizes == [p \in 1 .. w |-> LE32(Len(ordered[p]))]
        payload == <<w, flags>> \o FlattenSeq(sizes) \o FlattenSeq(ordered) \o split.tail
    IN  IF Len(data) < MinBytePlane \/ Len(data) > MaxBlock \/ rc = {} THEN Err
        ELSE IF Len(payload) >= Len(data) THEN Err ELSE Ok(payload)

\* One plane of the payload: raw planes must have the exact length.
DecodePlane(bytes, p, flags, n) ==
    LET raw == IF HasBit(flags % 16, p) THEN RcDecode(bytes, n)
               ELSE IF Len(bytes) = n THEN Ok(bytes) ELSE Err
    IN  IF raw.ok /\ HasBit(flags \div 16, p) THEN Ok(delta_decode(raw.val)) ELSE raw

byteplane_decode(payload, size) ==
    LET w == payload[1]
        flags == payload[2]
        head == 2 + 4 * w
        length == [p \in 0 .. w - 1 |-> FromLE32(SubSeq(payload, 3 + 4 * p, 6 + 4 * p))]
        start == [p \in 0 .. w |-> head + SumOn(length, 0 .. p - 1)]
        n == size \div w
        plane == [p \in 0 .. w - 1 |->
                    DecodePlane(SubSeq(payload, start[p] + 1, start[p] + length[p]), p, flags, n)]
        tail == SubSeq(payload, start[w] + 1, start[w] + (size % w))
    IN  IF Len(payload) < 2 \/ payload[1] \notin Widths THEN Err
        ELSE IF Len(payload) < head THEN Err
        ELSE IF \E p \in 0 .. w - 1 : length[p] > MaxBlock THEN Err
        ELSE IF Len(payload) < start[w] + (size % w) THEN Err
        ELSE IF \E p \in 0 .. w - 1 : ~plane[p].ok THEN Err
        ELSE Ok(byteplane_merge([p \in 0 .. w - 1 |-> plane[p].val], w, tail))

------------------------------------------------------------------------------
(* x86 calls and jumps: an opcode byte and a four-byte relative operand.   *)

Opcodes == {Base - 2, Base - 1}     \* 0xE8 and 0xE9

\* s with four bytes replaced from position i on.
ReplaceAt4(s, i, four) == SubSeq(s, 1, i - 1) \o four \o SubSeq(s, i + 4, Len(s))

\* Mutant: the bytes of a rewritten operand are scanned for opcodes too.
TransformStepRescan(s, sign) ==
    LET operand == FromLE32(SubSeq(s.data, s.position + 2, s.position + 5))
        moved == LE32((operand + sign * (s.position + 5)) % Base^4)
    IN  IF s.position + 5 > Len(s.data) THEN s
        ELSE IF s.data[s.position + 1] \notin Opcodes THEN [s EXCEPT !.position = @ + 1]
        ELSE [data |-> ReplaceAt4(s.data, s.position + 2, moved), position |-> s.position + 1]

\* One turn of transform_x86: the operand becomes an absolute position
\* (encode) or relative again (decode), and is skipped.
TransformStep(s, sign) ==
    LET operand == FromLE32(SubSeq(s.data, s.position + 2, s.position + 5))
        moved == LE32((operand + sign * (s.position + 5)) % Base^4)
    IN  IF s.position + 5 > Len(s.data) THEN s
        ELSE IF s.data[s.position + 1] \notin Opcodes THEN [s EXCEPT !.position = @ + 1]
        ELSE [data |-> ReplaceAt4(s.data, s.position + 2, moved), position |-> s.position + 5]

transform_x86(data, sign) ==
    Times(LAMBDA s : TransformStep(s, sign), Len(data), [data |-> data, position |-> 0]).data

encode_x86(data) == transform_x86(data, 1)
decode_x86(data) == transform_x86(data, -1)
==============================================================================
