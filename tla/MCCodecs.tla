------------------------------ MODULE MCCodecs -------------------------------
(***************************************************************************)
(* The pure algorithms of aether-core, checked against what they promise   *)
(* over every small input.  The state is one input and the kind of         *)
(* algorithm it is for; a step appends one element to it.                  *)
(***************************************************************************)
EXTENDS Router

CONSTANTS MaxBytes,             \* bytes given to the transforms
          MaxBinary,            \* bytes of two values given to LZ77
          MaxCoded,             \* symbols given to the range coder
          MaxCounted,           \* updates of the order-0 model
          MaxPieces,            \* pieces of a routed chunk
          ZstdSizes             \* sizes zstd may reach, 0: it fails

VARIABLES kind, input

vars == <<kind, input>>

------------------------------------------------------------------------------
(* The elements of the inputs. *)

\* Weights of a predictor, Base of them: an invalid one, impossible, rare,
\* likely and dominating symbols.
Weights == {-1, 0, 1, 9, 200}

\* Predictions for the range coder: lopsided ones make it defer many digits.
Predictions == {<<1, 1, 1, 1>>, <<200, 0, 0, 0>>, <<0, 0, 0, 200>>, <<0, 9, 200, 9>>}

\* Counts a dictionary may hold: none, accepted ones, and refused ones.
Baselines == {<< >>, <<6, 1, 1, 2>>, <<1, 2, 6, 6>>, <<0, 3, 3, 3>>, <<7, 1, 1, 1>>}

\* What routed chunks are made of: constant, alternating and rising bytes, a
\* slowly growing 16-bit counter, and a call with its operand.
Pieces == {Fill(0, 24), Fill(3, 4), <<0, 1, 0, 1, 0, 1, 0, 1>>, <<0, 1, 2, 3, 2, 1>>,
           [i \in 1 .. 40 |-> IF i % 2 = 0 THEN 1 ELSE (i \div 8) % Base],
           <<Base - 2, 1, 0, 3, Base - 1, 2>>}

Elements(k) ==
    CASE k = "weights" -> Weights
      [] k = "coded" -> Predictions \X Byte
      [] k = "counted" -> IF input = << >> THEN Baselines ELSE Byte
      [] k = "bytes" -> Byte
      [] k = "binary" -> {0, 1}
      [] k = "chunk" -> Pieces

Bound(k) ==
    CASE k = "weights" -> Base
      [] k = "coded" -> MaxCoded
      [] k = "counted" -> MaxCounted + 1
      [] k = "bytes" -> MaxBytes
      [] k = "binary" -> MaxBinary
      [] k = "chunk" -> MaxPieces

Kinds == {"weights", "coded", "counted", "bytes", "binary", "chunk"}

Init == kind \in Kinds /\ input = << >>

Extend ==
    /\ Len(input) < Bound(kind)
    /\ \E x \in Elements(kind) : input' = Append(input, x)
    /\ UNCHANGED kind

Next == Extend

Spec == Init /\ [][Next]_vars

------------------------------------------------------------------------------
(* Range coding and its predictor *)

AsWeights(s) == [b \in Byte |-> s[b + 1]]

\* Whatever a predictor returns, NaN, zeros and one dominating symbol
\* included, the table probs_to_cdf makes of it gives every byte an interval
\* of its own within PROB_TOTAL, and the search finds for every frequency the
\* byte whose interval holds it.
CdfCodesEverySymbol ==
    kind = "weights" /\ Len(input) = Base =>
       LET cdf == probs_to_cdf(AsWeights(input)) IN
       /\ cdf[0] = 0 /\ cdf[Base] = ProbTotal
       /\ \A b \in Byte : cdf[b] < cdf[b + 1]
       /\ \A f \in 0 .. ProbTotal - 1 :
             LET b == find_symbol(cdf, f) IN b \in Byte /\ cdf[b] <= f /\ f < cdf[b + 1]

\* Coding with one prediction for each position, as a predictor that has
\* already seen the data would give them: the predictor's state is the
\* position.
CodedTable(k) == probs_to_cdf(AsWeights(input[k][1]))
CodedQuery(k, byte) == <<CodedTable(k)[byte], CodedTable(k)[byte + 1]>>
CodedDecode(k, freq) ==
    LET b == find_symbol(CodedTable(k), freq) IN <<b, CodedTable(k)[b], CodedTable(k)[b + 1]>>
CodedNext(k, byte) == k + 1

\* The decoder, which sees only the bytes, stays in step with the encoder
\* whatever the predictions are: carries ripple through the deferred digits,
\* and an encoder that had to give up deferring says so instead of returning
\* a block that decodes to something else.
RangeCoderRoundTrip ==
    kind = "coded" =>
       LET data == [k \in DOMAIN input |-> input[k][2]]
           block == encode_block(data, 1, CodedQuery, CodedNext)
       IN  block.ok => decode_block(block.val, Len(data), 1, CodedDecode, CodedNext) = Ok(data)

\* The encoder's and the decoder's shortcuts through the Fenwick tree agree
\* with the table of the counts, byte for byte, after every history of a
\* dictionary, updates and rescalings: a difference would desynchronise the
\* decoder at the next byte.
Order0PathsAgree ==
    kind = "counted" /\ input # << >> =>
       LET start == coding_predictor(IF input[1] = << >> THEN << >> ELSE AsWeights(input[1]))
           m == FoldLeft(order0_update, start, Tail(input))
           cdf == order0_predict_cdf(m)
       IN  /\ \A b \in Byte : cdf[b] < cdf[b + 1]
           /\ \A b \in Byte : order0_query_cdf(m, b) = <<cdf[b], cdf[b + 1]>>
           /\ \A f \in 0 .. ProbTotal - 1 :
                 LET found == order0_decode_symbol(m, f) IN
                 /\ found = <<found[1], cdf[found[1]], cdf[found[1] + 1]>>
                 /\ cdf[found[1]] <= f /\ f < cdf[found[1] + 1]

------------------------------------------------------------------------------
(* Transforms *)

\* The inverse BWT gives the data back by each of its walks (packed or two
\* arrays, one chain or two), periodic data included, whose permutation has
\* several cycles although the comments speak of one.
BwtRoundTrip ==
    kind = "bytes" /\ input # << >> =>
       LET parts == bwt_mtf_encode_parts(input)
           bwt == bwt_encode(input)
       IN  /\ parts.ok
           /\ bwt_mtf_decode_parts(parts.primary, parts.val, Len(input)) = Ok(input)
           /\ \A two_chain_min, max_packed \in {0, Len(input)} :
                 bwt_decode_with(bwt.val, parts.primary, two_chain_min, max_packed) = Ok(input)

\* Both zero-run codings give the ranks back, and reading a stream for fewer
\* or more ranks than it holds is an error, never a shortened or a padded
\* result: the length in the block header is the only other check.
RleExact ==
    kind = "bytes" =>
       LET plain == rle_encode(input)
           escaped == rle_encode_escaped(input)
       IN  \A n \in 0 .. Len(input) + 1 :
              /\ plain.ok => rle_decode(plain.val, n) = (IF n = Len(input) THEN Ok(input) ELSE Err)
              /\ rle_decode_escaped(escaped, n) = (IF n = Len(input) THEN Ok(input) ELSE Err)

\* Matches that overlap themselves, reach to the edge of the window, are
\* found through colliding hashes or are deferred by lazy matching: the
\* decoder rebuilds the data from the sequences and the final literals.
Lz77RoundTrip ==
    kind = "binary" => lz77_decode(Lz77Stream(input), Len(input)) = Ok(input)

------------------------------------------------------------------------------
(* Routing *)

\* Which planes the entropy estimates may single out.
PlaneChoices == [delta : {{}, 0 .. 3}, rc : {{0}, 0 .. 3}]

\* Everything the router learns from estimates and from zstd: what only one
\* content type looks at varies for that type alone.
Env(types, beneficial, x86, bcj) ==
    [type : types, profile : Profiles, entropy : LowEntropy .. Incompressible,
     width : {0} \cup Widths, beneficial : beneficial, x86 : x86,
     zstd : ZstdSizes, bcj : bcj]

Envs == Env(ContentTypes \ {"NumericData", "Executable"}, {{}}, {FALSE}, {0})
        \cup Env({"NumericData"}, SUBSET Widths, {FALSE}, {0})
        \cup Env({"Executable"}, {{}}, BOOLEAN, ZstdSizes)

ChunkData == FlattenSeq(input)

\* Whatever the estimates say, with or without a dictionary, and whichever
\* codec wins, the method and the payload in the block decode to the chunk,
\* and the payload is no longer than the chunk.
RouterRoundTrip ==
    kind = "chunk" /\ input # << >> =>
       \A baseline \in {<< >>, AsWeights(<<6, 1, 1, 2>>)} :
       \A neural \in {NeuralTrials(ChunkData, baseline)} :
       \A trials \in {neural @@ PlaneTrials(ChunkData, planes) : planes \in PlaneChoices} :
       \A block \in {compress_chunk(ChunkData, trials, env) : env \in Envs} :
          block.ok =>
             /\ Len(block.payload) <= Len(ChunkData)
             /\ decompress_chunk(block.payload, block.method, Len(ChunkData), baseline)
                  = Ok(ChunkData)
==============================================================================
