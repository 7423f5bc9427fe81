------------------------------- MODULE Router --------------------------------
(***************************************************************************)
(* The routing cascade of one chunk (aether-core/src/pipeline/router.rs)   *)
(* over the real codecs of Bwt, Lz77, BytePlane and RangeCoder, with the   *)
(* method the analyzer recommends (aether-core/src/analyzer.rs).           *)
(*                                                                         *)
(* The scratch predictor is Order0 in the place of the neural one: the     *)
(* cascade needs of a predictor what traits.rs promises and no more.  Its  *)
(* baseline is none or the counts a dictionary holds.                      *)
(*                                                                         *)
(* What the router only estimates or gets from a library is the record     *)
(* env: the content type, the profile, the entropy (a class, see below),   *)
(* the width detect_numeric_width finds (0: none), the widths              *)
(* is_byteplane_beneficial accepts, whether the chunk has an x86 header,   *)
(* and the sizes zstd reaches on the chunk and on its filtered form (0: it *)
(* fails).                                                                 *)
(***************************************************************************)
EXTENDS Bwt, Lz77, BytePlane

CONSTANTS DecisiveUnit, DecisiveRatio,  \* 100 and BWT_DECISIVE_RATIO
          MinBwt                        \* the shortest chunk BWT is tried on, 8

ASSUME RouterAssumption ==
    /\ DecisiveUnit \in Nat \ {0} /\ DecisiveRatio \in Nat /\ MinBwt \in Nat
    /\ (NibbleMax + 1)^2 <= Base /\ ExtMax < Base /\ OffsetBase <= Base

ContentTypes == {"Text", "BinaryStructured", "BinaryRandom", "Image", "Executable",
                 "Mixed", "NumericData"}
Profiles == {"Archival", "Balanced", "Fast"}

\* Entropy classes: below BWT_ENTROPY_SKIP, up to HIGH_ENTROPY_THRESHOLD, up
\* to INCOMPRESSIBLE_THRESHOLD, above it.
LowEntropy == 0
MidEntropy == 1
HighEntropy == 2
Incompressible == 3

recommend_method(entropy) ==
    CASE entropy = Incompressible -> "Store"
      [] entropy = HighEntropy -> "Zstd"
      [] OTHER -> "PredictorRans"

recommend_method_for(entropy, type) ==
    CASE type = "BinaryRandom" -> IF entropy = Incompressible THEN "Store" ELSE "Zstd"
      [] type = "Image" -> IF entropy >= HighEntropy THEN "Store" ELSE "Zstd"
      [] type = "NumericData" -> IF entropy = Incompressible THEN "Store" ELSE "PredictorRans"
      [] OTHER -> recommend_method(entropy)

------------------------------------------------------------------------------
(* The payload each trial builds.  zstd is a library: a payload of a given *)
(* size that carries the data.                                             *)

zstd_compress(data, size) == IF size = 0 THEN Err ELSE Ok(<<data>> \o Fill(0, size - 1))

zstd_decompress(payload, size) ==
    IF size > MaxBlock \/ Len(payload[1]) # size THEN Err ELSE Ok(payload[1])

coding_predictor(baseline) ==
    IF baseline = << >> THEN order0_new ELSE order0_load_state(order0_new, baseline)

RcBlock(data, baseline) ==
    encode_block(data, coding_predictor(baseline), order0_query_cdf, order0_update)

RcUnblock(bytes, n, baseline) ==
    decode_block(bytes, n, coding_predictor(baseline), order0_decode_symbol, order0_update)

\* Flags 1: plain zero runs; flags 2: the highest rank occurs.
BwtTrial(data, baseline) ==
    LET parts == bwt_mtf_encode_parts(data)
        rle == rle_encode(parts.val)
        stream == IF rle.ok THEN rle.val ELSE rle_encode_escaped(parts.val)
        rc == RcBlock(stream, baseline)
    IN  IF ~parts.ok \/ ~rc.ok THEN Err
        ELSE Ok(<<IF rle.ok THEN 1 ELSE 2>> \o LE32(parts.primary) \o LE32(Len(stream)) \o rc.val)

Lz77Trial(data, baseline) ==
    LET lz == lz77_encode(data)
        rc == RcBlock(lz.val, baseline)
    IN  IF ~lz.ok \/ ~rc.ok THEN Err ELSE Ok(LE32(Len(lz.val)) \o rc.val)

\* Every trial of a chunk through the scratch predictor, and the planes of
\* both widths for the entropy decisions planes gives.
NeuralTrials(data, baseline) ==
    [bwt |-> BwtTrial(data, baseline), lz77 |-> Lz77Trial(data, baseline),
     plain |-> RcBlock(data, baseline)]

PlaneTrials(data, planes) ==
    [plane |-> (2 :> byteplane_encode(data, 2, planes.delta, planes.rc))
               @@ (4 :> byteplane_encode(data, 4, planes.delta, planes.rc))]

------------------------------------------------------------------------------
(* The cascade: best is none or the method and payload ahead so far.       *)

None == [method |-> "none", payload |-> << >>]

\* A trial that shrank the chunk takes the lead if it is smaller than the best.
Lead(best, method, trial, data) ==
    IF /\ trial.ok /\ Len(trial.val) < Len(data)
       /\ best = None \/ Len(trial.val) < Len(best.payload)
    THEN [method |-> method, payload |-> trial.val] ELSE best

\* Numeric chunks try their planes first: the detected width, else both.
NumericBest(data, trials, env) ==
    IF env.type # "NumericData" THEN None
    ELSE IF env.width # 0 THEN Lead(None, "BytePlanePredictorRans", trials.plane[env.width], data)
    ELSE LET two == IF 2 \in env.beneficial
                    THEN Lead(None, "BytePlanePredictorRans", trials.plane[2], data) ELSE None
         IN  IF 4 \in env.beneficial
             THEN Lead(two, "BytePlanePredictorRans", trials.plane[4], data) ELSE two

\* BWT, then LZ77 unless BWT won decisively, then planes, then plain coding
\* if nothing else shrank the chunk.
NeuralBest(data, trials, env) ==
    LET bwt == IF Len(data) >= MinBwt /\ env.entropy = LowEntropy
               THEN Lead(None, "BwtPredictorRans", trials.bwt, data) ELSE None
        decisive == bwt # None
                    /\ Len(bwt.payload) < (Len(data) \div DecisiveUnit) * DecisiveRatio
        lz == IF decisive THEN bwt ELSE Lead(bwt, "Lz77PredictorRans", trials.lz77, data)
        plane == IF env.type \notin {"NumericData", "Text"} /\ env.width # 0
                 THEN Lead(lz, "BytePlanePredictorRans", trials.plane[env.width], data) ELSE lz
    IN  IF plane = None THEN Lead(None, "PredictorRans", trials.plain, data) ELSE plane

try_zstd_or_store(data, env) ==
    LET zstd == Lead(None, "Zstd", zstd_compress(data, env.zstd), data)
    IN  IF zstd = None THEN [method |-> "Store", payload |-> data] ELSE zstd

PredictorRoute(data, trials, env) ==
    LET numeric == NumericBest(data, trials, env)
        skip == \/ numeric # None
                \/ env.type = "NumericData" /\ env.entropy >= HighEntropy
        best == IF skip THEN numeric ELSE NeuralBest(data, trials, env)
    IN  IF best = None THEN try_zstd_or_store(data, env) ELSE best

FastRoute(env) ==
    \/ env.profile = "Fast"
    \/ /\ env.profile = "Balanced"
       /\ env.type \in {"BinaryStructured", "BinaryRandom", "Image", "Executable"}

BcjTrial(data, env) == zstd_compress(encode_x86(data), env.bcj)

Chunk(best, synced) == [ok |-> TRUE, method |-> best.method, payload |-> best.payload,
                        predictor_synced |-> synced]
Failed == [ok |-> FALSE, method |-> "none", payload |-> << >>, predictor_synced |-> FALSE]

\* Fast: zstd or store, and the filtered chunk if that is smaller.  A zstd
\* failure is an error here.
CompressFast(data, env) ==
    LET x86 == env.type = "Executable" /\ env.x86
        best == try_zstd_or_store(data, env)
        filtered == BcjTrial(data, env)
    IN  IF env.zstd = 0 \/ (x86 /\ env.bcj = 0) THEN Failed
        ELSE IF x86 /\ Len(filtered.val) < Len(best.payload)
        THEN Chunk([method |-> "BcjZstd", payload |-> filtered.val], FALSE)
        ELSE Chunk(best, FALSE)

\* The whole cascade of a chunk.
compress_chunk(data, trials, env) ==
    LET method == recommend_method_for(env.entropy, env.type)
        routed == CASE method = "PredictorRans" -> PredictorRoute(data, trials, env)
                    [] method = "Zstd" -> try_zstd_or_store(data, env)
                    [] OTHER -> [method |-> "Store", payload |-> data]
        filtered == BcjTrial(data, env)
        bcj == /\ env.type = "Executable" /\ env.x86 /\ filtered.ok
               /\ Len(filtered.val) < Len(data) /\ Len(filtered.val) < Len(routed.payload)
    IN  IF FastRoute(env) THEN CompressFast(data, env)
        ELSE IF method = "Zstd" /\ env.zstd = 0 THEN Failed
        ELSE IF bcj THEN Chunk([method |-> "BcjZstd", payload |-> filtered.val], FALSE)
        ELSE Chunk(routed, routed.method \notin {"BwtPredictorRans", "BytePlanePredictorRans"})

------------------------------------------------------------------------------
(* Decoding, by the method in the block header. *)

DecodeBwt(payload, size, baseline) ==
    LET n == FromLE32(SubSeq(payload, 6, 9))
        stream == RcUnblock(SubSeq(payload, 10, Len(payload)), n, baseline)
        ranks == CASE payload[1] = 2 -> rle_decode_escaped(stream.val, size)
                   [] payload[1] = 1 -> rle_decode(stream.val, size)
                   [] OTHER -> stream
    IN  IF Len(payload) < 9 THEN Err
        ELSE IF payload[1] > 2 \/ n > MaxBlock \/ ~stream.ok \/ ~ranks.ok THEN Err
        ELSE bwt_mtf_decode_parts(FromLE32(SubSeq(payload, 2, 5)), ranks.val, size)

DecodeLz77(payload, size, baseline) ==
    LET n == FromLE32(SubSeq(payload, 1, 4))
        lz == RcUnblock(SubSeq(payload, 5, Len(payload)), n, baseline)
    IN  IF Len(payload) < 4 THEN Err
        ELSE IF n > MaxBlock \/ ~lz.ok THEN Err ELSE lz77_decode(lz.val, size)

DecodeBcj(payload, size) ==
    LET filtered == zstd_decompress(payload, size)
    IN  IF filtered.ok THEN Ok(decode_x86(filtered.val)) ELSE Err

decompress_chunk(payload, method, size, baseline) ==
    IF size > MaxBlock THEN Err
    ELSE CASE method = "BcjZstd" -> DecodeBcj(payload, size)
           [] method = "BytePlanePredictorRans" -> byteplane_decode(payload, size)
           [] method = "BwtPredictorRans" -> DecodeBwt(payload, size, baseline)
           [] method = "Lz77PredictorRans" -> DecodeLz77(payload, size, baseline)
           [] method = "PredictorRans" -> RcUnblock(payload, size, baseline)
           [] method = "Zstd" -> zstd_decompress(payload, size)
           [] OTHER -> IF Len(payload) = size THEN Ok(payload) ELSE Err
==============================================================================
