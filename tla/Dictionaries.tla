---------------------------- MODULE Dictionaries -----------------------------
(***************************************************************************)
(* Pretrained dictionaries (aether-core/src/dictionary.rs and              *)
(* builtin_dicts.rs) and how compressors and decompressors choose one.  A  *)
(* dictionary is its predictor and its state; the hash stored in archives  *)
(* is that of the state alone.  An archive here is the record of what      *)
(* decoding it depends on.                                                 *)
(***************************************************************************)
EXTENDS Naturals, FiniteSets

Predictors == {"Order0", "ContextMixer", "ContextMixerLight", "Lz4Aware", "NeuralSsm", "Rle"}

\* save_state has no default: the LZ4-aware predictor cannot be trained.
CanSaveState == Predictors \ {"Lz4Aware"}

None == [none |-> TRUE]

Dictionary(predictor, state) == [predictor |-> predictor, state |-> state]
hash(dict) == dict.state

\* Training feeds the predictor with the whole corpus, as it is or through
\* the transforms of the BWT path; a predictor that cannot save its state is
\* refused after that.
Trained(predictor, stream, corpus) ==
    IF predictor \in CanSaveState
    THEN Dictionary(predictor, [predictor |-> predictor, stream |-> stream, corpus |-> corpus])
    ELSE None
train(predictor, corpus) == Trained(predictor, "raw", corpus)
train_transformed(predictor, corpus) == Trained(predictor, "bwt", corpus)

\* The dictionary built into the library.
TextDict ==
    Dictionary("NeuralSsm", [predictor |-> "NeuralSsm", stream |-> "bwt", corpus |-> None])

for_content_type(text) == IF text THEN TextDict ELSE None
by_hash(h) == IF h = hash(TextDict) THEN TextDict ELSE None

\* load_state takes only states its own predictor saved.
apply(dict, predictor) == dict.predictor = predictor /\ dict.state.predictor = predictor

\* Only the neural predictor seeds the coder.
set_coding_baseline(predictor, dict) == IF predictor = "NeuralSsm" THEN dict.state ELSE None

------------------------------------------------------------------------------
(* Compressing *)

\* The dictionary of a new compressor, and after with_dictionary.
default_dictionary(predictor) == IF predictor = "NeuralSsm" THEN for_content_type(TRUE) ELSE None
with_dictionary(predictor, dict) == IF dict = None THEN default_dictionary(predictor) ELSE dict

encode_baseline(predictor, dict) ==
    IF dict = None THEN [ok |-> TRUE, val |-> None]
    ELSE [ok |-> apply(dict, predictor), val |-> set_coding_baseline(predictor, dict)]

------------------------------------------------------------------------------
(* Decompressing *)

\* Validation lets a dictionary pass that the archive does not need.
validate_dictionary(archive_hash, dict) ==
    \/ archive_hash = None
    \/ dict # None /\ archive_hash = hash(dict)
    \/ dict = None /\ by_hash(archive_hash) # None

\* The dictionary a decompressor was given wins over the archive's hash; the
\* baseline is resolved with it even if the archive has none.
decode_baseline_for(archive_hash, dict, predictor) ==
    LET used == IF dict # None THEN dict
                ELSE IF archive_hash # None THEN by_hash(archive_hash) ELSE None
    IN  IF used = None THEN [ok |-> TRUE, val |-> None]
        ELSE [ok |-> apply(used, predictor), val |-> set_coding_baseline(predictor, used)]

\* The baseline is resolved whether or not a block needs it.  What a predictor
\* coded decodes with the baseline it was coded with and with no other; files
\* without such a block (`coded`) decode with any.
Decodes(archive, names, dict, predictor) ==
    LET b == decode_baseline_for(archive.hash, dict, predictor) IN
    b.ok /\ (archive.coded \cap names # {} => b.val = archive.baseline)
==============================================================================
