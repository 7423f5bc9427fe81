----------------------------- MODULE Extraction -----------------------------
(***************************************************************************)
(* Decompressor::extract_all behind read_metadata: the three ways to       *)
(* decode the blocks (decompress_blocks_parallel and _sequential of        *)
(* pipeline/decompress_seekable.rs, and the loop of                        *)
(* extract_with_streaming_metadata), and the reassembly of the files from  *)
(* shared blocks by reference counts (pipeline/decompress.rs).             *)
(*                                                                         *)
(* An archive is a record [index, files].  index[i] describes block i:     *)
(*    claimed  - compressed_size of its index entry                        *)
(*    stored   - compressed_size of its block header                       *)
(*    payload  - length of the payload once it is decrypted                *)
(*    size     - uncompressed_size                                         *)
(*    readable - read_raw_block returns it (header, cross-check, trailer,  *)
(*               decryption)                                               *)
(*    decodes  - it decompresses to its size and its hash                  *)
(* The content of block i is the token i; a file content is a sequence of  *)
(* tokens, and original_size counts tokens.  Files are numbered from 1,    *)
(* chunk_start_idx from 0 as in the code.                                  *)
(***************************************************************************)
EXTENDS Integers, Sequences, FiniteSets, SequencesExt

CONSTANTS Archives,               \* what read_metadata may have returned
          Modes,                  \* the read paths in use
          MaxBlockSize,           \* MAX_DECOMPRESSED_BLOCK_SIZE
          MaxTotalCompressedRead, \* MAX_TOTAL_COMPRESSED_READ_SIZE
          MaxTotalDecompressed    \* MAX_TOTAL_DECOMPRESSED_SIZE

BlockRecord == [claimed : Nat, stored : Nat, payload : Nat, size : Nat,
                readable : BOOLEAN, decodes : BOOLEAN]
FileRecord == [chunk_start_idx : Nat, chunk_count : Nat, original_size : Nat,
               blake3_hash : Seq(Nat), writable : BOOLEAN]

ASSUME ExtractionAssumption ==
    /\ Archives \subseteq [index : Seq(BlockRecord), files : Seq(FileRecord)]
    /\ Modes \subseteq {"parallel", "sequential", "streaming"}
    /\ MaxBlockSize \in Nat
    /\ MaxTotalCompressedRead \in Nat
    /\ MaxTotalDecompressed \in Nat

NoBlock == 0        \* a slot of the block array that holds no data
Pending == -1       \* a decode task that has not run
Failed == -2        \* a decode task that returned an error

VARIABLES archive, mode,
          pc, err,
          next,                   \* loop index over the blocks, from 1
          total_compressed_read,
          total_decompressed,
          results,                \* of the decode tasks, by block
          decompressed_blocks,    \* Vec<Option<Vec<u8>>>
          ref_counts,
          file,                   \* loop index over the files, from 1
          chunk,                  \* blocks of this file taken so far
          combined,
          written                 \* contents of the files written, in order

reading == <<next, total_compressed_read, total_decompressed, results, decompressed_blocks>>
writing == <<ref_counts, file, chunk, combined, written>>
vars == <<archive, mode, pc, err, reading, writing>>

index == archive.index
Blocks == 1 .. Len(index)
Files == 1 .. Len(archive.files)

------------------------------------------------------------------------------
Init == /\ archive \in Archives
        /\ mode \in Modes
        /\ mode = "parallel" => Len(archive.index) > 1
        /\ pc = "read"
        /\ err = "none"
        /\ next = 1
        /\ total_compressed_read = 0
        /\ total_decompressed = 0
        /\ results = [i \in Blocks |-> Pending]
        /\ decompressed_blocks = [i \in Blocks |-> NoBlock]
        /\ ref_counts = [i \in Blocks |-> 0]
        /\ file = 1
        /\ chunk = 0
        /\ combined = << >>
        /\ written = << >>

\* Return Err: nothing is undone.
Raise(reason) ==
    /\ pc' = "error"
    /\ err' = reason
    /\ UNCHANGED <<archive, mode, reading, writing>>

\* validate_block_header's limits, and the rest of read_raw_block.
Reads(b) == b.readable /\ b.stored <= MaxBlockSize /\ b.size <= MaxBlockSize

------------------------------------------------------------------------------
(* The parallel path.                                                      *)

\* Phase 1: read one block; its decrypted payload counts.
ReadBlock ==
    /\ mode = "parallel" /\ pc = "read" /\ next \in Blocks
    /\ IF ~Reads(index[next]) THEN Raise("block")
       ELSE IF total_compressed_read + index[next].payload > MaxTotalCompressedRead
       THEN Raise("limit")
       ELSE /\ total_compressed_read' = total_compressed_read + index[next].payload
            /\ next' = next + 1
            /\ UNCHANGED <<archive, mode, pc, err, total_decompressed, results,
                           decompressed_blocks, writing>>

\* A sum over the blocks.
Total(weights) == FoldLeft(LAMBDA n, x : n + x, 0, weights)
Sizes == [i \in Blocks |-> index[i].size]
total_expected == Total(Sizes)

\* Mutant: the sum is left to the check on the decoded blocks.
ExpectedUnchecked == FALSE
ExpectedTooLarge == total_expected > MaxTotalDecompressed

\* The pre-check on the claimed sizes, then one task per block.
StartDecode ==
    /\ mode = "parallel" /\ pc = "read" /\ next \notin Blocks
    /\ IF ExpectedTooLarge THEN Raise("limit")
       ELSE pc' = "decode" /\ UNCHANGED <<archive, mode, err, reading, writing>>

\* Mutants: a task that fails never reports; a position counted from 0.
DecodedOrLost(i) == IF index[i].decodes THEN i ELSE Pending
DecodedFromZero(i) == IF index[i].decodes THEN i - 1 ELSE Failed
decompress_raw_block(i) == IF index[i].decodes THEN i ELSE Failed

\* Phase 2: the pool runs the tasks in any order.
DecodeBlock(i) ==
    /\ pc = "decode"
    /\ results[i] = Pending
    /\ results' = [results EXCEPT ![i] = decompress_raw_block(i)]
    /\ UNCHANGED <<archive, mode, pc, err, next, total_compressed_read,
                   total_decompressed, decompressed_blocks, writing>>

\* collect() returns when the last task has.
Collect ==
    /\ pc = "decode"
    /\ \A i \in Blocks : results[i] # Pending
    /\ pc' = "assemble"
    /\ next' = 1
    /\ UNCHANGED <<archive, mode, err, total_compressed_read, total_decompressed,
                   results, decompressed_blocks, writing>>

\* Put decoded block i into its slot, under the cumulative limit; read is the
\* count of compressed bytes with it.  The loop goes on at `loop`.
Store(i, read, loop) ==
    IF total_decompressed + index[i].size > MaxTotalDecompressed THEN Raise("limit")
    ELSE /\ total_compressed_read' = read
         /\ total_decompressed' = total_decompressed + index[i].size
         /\ decompressed_blocks' = [decompressed_blocks EXCEPT ![i] = i]
         /\ next' = next + 1
         /\ pc' = loop
         /\ UNCHANGED <<archive, mode, err, results, writing>>

AssembleBlock ==
    /\ pc = "assemble" /\ next \in Blocks
    /\ IF results[next] = Failed THEN Raise("block")
       ELSE Store(results[next], total_compressed_read, "assemble")

------------------------------------------------------------------------------
(* The sequential and the streaming path: each block is decoded into a      *)
(* local first, and compared with the limit while it is held there.         *)

\* Decode block `next` into the local `data`, with read compressed bytes counted.
Decode(read) ==
    IF ~(Reads(index[next]) /\ index[next].decodes) THEN Raise("block")
    ELSE /\ pc' = "decoded"
         /\ total_compressed_read' = read
         /\ UNCHANGED <<archive, mode, err, next, total_decompressed, results,
                        decompressed_blocks, writing>>

\* The sequential path counts what the index claims, before it reads.
DecompressBlock ==
    LET read == total_compressed_read + index[next].claimed IN
    /\ mode = "sequential" /\ pc = "read" /\ next \in Blocks
    /\ IF read > MaxTotalCompressedRead THEN Raise("limit") ELSE Decode(read)

KeepBlock ==
    /\ mode = "sequential" /\ pc = "decoded"
    /\ Store(next, total_compressed_read, "read")

\* The streaming path counts what the block header claims, after decoding.
DecompressBlockStreaming ==
    /\ mode = "streaming" /\ pc = "read" /\ next \in Blocks
    /\ Decode(total_compressed_read)

KeepBlockStreaming ==
    LET read == total_compressed_read + index[next].stored IN
    /\ mode = "streaming" /\ pc = "decoded"
    /\ IF read > MaxTotalCompressedRead THEN Raise("limit") ELSE Store(next, read, "read")

------------------------------------------------------------------------------
(* Reassembly.                                                             *)

Start(f) == archive.files[f].chunk_start_idx
Count(f) == archive.files[f].chunk_count

\* The blocks of file f, clipped to the block array as block_ref_counts does.
BlocksOf(f) == {i \in Blocks : Start(f) < i /\ i <= Start(f) + Count(f)}

\* Mutant: a file that shares all its blocks is not counted again.
distinct_ref_counts ==
    [i \in Blocks |-> IF \E f \in Files : i \in BlocksOf(f) THEN 1 ELSE 0]

block_ref_counts == [i \in Blocks |-> Cardinality({f \in Files : i \in BlocksOf(f)})]

BlocksDone == /\ pc \in {"read", "assemble"}
              /\ mode = "parallel" => pc = "assemble"
              /\ next \notin Blocks

StartFiles ==
    /\ BlocksDone
    /\ pc' = "file"
    /\ ref_counts' = block_ref_counts
    /\ UNCHANGED <<archive, mode, err, reading, file, chunk, combined, written>>

\* file_block_range: a range that leaves the block array is an error, an empty
\* one is an empty file.
BeginFile ==
    /\ pc = "file" /\ file \in Files
    /\ IF Count(file) > 0 /\ Start(file) + Count(file) > Len(index) THEN Raise("range")
       ELSE /\ pc' = "take"
            /\ UNCHANGED <<archive, mode, err, reading, writing>>

\* Mutant: a block is released although another file still refers to it.
AlwaysTake(rem) == TRUE
LastReference(rem) == rem <= 1

\* take_or_clone: use up one reference of the next block of the file, and
\* release the block with the last one.
TakeBlock ==
    LET i == Start(file) + chunk + 1 IN
    /\ pc = "take" /\ chunk < Count(file)
    /\ IF decompressed_blocks[i] = NoBlock THEN Raise("missing")
       ELSE /\ combined' = Append(combined, decompressed_blocks[i])
            /\ ref_counts' = [ref_counts EXCEPT ![i] = IF @ = 0 THEN 0 ELSE @ - 1]
            /\ decompressed_blocks' =
                  IF LastReference(ref_counts[i])
                  THEN [decompressed_blocks EXCEPT ![i] = NoBlock]
                  ELSE decompressed_blocks
            /\ chunk' = chunk + 1
            /\ UNCHANGED <<archive, mode, pc, err, next, total_compressed_read,
                           total_decompressed, results, file, written>>

\* Mutant: the file keeps what its last block holds beyond its size.
untruncated(data, f) == data

truncate_to_file_size(data, f) ==
    IF Len(data) > archive.files[f].original_size
    THEN SubSeq(data, 1, archive.files[f].original_size)
    ELSE data

\* Compare the hash, write the file, go on with the next.
WriteFile ==
    LET file_data == truncate_to_file_size(combined, file) IN
    /\ pc = "take" /\ chunk = Count(file)
    /\ IF file_data # archive.files[file].blake3_hash THEN Raise("hash")
       ELSE IF ~archive.files[file].writable THEN Raise("write")
       ELSE /\ written' = Append(written, file_data)
            /\ file' = file + 1
            /\ chunk' = 0
            /\ combined' = << >>
            /\ pc' = "file"
            /\ UNCHANGED <<archive, mode, err, reading, ref_counts>>

Finish ==
    /\ pc = "file" /\ file \notin Files
    /\ pc' = "done"
    /\ UNCHANGED <<archive, mode, err, reading, writing>>

Next == \/ ReadBlock \/ StartDecode \/ (\E i \in Blocks : DecodeBlock(i))
        \/ Collect \/ AssembleBlock
        \/ DecompressBlock \/ KeepBlock
        \/ DecompressBlockStreaming \/ KeepBlockStreaming
        \/ StartFiles \/ BeginFile \/ TakeBlock \/ WriteFile \/ Finish

Spec == Init /\ [][Next]_vars

\* The calling thread and the pool are not suspended for ever.
FairSpec == Spec /\ WF_vars(Next)

------------------------------------------------------------------------------
(* Properties.                                                             *)

\* The loops index nothing beyond the tables of the archive, and a decode
\* task reports the block it was given, not another position.
TypeOK ==
    /\ archive \in Archives
    /\ mode \in Modes
    /\ pc \in {"read", "decoded", "decode", "assemble", "file", "take", "done", "error"}
    /\ err \in {"none", "block", "limit", "range", "missing", "hash", "write"}
    /\ next \in 1 .. Len(index) + 1
    /\ total_compressed_read \in Nat
    /\ total_decompressed \in Nat
    /\ results \in [Blocks -> Blocks \cup {Pending, Failed}]
    /\ decompressed_blocks \in [Blocks -> Blocks \cup {NoBlock}]
    /\ ref_counts \in [Blocks -> Nat]
    /\ file \in 1 .. Len(archive.files) + 1
    /\ chunk \in Nat
    /\ combined \in Seq(Blocks)
    /\ written \in Seq(Seq(Blocks))

\* The files, the current one included, that still need block i.
Waiting(i) ==
    {f \in Files : /\ f >= file
                   /\ i \in BlocksOf(f)
                   /\ f = file => i > Start(f) + chunk}

\* While files are reassembled, the reference count of a block is the number
\* of files still to be given it, a block with a reference left is in its
\* slot, and one that had references and has none left was released ("each
\* block once its last reference is consumed").
RefCountsExact ==
    pc \in {"file", "take"} =>
       \A i \in Blocks :
          /\ ref_counts[i] = Cardinality(Waiting(i))
          /\ ref_counts[i] > 0 => decompressed_blocks[i] = i
          /\ (ref_counts[i] = 0 /\ \E f \in Files : i \in BlocksOf(f))
                => decompressed_blocks[i] = NoBlock

\* reassemble_file_shared never meets a block that was already taken, however
\* many duplicates share it: BlockNotFound is raised by file_block_range only.
NoMissingBlock == err # "missing"

\* What each path counts of a block that it reads.
Counted == [i \in Blocks |-> IF mode = "parallel" THEN index[i].payload
                             ELSE IF mode = "sequential" THEN index[i].claimed
                             ELSE index[i].stored]

\* The decoded blocks in memory: in the array, among the results of the tasks,
\* or in the local of the sequential loops.  What take_or_clone copies into the
\* file being put together is not counted, and by the code neither.
Held == [i \in Blocks |-> IF \/ decompressed_blocks[i] # NoBlock
                             \/ results[i] \in Blocks
                             \/ pc = "decoded" /\ i = next
                          THEN index[i].size ELSE 0]

Fits == /\ Total(Counted) <= MaxTotalCompressedRead
        /\ Total(Sizes) <= MaxTotalDecompressed

\* The limits are exact: an extraction that gets as far as the files is within
\* both of them, and one that is refused for a limit is really beyond one.  No
\* more than the limit is held in decoded blocks, but for the one block the
\* sequential and the streaming loop have just decoded and not yet counted.
LimitsExact ==
    /\ pc \in {"file", "take", "done"} => Fits
    /\ err = "limit" => ~Fits
    /\ Total(Held) <= MaxTotalDecompressed + (IF pc = "decoded" THEN MaxBlockSize ELSE 0)

\* extract_all as its caller sees it.
status == CASE pc = "done" -> "ok"
            [] pc = "error" -> "failed"
            [] OTHER -> "running"

Promise == INSTANCE ExtractionSpec

\* Every read path, with every order of the decode tasks, is an implementation
\* of the promise: nothing else is written, no success without every file, and
\* no failure without a cause in the archive.
ImplementsPromise == Promise!Spec
==============================================================================
