-------------------------- MODULE Extraction_proofs --------------------------
(***************************************************************************)
(* Proofs about Extraction, for every set of archives and every limit.     *)
(***************************************************************************)
EXTENDS Extraction, FiniteSetTheorems, TLAPS

\* The phases before the first file is reassembled.
Decoding == pc \in {"read", "decoded", "decode", "assemble"}

\* A block that is read and decodes to its size and hash.
GoodBlock(b) == Reads(b) /\ b.decodes

\* What the loop over the blocks has established so far.
ReadInv ==
    /\ (pc = "read" /\ mode = "parallel") =>
          \A i \in Blocks : i < next => Reads(index[i])
    /\ pc \in {"decode", "assemble"} =>
          \A i \in Blocks : Reads(index[i])
    /\ \A i \in Blocks : \/ results[i] = Pending
                         \/ results[i] = i /\ index[i].decodes
                         \/ results[i] = Failed /\ ~index[i].decodes
    /\ pc = "decode" => mode = "parallel"
    /\ pc = "assemble" => mode = "parallel" /\ \A i \in Blocks : results[i] # Pending
    /\ pc = "decoded" => mode # "parallel" /\ next \in Blocks /\ GoodBlock(index[next])
    /\ (pc \in {"assemble", "decoded"} \/ (pc = "read" /\ mode # "parallel")) =>
          \A i \in Blocks : i < next => /\ GoodBlock(index[i])
                                        /\ decompressed_blocks[i] = i

\* What the loop over the files relies on and has established so far.
FileInv ==
    /\ Decoding => file = 1 /\ chunk = 0 /\ combined = << >> /\ written = << >>
    /\ pc \in {"file", "take", "done"} => \A i \in Blocks : GoodBlock(index[i])
    /\ pc = "file" => chunk = 0 /\ combined = << >>
    /\ pc = "take" =>
          /\ file \in Files
          /\ chunk <= Count(file)
          /\ Count(file) = 0 \/ Start(file) + Count(file) <= Len(index)
          /\ combined = [k \in 1 .. chunk |-> Start(file) + k]
    /\ pc \in {"file", "take", "done"} => Len(written) = file - 1
    /\ pc = "done" => file \notin Files

\* The inductive invariant.
IInv == TypeOK /\ ReadInv /\ FileInv /\ RefCountsExact /\ NoMissingBlock

------------------------------------------------------------------------------
(* Facts about the archive and the current file.                           *)

\* The tables of an archive read_metadata returned have the types of their
\* records.
LEMMA ArchiveTypes ==
    ASSUME archive \in Archives
    PROVE  /\ index \in Seq(BlockRecord)
           /\ Len(index) \in Nat
           /\ Len(archive.files) \in Nat
           /\ \A i \in Blocks : index[i] \in BlockRecord
           /\ \A f \in Files : archive.files[f] \in FileRecord
           /\ \A f \in Files : Start(f) \in Nat /\ Count(f) \in Nat
  <1>1. archive \in [index : Seq(BlockRecord), files : Seq(FileRecord)]
    BY ExtractionAssumption
  <1>2. archive.index \in Seq(BlockRecord) /\ archive.files \in Seq(FileRecord)
    BY <1>1
  <1>3. \A f \in Files : archive.files[f] \in FileRecord
    BY <1>2 DEF Files
  <1>4. \A f \in Files : Start(f) \in Nat /\ Count(f) \in Nat
    BY <1>3 DEF Start, Count, FileRecord
  <1> QED
    BY <1>2, <1>3, <1>4 DEF index, Blocks

\* The loop index and the running totals stay in range when a block is added.
LEMMA Counters ==
    ASSUME TypeOK, next \in Blocks
    PROVE  /\ next + 1 \in 1 .. Len(index) + 1
           /\ total_compressed_read + index[next].payload \in Nat
           /\ total_compressed_read + index[next].claimed \in Nat
           /\ total_compressed_read + index[next].stored \in Nat
           /\ total_decompressed + index[next].size \in Nat
  <1>1. total_compressed_read \in Nat /\ total_decompressed \in Nat
    BY DEF TypeOK
  <1>2. archive \in Archives
    BY DEF TypeOK
  <1>3. Len(index) \in Nat /\ index[next] \in BlockRecord
    BY <1>2, ArchiveTypes
  <1>4. /\ index[next].payload \in Nat /\ index[next].claimed \in Nat
        /\ index[next].stored \in Nat /\ index[next].size \in Nat
    BY <1>3 DEF BlockRecord
  <1>5. next + 1 \in 1 .. Len(index) + 1
    BY <1>3 DEF Blocks
  <1>6. /\ total_compressed_read + index[next].payload \in Nat
        /\ total_compressed_read + index[next].claimed \in Nat
        /\ total_compressed_read + index[next].stored \in Nat
        /\ total_decompressed + index[next].size \in Nat
    BY <1>1, <1>4
  <1> QED
    BY <1>5, <1>6, Zenon

\* The initial state: nothing read, nothing written.
LEMMA InitInv == Init => IInv
  <1> SUFFICES ASSUME Init PROVE IInv
    OBVIOUS
  <1> USE DEF Init
  <1>1. Len(index) \in Nat /\ Len(archive.files) \in Nat
    BY ArchiveTypes
  <1>2. TypeOK
    BY <1>1 DEF TypeOK, Blocks, Pending, Failed, NoBlock
  <1>3. ReadInv
    BY <1>1 DEF ReadInv, Blocks, Pending
  <1>4. FileInv
    BY DEF FileInv, Decoding
  <1> QED
    BY <1>2, <1>3, <1>4 DEF IInv, RefCountsExact, NoMissingBlock

\* An error return leaves everything but pc and err alone, and no error of
\* the program's own guards is the missing block.
LEMMA RaiseInv ==
    ASSUME IInv, NEW r \in {"block", "limit", "range", "hash", "write"}, Raise(r)
    PROVE  IInv'
  <1> USE DEF Raise, reading, writing
  <1>1. TypeOK'
    BY DEF IInv, TypeOK, index, Blocks, Files
  <1>2. ReadInv'
    BY DEF IInv, ReadInv, index, Blocks, GoodBlock, Reads
  <1>3. FileInv'
    BY DEF FileInv, Decoding
  <1> QED
    BY <1>1, <1>2, <1>3 DEF IInv, RefCountsExact, NoMissingBlock

------------------------------------------------------------------------------
(* The loop over the blocks.                                               *)

\* While blocks are read and decoded no file has been begun, so a step that
\* leaves the file loop's variables alone keeps its invariants.
LEMMA DecodingStep ==
    ASSUME IInv, Decoding, Decoding', TypeOK', err' = err,
           UNCHANGED <<archive, mode, writing>>
    PROVE  FileInv' /\ RefCountsExact' /\ NoMissingBlock'
  BY DEF IInv, FileInv, Decoding, writing, RefCountsExact, NoMissingBlock

\* Phase 1 of decompress_blocks_parallel: reading one block keeps the invariant.
LEMMA ReadBlockInv == IInv /\ ReadBlock => IInv'
  <1> SUFFICES ASSUME IInv, ReadBlock PROVE IInv'
    OBVIOUS
  <1>1. CASE Raise("block") \/ Raise("limit")
    BY <1>1, RaiseInv
  <1>2. CASE /\ Reads(index[next])
             /\ total_compressed_read' = total_compressed_read + index[next].payload
             /\ next' = next + 1
             /\ UNCHANGED <<archive, mode, pc, err, total_decompressed, results,
                            decompressed_blocks, writing>>
    <2> USE <1>2 DEF ReadBlock
    <2>1. Len(index) \in Nat /\ index[next] \in BlockRecord
      BY ArchiveTypes DEF IInv, TypeOK
    <2>2. /\ next + 1 \in 1 .. Len(index) + 1
          /\ total_compressed_read + index[next].payload \in Nat
      BY Counters DEF IInv
    <2>3. index' = index /\ Blocks' = Blocks
      BY DEF index, Blocks
    <2>4. TypeOK'
      BY <2>2, <2>3 DEF IInv, TypeOK, writing
    <2>5. ReadInv'
      BY <2>1, <2>3 DEF IInv, TypeOK, ReadInv, Blocks, Reads
    <2> QED
      BY <2>4, <2>5, DecodingStep DEF IInv, Decoding
  <1> QED
    BY <1>1, <1>2 DEF ReadBlock

\* The pre-check on the claimed sizes ends phase 1: every block was read.
LEMMA StartDecodeInv == IInv /\ StartDecode => IInv'
  <1> SUFFICES ASSUME IInv, StartDecode PROVE IInv'
    OBVIOUS
  <1>1. CASE Raise("limit")
    BY <1>1, RaiseInv
  <1>2. CASE pc' = "decode" /\ UNCHANGED <<archive, mode, err, reading, writing>>
    <2> USE <1>2 DEF StartDecode, reading
    <2>1. Len(index) \in Nat
      BY ArchiveTypes DEF IInv, TypeOK
    <2>2. TypeOK'
      BY DEF IInv, TypeOK, index, Blocks, writing
    <2>3. index' = index /\ Blocks' = Blocks
      BY DEF index, Blocks
    <2>4. \A i \in Blocks : Reads(index[i])
      BY <2>1 DEF IInv, TypeOK, ReadInv, Blocks
    <2>5. ReadInv'
      BY <2>3, <2>4 DEF IInv, ReadInv, Reads
    <2> QED
      BY <2>2, <2>5, DecodingStep DEF IInv, Decoding
  <1> QED
    BY <1>1, <1>2 DEF StartDecode

\* One decode task of the pool, in whatever order the tasks run, reports for its
\* own block only.
LEMMA DecodeBlockInv == ASSUME IInv, NEW i \in Blocks, DecodeBlock(i) PROVE IInv'
  <1> USE DEF DecodeBlock
  <1>1. Len(index) \in Nat
    BY ArchiveTypes DEF IInv, TypeOK
  <1>2. TypeOK'
    BY <1>1 DEF IInv, TypeOK, index, Blocks, writing, decompress_raw_block
  <1>3. ReadInv'
    BY <1>1 DEF IInv, TypeOK, ReadInv, index, Blocks, Reads, GoodBlock, decompress_raw_block
  <1> QED
    BY <1>2, <1>3, DecodingStep DEF IInv, Decoding

\* collect() hands over one result for each block.
LEMMA CollectInv == IInv /\ Collect => IInv'
  <1> SUFFICES ASSUME IInv, Collect PROVE IInv'
    OBVIOUS
  <1> USE DEF Collect
  <1>1. Len(index) \in Nat
    BY ArchiveTypes DEF IInv, TypeOK
  <1>2. TypeOK'
    BY <1>1 DEF IInv, TypeOK, index, Blocks, writing
  <1>3. ReadInv'
    BY <1>1 DEF IInv, TypeOK, ReadInv, index, Blocks, Reads, GoodBlock
  <1> QED
    BY <1>2, <1>3, DecodingStep DEF IInv, Decoding

\* A good block is stored in its own slot.
LEMMA StoreInv ==
    ASSUME IInv, NEW read \in Nat, next \in Blocks, NEW loop, Store(next, read, loop),
           GoodBlock(index[next]),
           \/ pc = "assemble" /\ loop = "assemble"
           \/ pc = "decoded" /\ loop = "read"
    PROVE  IInv'
  <1>1. CASE Raise("limit")
    BY <1>1, RaiseInv
  <1>2. CASE /\ total_compressed_read' = read
             /\ total_decompressed' = total_decompressed + index[next].size
             /\ decompressed_blocks' = [decompressed_blocks EXCEPT ![next] = next]
             /\ next' = next + 1
             /\ pc' = loop
             /\ UNCHANGED <<archive, mode, err, results, writing>>
    <2> USE <1>2
    <2>1. Len(index) \in Nat /\ index[next] \in BlockRecord
      BY ArchiveTypes DEF IInv, TypeOK
    <2>2. /\ next + 1 \in 1 .. Len(index) + 1
          /\ total_decompressed + index[next].size \in Nat
      BY Counters DEF IInv
    <2>3. index' = index /\ Blocks' = Blocks
      BY DEF index, Blocks
    <2>4. decompressed_blocks' \in [Blocks -> Blocks \cup {NoBlock}]
      BY DEF IInv, TypeOK
    <2>5. TypeOK'
      BY <2>2, <2>3, <2>4 DEF IInv, TypeOK, writing
    <2>6. \A i \in Blocks : i < next + 1 =>
             GoodBlock(index[i]) /\ decompressed_blocks'[i] = i
      BY <2>1 DEF IInv, TypeOK, ReadInv, Blocks
    <2>7. ReadInv'
      BY <2>3, <2>6 DEF IInv, ReadInv, Reads, GoodBlock
    <2> QED
      BY <2>5, <2>7, DecodingStep DEF IInv, Decoding
  <1> QED
    BY <1>1, <1>2 DEF Store

\* The result at position i is that of block i, so the sequential loop over the
\* results fills slot i with block i.
LEMMA AssembleBlockInv == IInv /\ AssembleBlock => IInv'
  <1> SUFFICES ASSUME IInv, AssembleBlock PROVE IInv'
    OBVIOUS
  <1>1. CASE Raise("block")
    BY <1>1, RaiseInv
  <1>2. CASE /\ results[next] # Failed
             /\ Store(results[next], total_compressed_read, "assemble")
    <2>1. results[next] = next /\ GoodBlock(index[next])
      BY <1>2 DEF AssembleBlock, IInv, ReadInv, GoodBlock
    <2> QED
      BY <1>2, <2>1, StoreInv DEF AssembleBlock, IInv, TypeOK
  <1> QED
    BY <1>1, <1>2 DEF AssembleBlock

\* A block that reads and decodes is held in the local of its loop.
LEMMA DecodeInv ==
    ASSUME IInv, pc = "read", mode # "parallel", next \in Blocks,
           NEW read \in Nat, Decode(read)
    PROVE  IInv'
  <1>1. CASE Raise("block")
    BY <1>1, RaiseInv
  <1>2. CASE /\ GoodBlock(index[next])
             /\ pc' = "decoded"
             /\ total_compressed_read' = read
             /\ UNCHANGED <<archive, mode, err, next, total_decompressed, results,
                            decompressed_blocks, writing>>
    <2> USE <1>2
    <2>1. index' = index /\ Blocks' = Blocks
      BY DEF index, Blocks
    <2>2. TypeOK'
      BY <2>1 DEF IInv, TypeOK, writing
    <2>3. ReadInv'
      BY <2>1 DEF IInv, ReadInv, Reads, GoodBlock
    <2> QED
      BY <2>2, <2>3, DecodingStep DEF IInv, Decoding
  <1> QED
    BY <1>1, <1>2 DEF Decode, GoodBlock

\* The decoding half of one turn of the sequential and of the streaming loop.
LEMMA DecompressBlockInv == IInv /\ (DecompressBlock \/ DecompressBlockStreaming) => IInv'
  <1> SUFFICES ASSUME IInv, DecompressBlock \/ DecompressBlockStreaming PROVE IInv'
    OBVIOUS
  <1>1. pc = "read" /\ mode # "parallel" /\ next \in Blocks
    BY DEF DecompressBlock, DecompressBlockStreaming
  <1>2. /\ total_compressed_read + index[next].claimed \in Nat
        /\ total_compressed_read \in Nat
    BY <1>1, Counters DEF IInv, TypeOK
  <1>3. Raise("limit") \/ \E read \in Nat : Decode(read)
    BY <1>2 DEF DecompressBlock, DecompressBlockStreaming
  <1> QED
    BY <1>1, <1>3, RaiseInv, DecodeInv

\* The other half: the block is compared with the limits and stored.
LEMMA KeepBlockInv == IInv /\ (KeepBlock \/ KeepBlockStreaming) => IInv'
  <1> SUFFICES ASSUME IInv, KeepBlock \/ KeepBlockStreaming PROVE IInv'
    OBVIOUS
  <1>1. pc = "decoded" /\ next \in Blocks /\ GoodBlock(index[next])
    BY DEF KeepBlock, KeepBlockStreaming, IInv, ReadInv
  <1>2. /\ total_compressed_read \in Nat
        /\ total_compressed_read + index[next].stored \in Nat
    BY <1>1, Counters DEF IInv, TypeOK
  <1>3. Raise("limit") \/ \E read \in Nat : Store(next, read, "read")
    BY <1>2 DEF KeepBlock, KeepBlockStreaming
  <1> QED
    BY <1>1, <1>3, RaiseInv, StoreInv

------------------------------------------------------------------------------
(* The reference counts.                                                   *)

\* Finite sets of files have cardinalities in Nat, zero exactly when empty.
LEMMA FilesFinite ==
    ASSUME archive \in Archives, NEW S \in SUBSET Files
    PROVE  /\ IsFiniteSet(S)
           /\ Cardinality(S) \in Nat
           /\ Cardinality(S) = 0 <=> S = {}
  <1>1. IsFiniteSet(Files)
    BY ArchiveTypes, FS_Interval DEF Files
  <1>2. IsFiniteSet(S)
    BY <1>1, FS_Subset
  <1> QED
    BY <1>2, FS_CardinalityType, FS_EmptySet

\* When the last block is stored, every block waits for all files that name it.
LEMMA StartFilesInv == IInv /\ StartFiles => IInv'
  <1> SUFFICES ASSUME IInv, StartFiles PROVE IInv'
    OBVIOUS
  <1> USE DEF StartFiles
  <1>0. archive \in Archives
    BY DEF IInv, TypeOK
  <1>1. index' = index /\ Blocks' = Blocks /\ Files' = Files
    BY DEF index, Blocks, Files
  <1>2. \A i \in Blocks : GoodBlock(index[i]) /\ decompressed_blocks[i] = i
    <2>1. Len(index) \in Nat
      BY <1>0, ArchiveTypes
    <2>2. next \in 1 .. Len(index) + 1
      BY DEF IInv, TypeOK
    <2>3. \A i \in Blocks : i < next
      BY <2>1, <2>2 DEF BlocksDone, Blocks
    <2> QED
      BY <2>3 DEF IInv, ReadInv, BlocksDone
  <1>3. file = 1 /\ chunk = 0 /\ combined = << >> /\ written = << >>
    BY DEF IInv, FileInv, Decoding, BlocksDone
  <1>4. \A i \in Blocks : {f \in Files : i \in BlocksOf(f)} \in SUBSET Files
    OBVIOUS
  <1>5. block_ref_counts \in [Blocks -> Nat]
    BY <1>0, <1>4, FilesFinite DEF block_ref_counts
  <1>6. TypeOK'
    BY <1>1, <1>5 DEF IInv, TypeOK, reading
  <1>7. ReadInv'
    BY <1>1 DEF IInv, ReadInv, reading
  <1>8. FileInv'
    BY <1>1, <1>2, <1>3 DEF FileInv, Decoding, GoodBlock, Reads
  <1>9. ASSUME NEW i \in Blocks
        PROVE  Waiting(i)' = {f \in Files : i \in BlocksOf(f)}
    <2>1. \A f \in Files : BlocksOf(f)' = BlocksOf(f) /\ Start(f)' = Start(f)
      BY <1>1 DEF BlocksOf, Start, Count
    <2>2. \A f \in Files : f >= 1 /\ (i \in BlocksOf(f) => i > Start(f) + 0)
      BY <1>0, ArchiveTypes DEF Files, BlocksOf, Blocks
    <2> QED
      BY <1>1, <1>3, <2>1, <2>2 DEF Waiting
  <1>10. RefCountsExact'
    <2> SUFFICES ASSUME NEW i \in Blocks
                 PROVE  /\ ref_counts'[i] = Cardinality(Waiting(i)')
                        /\ ref_counts'[i] > 0 => decompressed_blocks'[i] = i
                        /\ ref_counts'[i] = 0 => ~ \E f \in Files : (i \in BlocksOf(f))'
      BY <1>1 DEF RefCountsExact
    <2>1. ref_counts'[i] = Cardinality(Waiting(i)')
      BY <1>9 DEF block_ref_counts
    <2>2. decompressed_blocks'[i] = i
      BY <1>2 DEF reading
    <2>3. ref_counts'[i] = 0 => {f \in Files : i \in BlocksOf(f)} = {}
      BY <1>0, <1>4, <1>9, <2>1, FilesFinite
    <2>4. \A f \in Files : BlocksOf(f)' = BlocksOf(f)
      BY <1>1 DEF BlocksOf, Start, Count
    <2> QED
      BY <2>1, <2>2, <2>3, <2>4
  <1> QED
    BY <1>6, <1>7, <1>8, <1>10 DEF IInv, NoMissingBlock

\* file_block_range lets a file begin only if its range is in the block array.
LEMMA BeginFileInv == IInv /\ BeginFile => IInv'
  <1> SUFFICES ASSUME IInv, BeginFile PROVE IInv'
    OBVIOUS
  <1>1. CASE Raise("range")
    BY <1>1, RaiseInv
  <1>2. CASE /\ ~(Count(file) > 0 /\ Start(file) + Count(file) > Len(index))
             /\ pc' = "take"
             /\ UNCHANGED <<archive, mode, err, reading, writing>>
    <2> USE <1>2 DEF BeginFile
    <2>1. index' = index /\ Blocks' = Blocks /\ Files' = Files
      BY DEF index, Blocks, Files
    <2>2. /\ Len(index) \in Nat
          /\ Start(file) \in Nat /\ Count(file) \in Nat
      BY ArchiveTypes DEF IInv, TypeOK
    <2>3. TypeOK'
      BY <2>1 DEF IInv, TypeOK, reading, writing
    <2>4. ReadInv'
      BY <2>1 DEF IInv, ReadInv, reading
    <2>5. chunk = 0 /\ combined = << >>
      BY DEF IInv, FileInv
    <2>6. Start(file)' = Start(file) /\ Count(file)' = Count(file)
      BY DEF Start, Count, writing
    <2>7. FileInv'
      BY <2>1, <2>2, <2>5, <2>6 DEF IInv, FileInv, Decoding, writing, GoodBlock, Reads
    <2>8. RefCountsExact'
      BY <2>1 DEF IInv, RefCountsExact, Waiting, BlocksOf, Start, Count, reading, writing
    <2> QED
      BY <2>3, <2>4, <2>7, <2>8 DEF IInv, NoMissingBlock
  <1> QED
    BY <1>1, <1>2 DEF BeginFile

\* The block TakeBlock is about to use is in its slot.
LEMMA BlockPresent ==
    ASSUME IInv, pc = "take", chunk < Count(file)
    PROVE  LET i == Start(file) + chunk + 1
           IN  /\ i \in Blocks
               /\ file \in Waiting(i)
               /\ ref_counts[i] > 0
               /\ decompressed_blocks[i] = i
  <1> DEFINE i == Start(file) + chunk + 1
  <1>1. archive \in Archives /\ chunk \in Nat
    BY DEF IInv, TypeOK
  <1>2. file \in Files
    BY DEF IInv, FileInv
  <1>3. Start(file) \in Nat /\ Count(file) \in Nat /\ Len(index) \in Nat
    BY <1>1, <1>2, ArchiveTypes
  <1>4. Start(file) + Count(file) <= Len(index)
    BY <1>1, <1>3 DEF IInv, FileInv
  <1>5. i \in Blocks
    BY <1>1, <1>3, <1>4 DEF Blocks
  <1>6. i \in BlocksOf(file)
    BY <1>1, <1>3, <1>5 DEF BlocksOf
  <1>7. file \in Waiting(i)
    BY <1>1, <1>2, <1>3, <1>6 DEF Waiting, Files
  <1>8. Waiting(i) \in SUBSET Files
    BY DEF Waiting
  <1>9. ref_counts[i] = Cardinality(Waiting(i)) /\ (ref_counts[i] > 0 => decompressed_blocks[i] = i)
    BY <1>5 DEF IInv, RefCountsExact
  <1>10. ref_counts[i] > 0
    BY <1>1, <1>7, <1>8, <1>9, FilesFinite
  <1> QED
    BY <1>5, <1>7, <1>9, <1>10

\* Taking a block uses up exactly one of its references.
LEMMA TakeBlockInv == IInv /\ TakeBlock => IInv'
  <1> SUFFICES ASSUME IInv, TakeBlock PROVE IInv'
    OBVIOUS
  <1> DEFINE i == Start(file) + chunk + 1
  <1>0. archive \in Archives /\ chunk \in Nat /\ file \in Files
    BY DEF IInv, TypeOK, FileInv, TakeBlock
  <1>1. /\ i \in Blocks
        /\ file \in Waiting(i)
        /\ ref_counts[i] > 0
        /\ decompressed_blocks[i] = i
    BY BlockPresent DEF TakeBlock
  <1>2. i # NoBlock
    BY <1>1 DEF Blocks, NoBlock
  <1>3. /\ combined' = Append(combined, i)
        /\ ref_counts' = [ref_counts EXCEPT ![i] = IF @ = 0 THEN 0 ELSE @ - 1]
        /\ decompressed_blocks' = IF ref_counts[i] <= 1
                                  THEN [decompressed_blocks EXCEPT ![i] = NoBlock]
                                  ELSE decompressed_blocks
        /\ chunk' = chunk + 1
        /\ UNCHANGED <<archive, mode, pc, err, next, total_compressed_read,
                       total_decompressed, results, file, written>>
    BY <1>1, <1>2 DEF TakeBlock, LastReference
  <1>4. index' = index /\ Blocks' = Blocks /\ Files' = Files
    BY <1>3 DEF index, Blocks, Files
  <1>5. /\ \A f \in Files : BlocksOf(f)' = BlocksOf(f) /\ Start(f)' = Start(f)
        /\ Start(file)' = Start(file) /\ Count(file)' = Count(file)
    BY <1>3, <1>4 DEF BlocksOf, Start, Count
  <1>6. Start(file) \in Nat /\ Count(file) \in Nat
    BY <1>0, ArchiveTypes
  <1>7. TypeOK'
    <2>1. combined' \in Seq(Blocks)
      BY <1>1, <1>3 DEF IInv, TypeOK
    <2>2. decompressed_blocks' \in [Blocks -> Blocks \cup {NoBlock}]
      BY <1>3 DEF IInv, TypeOK
    <2>3. ref_counts' \in [Blocks -> Nat]
      BY <1>1, <1>3 DEF IInv, TypeOK
    <2>4. chunk' \in Nat
      BY <1>0, <1>3
    <2> QED
      BY <1>3, <1>4, <2>1, <2>2, <2>3, <2>4 DEF IInv, TypeOK
  <1>8. ReadInv'
    BY <1>3, <1>4 DEF IInv, ReadInv, TakeBlock
  <1>9. FileInv'
    <2>1. chunk + 1 <= Count(file)
      BY <1>0, <1>6 DEF TakeBlock
    <2>2. combined = [k \in 1 .. chunk |-> Start(file) + k]
      BY DEF IInv, FileInv, TakeBlock
    <2>3. Append(combined, i) = [k \in 1 .. chunk + 1 |-> Start(file) + k]
      BY <1>0, <1>6, <2>2
    <2> QED
      BY <1>0, <1>3, <1>4, <1>5, <2>1, <2>3 DEF IInv, FileInv, Decoding, TakeBlock, GoodBlock, Reads
  <1>10. RefCountsExact'
    <2> SUFFICES ASSUME NEW j \in Blocks
                 PROVE  /\ ref_counts'[j] = Cardinality(Waiting(j)')
                        /\ ref_counts'[j] > 0 => decompressed_blocks'[j] = j
                        /\ (ref_counts'[j] = 0 /\ \E f \in Files : (j \in BlocksOf(f))')
                              => decompressed_blocks'[j] = NoBlock
      BY <1>4 DEF RefCountsExact
    <2>0. /\ ref_counts \in [Blocks -> Nat]
          /\ decompressed_blocks \in [Blocks -> Blocks \cup {NoBlock}]
      BY DEF IInv, TypeOK
    <2>1. /\ ref_counts[j] = Cardinality(Waiting(j))
          /\ ref_counts[j] > 0 => decompressed_blocks[j] = j
          /\ (ref_counts[j] = 0 /\ \E f \in Files : j \in BlocksOf(f))
                => decompressed_blocks[j] = NoBlock
      BY DEF IInv, RefCountsExact, TakeBlock
    <2>2. CASE j = i
      <3>1. Waiting(j)' = Waiting(j) \ {file}
        <4>1. ~(j > Start(file) + (chunk + 1))
          BY <1>0, <1>6, <2>2
        <4> QED
          BY <1>3, <1>4, <1>5, <4>1 DEF Waiting
      <3>2. Waiting(j) \in SUBSET Files
        BY DEF Waiting
      <3>3. Cardinality(Waiting(j)') = Cardinality(Waiting(j)) - 1
        BY <1>0, <1>1, <2>2, <3>1, <3>2, FilesFinite, FS_RemoveElement
      <3>4. ref_counts'[j] = ref_counts[j] - 1
        BY <1>1, <1>3, <2>0, <2>2
      <3>5. ref_counts[j] \in Nat
        BY <2>0
      <3>6. CASE ref_counts[j] <= 1
        <4>1. decompressed_blocks'[j] = NoBlock
          BY <1>3, <2>0, <2>2, <3>6
        <4> QED
          BY <2>1, <3>3, <3>4, <3>5, <3>6, <4>1
      <3>7. CASE ref_counts[j] > 1
        <4>1. decompressed_blocks'[j] = j
          BY <1>1, <1>3, <2>2, <3>5, <3>7
        <4> QED
          BY <2>1, <3>3, <3>4, <3>5, <3>7, <4>1
      <3>8. ref_counts[j] <= 1 \/ ref_counts[j] > 1
        BY <3>5
      <3> QED
        BY <3>6, <3>7, <3>8, Zenon
    <2>3. CASE j # i
      <3>1. Waiting(j)' = Waiting(j)
        <4>1. j > Start(file) + (chunk + 1) <=> j > Start(file) + chunk
          BY <1>0, <1>6, <2>3 DEF Blocks
        <4> QED
          BY <1>3, <1>4, <1>5, <4>1 DEF Waiting
      <3>2. ref_counts'[j] = ref_counts[j] /\ decompressed_blocks'[j] = decompressed_blocks[j]
        BY <1>3, <2>0, <2>3
      <3> QED
        BY <1>5, <2>1, <3>1, <3>2
    <2> QED
      BY <2>2, <2>3
  <1> QED
    BY <1>3, <1>7, <1>8, <1>9, <1>10 DEF IInv, NoMissingBlock

\* A file that was given its last block waits for none, and the next file for
\* all of its own.
LEMMA WriteFileInv == IInv /\ WriteFile => IInv'
  <1> SUFFICES ASSUME IInv, WriteFile PROVE IInv'
    OBVIOUS
  <1>1. CASE Raise("hash") \/ Raise("write")
    BY <1>1, RaiseInv
  <1>2. CASE /\ written' = Append(written, truncate_to_file_size(combined, file))
             /\ file' = file + 1
             /\ chunk' = 0
             /\ combined' = << >>
             /\ pc' = "file"
             /\ UNCHANGED <<archive, mode, err, reading, ref_counts>>
    <2>0. archive \in Archives /\ file \in Files /\ chunk = Count(file)
      BY DEF IInv, TypeOK, FileInv, WriteFile
    <2>1. index' = index /\ Blocks' = Blocks /\ Files' = Files
      BY <1>2 DEF index, Blocks, Files
    <2>2. Start(file) \in Nat /\ Count(file) \in Nat /\ Len(archive.files) \in Nat
      BY <2>0, ArchiveTypes
    <2>3. truncate_to_file_size(combined, file) \in Seq(Blocks)
      <3>1. combined \in Seq(Blocks)
        BY DEF IInv, TypeOK
      <3>2. archive.files[file].original_size \in Nat
        BY <2>0, ArchiveTypes DEF FileRecord
      <3> QED
        BY <3>1, <3>2 DEF truncate_to_file_size
    <2>4. /\ file + 1 \in 1 .. Len(archive.files) + 1
          /\ Append(written, truncate_to_file_size(combined, file)) \in Seq(Seq(Blocks))
          /\ Len(Append(written, truncate_to_file_size(combined, file))) = file
      <3>1. written \in Seq(Seq(Blocks)) /\ Len(written) = file - 1
        BY DEF IInv, TypeOK, FileInv, WriteFile
      <3>2. file + 1 \in 1 .. Len(archive.files) + 1
        BY <2>0, <2>2 DEF Files
      <3>3. Append(written, truncate_to_file_size(combined, file)) \in Seq(Seq(Blocks))
        BY <2>3, <3>1
      <3>4. Len(Append(written, truncate_to_file_size(combined, file))) = file
        BY <2>0, <2>2, <2>3, <3>1 DEF Files
      <3> QED
        BY <3>2, <3>3, <3>4, Zenon
    <2>5. TypeOK'
      <3>1. written' \in Seq(Seq(Blocks)) /\ file' \in 1 .. Len(archive.files) + 1
        BY <1>2, <2>4, Zenon
      <3>2. combined' \in Seq(Blocks) /\ chunk' \in Nat
        BY <1>2
      <3> QED
        BY <1>2, <2>1, <3>1, <3>2 DEF IInv, TypeOK, reading
    <2>6. ReadInv'
      BY <1>2, <2>1 DEF IInv, ReadInv, reading
    <2>7. FileInv'
      <3>1. \A i \in Blocks : GoodBlock(index[i])
        BY DEF IInv, FileInv, WriteFile
      <3>2. Len(written') = file' - 1
        BY <1>2, <2>0, <2>2, <2>4 DEF Files
      <3> QED
        BY <1>2, <2>1, <3>1, <3>2 DEF FileInv, Decoding, GoodBlock, Reads
    <2>8. \A f \in Files : BlocksOf(f)' = BlocksOf(f) /\ Start(f)' = Start(f)
      BY <1>2, <2>1 DEF BlocksOf, Start, Count
    <2>9. ASSUME NEW i \in Blocks
          PROVE  Waiting(i)' = Waiting(i)
      <3>1. \A f \in Files : i \in BlocksOf(f) => i > Start(f) + 0
        BY <2>0, ArchiveTypes DEF BlocksOf, Blocks
      <3>2. i \in BlocksOf(file) => ~(i > Start(file) + chunk)
        BY <2>0, <2>2 DEF BlocksOf, Blocks
      <3>3. \A f \in Files : f >= file + 1 <=> f >= file /\ f # file
        BY <2>0, <2>2 DEF Files
      <3> QED
        BY <1>2, <2>1, <2>8, <3>1, <3>2, <3>3 DEF Waiting
    <2>10. RefCountsExact'
      BY <1>2, <2>1, <2>8, <2>9 DEF IInv, RefCountsExact, WriteFile, reading
    <2> QED
      BY <1>2, <2>5, <2>6, <2>7, <2>10 DEF IInv, NoMissingBlock
  <1> QED
    BY <1>1, <1>2 DEF WriteFile

\* The loop over the files ends after the last file.
LEMMA FinishInv == IInv /\ Finish => IInv'
  <1> SUFFICES ASSUME IInv, Finish PROVE IInv'
    OBVIOUS
  <1> USE DEF Finish, reading, writing
  <1>1. index' = index /\ Blocks' = Blocks /\ Files' = Files
    BY DEF index, Blocks, Files
  <1>2. TypeOK'
    BY <1>1 DEF IInv, TypeOK
  <1>3. ReadInv'
    BY <1>1 DEF IInv, ReadInv
  <1>4. FileInv'
    BY <1>1 DEF IInv, FileInv, Decoding, GoodBlock, Reads
  <1> QED
    BY <1>2, <1>3, <1>4 DEF IInv, RefCountsExact, NoMissingBlock

\* Steps outside extract_all leave the invariant alone.
LEMMA StutterInv == IInv /\ UNCHANGED vars => IInv'
  <1> SUFFICES ASSUME IInv, UNCHANGED vars PROVE IInv'
    OBVIOUS
  <1> USE DEF vars, reading, writing
  <1>1. index' = index /\ Blocks' = Blocks /\ Files' = Files
    BY DEF index, Blocks, Files
  <1>2. TypeOK'
    BY <1>1 DEF IInv, TypeOK
  <1>3. ReadInv'
    BY <1>1 DEF IInv, ReadInv, GoodBlock, Reads
  <1>4. FileInv'
    BY <1>1 DEF IInv, FileInv, Decoding, GoodBlock, Reads, Start, Count
  <1>5. RefCountsExact'
    BY <1>1 DEF IInv, RefCountsExact, Waiting, BlocksOf, Start, Count
  <1> QED
    BY <1>2, <1>3, <1>4, <1>5 DEF IInv, NoMissingBlock

\* Every step of extract_all, on each of its three read paths, keeps the invariant.
LEMMA NextInv == IInv /\ [Next]_vars => IInv'
  <1> SUFFICES ASSUME IInv, [Next]_vars PROVE IInv'
    OBVIOUS
  <1>1. CASE ReadBlock
    BY <1>1, ReadBlockInv
  <1>2. CASE StartDecode
    BY <1>2, StartDecodeInv
  <1>3. CASE \E i \in Blocks : DecodeBlock(i)
    BY <1>3, DecodeBlockInv
  <1>4. CASE Collect
    BY <1>4, CollectInv
  <1>5. CASE AssembleBlock
    BY <1>5, AssembleBlockInv
  <1>6. CASE DecompressBlock \/ DecompressBlockStreaming
    BY <1>6, DecompressBlockInv
  <1>7. CASE StartFiles
    BY <1>7, StartFilesInv
  <1>8. CASE BeginFile
    BY <1>8, BeginFileInv
  <1>9. CASE TakeBlock
    BY <1>9, TakeBlockInv
  <1>10. CASE WriteFile
    BY <1>10, WriteFileInv
  <1>11. CASE Finish
    BY <1>11, FinishInv
  <1>12. CASE UNCHANGED vars
    BY <1>12, StutterInv
  <1>13. CASE KeepBlock \/ KeepBlockStreaming
    BY <1>13, KeepBlockInv
  <1> QED
    BY <1>1, <1>2, <1>3, <1>4, <1>5, <1>6, <1>7, <1>8, <1>9, <1>10, <1>11, <1>12, <1>13 DEF Next

------------------------------------------------------------------------------

\* The inductive invariant of extract_all, the loop over the blocks and the loop
\* over the files together, for every archive and every limit.
THEOREM Invariance == Spec => []IInv
  BY InitInv, NextInv, PTL DEF Spec

\* The loops of extract_all and reassemble_file_shared stay within the tables
\* they index, for every archive read_metadata may return.
THEOREM TypeCorrect == Spec => []TypeOK
  BY Invariance, PTL DEF IInv

\* The reference counts that decide between moving and copying a block are
\* exact, however the files of the archive share, repeat or overlap ranges.
THEOREM RefCountsCorrect == Spec => []RefCountsExact
  BY Invariance, PTL DEF IInv

\* No file ever finds that one of its blocks was already released.
THEOREM NoBlockMissing == Spec => []NoMissingBlock
  BY Invariance, PTL DEF IInv

------------------------------------------------------------------------------
(* Extraction implements ExtractionSpec.                                   *)

\* What has been joined when the last block was taken is the content the
\* entry of the file stands for.
LEMMA JoinedIsContent ==
    ASSUME IInv, pc = "take", chunk = Count(file)
    PROVE  truncate_to_file_size(combined, file) = Promise!Content(archive.files[file])
  <1> DEFINE e == archive.files[file]
  <1>1. archive \in Archives /\ file \in Files
    BY DEF IInv, TypeOK, FileInv
  <1>2. e \in FileRecord
    BY <1>1, ArchiveTypes
  <1>3. e.chunk_start_idx \in Nat /\ e.chunk_count \in Nat /\ e.original_size \in Nat
    BY <1>2 DEF FileRecord
  <1>4. combined = [k \in 1 .. e.chunk_count |-> e.chunk_start_idx + k]
    BY DEF IInv, FileInv, Start, Count
  <1>5. Len(combined) = e.chunk_count
    BY <1>3, <1>4
  <1>6. CASE e.chunk_count > e.original_size
    <2>1. truncate_to_file_size(combined, file) = SubSeq(combined, 1, e.original_size)
      BY <1>5, <1>6 DEF truncate_to_file_size
    <2>2. SubSeq(combined, 1, e.original_size) =
            [k \in 1 .. e.original_size |-> e.chunk_start_idx + k]
      BY <1>3, <1>4, <1>5, <1>6
    <2> QED
      BY <1>6, <2>1, <2>2 DEF Promise!Content
  <1>7. CASE ~(e.chunk_count > e.original_size)
    BY <1>4, <1>5, <1>7 DEF truncate_to_file_size, Promise!Content
  <1> QED
    BY <1>6, <1>7

\* The next file of the promise is the file the loop is at.
LEMMA SameFile ==
    ASSUME IInv, pc \in {"file", "take"}, file \in Files
    PROVE  /\ Promise!NextFile = archive.files[file]
           /\ Len(written) < Len(archive.files)
           /\ Promise!AllBlocksGood
  <1>1. Len(written) = file - 1 /\ \A i \in Blocks : GoodBlock(index[i])
    BY DEF IInv, FileInv
  <1>2. Len(archive.files) \in Nat
    BY ArchiveTypes DEF IInv, TypeOK
  <1>3. Len(written) < Len(archive.files) /\ Len(written) + 1 = file
    BY <1>1, <1>2 DEF Files
  <1>4. Promise!NextFile = archive.files[file]
    BY <1>3 DEF Promise!NextFile
  <1>5. Promise!AllBlocksGood
    BY <1>1 DEF Promise!AllBlocksGood, Promise!GoodBlock, GoodBlock, Reads, Blocks, index
  <1> QED
    BY <1>3, <1>4, <1>5

\* A step that keeps the call running and writes nothing is a stutter.
LEMMA Silent ==
    ASSUME pc \notin {"done", "error"}, pc' \notin {"done", "error"},
           UNCHANGED <<archive, written>>
    PROVE  UNCHANGED Promise!vars
  BY DEF Promise!vars, status

\* A resource limit is met before the first file.
LEMMA LimitStep ==
    ASSUME IInv, Decoding, Raise("limit")
    PROVE  Promise!OverLimit
  BY DEF IInv, FileInv, Decoding, Raise, writing, status, Promise!OverLimit

\* A block error is raised for a block that is bad, before the first file.
LEMMA BadBlockStep ==
    ASSUME IInv, Decoding, Raise("block"), NEW i \in Blocks, ~GoodBlock(index[i])
    PROVE  Promise!Fail
  <1>1. ~Promise!AllBlocksGood
    BY DEF Promise!AllBlocksGood, Promise!GoodBlock, GoodBlock, Reads, Blocks, index
  <1> QED
    BY <1>1 DEF IInv, FileInv, Decoding, Raise, writing, status, Promise!Fail

\* A file error is raised for a file that is not extractable.
LEMMA BadFileStep ==
    ASSUME IInv, pc \in {"file", "take"}, file \in Files,
           NEW r, Raise(r), ~Promise!Extractable(archive.files[file])
    PROVE  Promise!Fail
  BY SameFile DEF Raise, writing, status, Promise!Fail

\* Storing a decoded block is silent, or fails on the cumulative limit.
LEMMA StoreStep ==
    ASSUME IInv, Decoding, NEW i, NEW read, NEW loop \in {"read", "assemble"},
           Store(i, read, loop)
    PROVE  [Promise!Next]_(Promise!vars)
  <1>1. CASE Raise("limit")
    BY <1>1, LimitStep DEF Promise!Next
  <1>2. CASE pc' = loop /\ UNCHANGED <<archive, writing>>
    BY <1>2, Silent DEF Decoding, writing
  <1> QED
    BY <1>1, <1>2 DEF Store

\* Every step of the loop over the blocks is silent or fails for a cause.
LEMMA BlockStep ==
    ASSUME IInv, \/ ReadBlock \/ StartDecode \/ (\E i \in Blocks : DecodeBlock(i))
                 \/ Collect \/ AssembleBlock \/ DecompressBlock \/ KeepBlock
                 \/ DecompressBlockStreaming \/ KeepBlockStreaming \/ StartFiles
    PROVE  [Promise!Next]_(Promise!vars)
  <1>1. CASE ReadBlock
    <2>1. CASE Raise("block") /\ ~Reads(index[next])
      BY <1>1, <2>1, BadBlockStep DEF ReadBlock, Decoding, GoodBlock, Promise!Next
    <2>2. CASE Raise("limit")
      BY <1>1, <2>2, LimitStep DEF ReadBlock, Decoding, Promise!Next
    <2>3. CASE UNCHANGED <<archive, pc, writing>>
      BY <1>1, <2>3, Silent DEF ReadBlock, writing
    <2> QED
      BY <1>1, <2>1, <2>2, <2>3 DEF ReadBlock
  <1>2. CASE StartDecode
    <2>1. CASE Raise("limit")
      BY <1>2, <2>1, LimitStep DEF StartDecode, Decoding, Promise!Next
    <2>2. CASE pc' = "decode" /\ UNCHANGED <<archive, writing>>
      BY <1>2, <2>2, Silent DEF StartDecode, writing
    <2> QED
      BY <1>2, <2>1, <2>2 DEF StartDecode
  <1>3. CASE (\E i \in Blocks : DecodeBlock(i)) \/ Collect \/ StartFiles
    <2>1. /\ pc \notin {"done", "error"} /\ pc' \notin {"done", "error"}
          /\ UNCHANGED <<archive, written>>
      BY <1>3 DEF DecodeBlock, Collect, StartFiles, BlocksDone, writing
    <2> QED
      BY <2>1, Silent
  <1>4. CASE AssembleBlock
    <2>1. CASE Raise("block") /\ results[next] = Failed
      <3>1. next \in Blocks /\ ~index[next].decodes
        BY <1>4, <2>1 DEF AssembleBlock, IInv, ReadInv, Pending, Failed, Blocks
      <3> QED
        BY <1>4, <2>1, <3>1, BadBlockStep DEF AssembleBlock, Decoding, GoodBlock, Promise!Next
    <2>2. CASE Store(results[next], total_compressed_read, "assemble")
      BY <1>4, <2>2, StoreStep DEF AssembleBlock, Decoding
    <2> QED
      BY <1>4, <2>1, <2>2 DEF AssembleBlock
  <1>5. CASE DecompressBlock \/ DecompressBlockStreaming
    <2>0. next \in Blocks /\ Decoding
      BY <1>5 DEF DecompressBlock, DecompressBlockStreaming, Decoding
    <2>1. CASE Raise("block") /\ ~GoodBlock(index[next])
      BY <2>0, <2>1, BadBlockStep DEF Promise!Next
    <2>2. CASE Raise("limit")
      BY <2>0, <2>2, LimitStep DEF Promise!Next
    <2>3. CASE pc' = "decoded" /\ UNCHANGED <<archive, writing>>
      BY <2>0, <2>3, Silent DEF Decoding, writing
    <2> QED
      BY <1>5, <2>1, <2>2, <2>3
      DEF DecompressBlock, DecompressBlockStreaming, Decode, GoodBlock
  <1>6. CASE KeepBlock \/ KeepBlockStreaming
    <2>0. Decoding
      BY <1>6 DEF KeepBlock, KeepBlockStreaming, Decoding
    <2>1. CASE Raise("limit")
      BY <2>0, <2>1, LimitStep DEF Promise!Next
    <2>2. CASE \E read : Store(next, read, "read")
      BY <2>0, <2>2, StoreStep
    <2> QED
      BY <1>6, <2>1, <2>2 DEF KeepBlock, KeepBlockStreaming
  <1> QED
    BY <1>1, <1>2, <1>3, <1>4, <1>5, <1>6

\* Every step of the loop over the files is silent, writes the next file, or
\* fails for a cause.
LEMMA FileStep ==
    ASSUME IInv, BeginFile \/ TakeBlock \/ WriteFile \/ Finish
    PROVE  [Promise!Next]_(Promise!vars)
  <1>0. archive \in Archives
    BY DEF IInv, TypeOK
  <1>1. CASE BeginFile
    <2>1. CASE Raise("range") /\ Count(file) > 0 /\ Start(file) + Count(file) > Len(index)
      <3>1. Start(file) \in Nat /\ Count(file) \in Nat /\ Len(index) \in Nat
        BY <1>0, <1>1, ArchiveTypes DEF BeginFile
      <3>2. ~Promise!Extractable(archive.files[file])
        BY <2>1, <3>1 DEF Promise!Extractable, Start, Count, index
      <3> QED
        BY <1>1, <2>1, <3>2, BadFileStep DEF BeginFile, Promise!Next
    <2>2. CASE pc' = "take" /\ UNCHANGED <<archive, writing>>
      BY <1>1, <2>2, Silent DEF BeginFile, writing
    <2> QED
      BY <1>1, <2>1, <2>2 DEF BeginFile
  <1>2. CASE TakeBlock
    <2>1. decompressed_blocks[Start(file) + chunk + 1] # NoBlock
      BY <1>2, BlockPresent DEF TakeBlock, Blocks, NoBlock
    <2>2. UNCHANGED <<archive, pc, written>>
      BY <1>2, <2>1 DEF TakeBlock
    <2> QED
      BY <1>2, <2>2, Silent DEF TakeBlock
  <1>3. CASE WriteFile
    <2>0. pc = "take" /\ file \in Files /\ chunk = Count(file)
      BY <1>3 DEF WriteFile, IInv, FileInv
    <2>1. truncate_to_file_size(combined, file) = Promise!Content(archive.files[file])
      BY <2>0, JoinedIsContent
    <2>2. CASE /\ Raise("hash")
               /\ truncate_to_file_size(combined, file) # archive.files[file].blake3_hash
      BY <2>0, <2>1, <2>2, BadFileStep DEF Promise!Extractable, Promise!Next
    <2>3. CASE Raise("write") /\ ~archive.files[file].writable
      BY <2>0, <2>3, BadFileStep DEF Promise!Extractable, Promise!Next
    <2>4. CASE /\ truncate_to_file_size(combined, file) = archive.files[file].blake3_hash
               /\ archive.files[file].writable
               /\ written' = Append(written, truncate_to_file_size(combined, file))
               /\ pc' = "file"
               /\ UNCHANGED archive
      <3>1. Promise!Extractable(archive.files[file])
        BY <2>0, <2>1, <2>4 DEF Promise!Extractable, IInv, FileInv, Start, Count, index
      <3>2. Promise!WriteFile
        BY <2>0, <2>1, <2>4, <3>1, SameFile DEF Promise!WriteFile, status
      <3> QED
        BY <3>2 DEF Promise!Next
    <2> QED
      BY <1>3, <2>2, <2>3, <2>4 DEF WriteFile
  <1>4. CASE Finish
    <2>1. Len(archive.files) \in Nat /\ file \in 1 .. Len(archive.files) + 1
      BY <1>0, ArchiveTypes DEF IInv, TypeOK
    <2>2. file = Len(archive.files) + 1
      BY <1>4, <2>1 DEF Finish, Files
    <2>3. Len(written) = file - 1 /\ \A i \in Blocks : GoodBlock(index[i])
      BY <1>4 DEF Finish, IInv, FileInv
    <2>4. Promise!AllBlocksGood
      BY <2>3 DEF Promise!AllBlocksGood, Promise!GoodBlock, GoodBlock, Reads, Blocks, index
    <2>5. Len(written) = Len(archive.files)
      BY <2>1, <2>2, <2>3
    <2>6. Promise!Succeed
      BY <1>4, <2>4, <2>5 DEF Finish, Promise!Succeed, status, writing
    <2> QED
      BY <2>6 DEF Promise!Next
  <1> QED
    BY <1>1, <1>2, <1>3, <1>4

\* extract_all keeps its promise on every read path and for every schedule of
\* the decode tasks: it writes the files in order, each with exactly its own
\* blocks, and fails only for a cause in the archive.
THEOREM Refinement == Spec => ImplementsPromise
  <1>1. Init => Promise!Init
    BY DEF Init, Promise!Init, status
  <1>2. IInv /\ [Next]_vars => [Promise!Next]_(Promise!vars)
    <2> SUFFICES ASSUME IInv, [Next]_vars PROVE [Promise!Next]_(Promise!vars)
      OBVIOUS
    <2>1. CASE UNCHANGED vars
      BY <2>1 DEF vars, writing, Promise!vars, status
    <2>2. CASE Next
      BY <2>2, BlockStep, FileStep DEF Next
    <2> QED
      BY <2>1, <2>2
  <1> QED
    BY <1>1, <1>2, Invariance, PTL DEF Spec, ImplementsPromise, Promise!Spec

------------------------------------------------------------------------------
(* The limits.  Sums are folds over the blocks; what they satisfy is        *)
(* proved from their partial sums.                                          *)

\* S gives the sums of the first n weights.
PartialSums(S, w, n) ==
    /\ S \in [0 .. n -> Nat]
    /\ S[0] = 0
    /\ \A k \in 1 .. n : S[k] = S[k - 1] + w[k]

AddWeight(p, acc, x) == acc + x
Summed(p, w, n, acc) ==
    (\A i \in DOMAIN w : w[i] \in Nat) => \E S : PartialSums(S, w, n) /\ acc = S[n]

Adding == INSTANCE FoldInduction WITH Step <- AddWeight, Good <- Summed

\* A sum is the last of its partial sums.
LEMMA TotalIs ==
    ASSUME NEW N \in Nat, NEW w \in [1 .. N -> Nat]
    PROVE  \E S : PartialSums(S, w, N) /\ Total(w) = S[N]
  <1>1. Summed(0, w, 0, 0)
    <2> DEFINE S == [k \in 0 .. 0 |-> 0]
    <2>1. PartialSums(S, w, 0) /\ S[0] = 0
      BY DEF PartialSums
    <2> HIDE DEF S
    <2> QED BY <2>1 DEF Summed
  <1>2. ASSUME NEW n \in 1 .. N, NEW acc, Summed(0, w, n - 1, acc)
        PROVE  Summed(0, w, n, AddWeight(0, acc, w[n]))
    <2>1. PICK S : PartialSums(S, w, n - 1) /\ acc = S[n - 1]
      BY <1>2 DEF Summed
    <2>2. S \in [0 .. n - 1 -> Nat] /\ S[0] = 0 /\ \A k \in 1 .. n - 1 : S[k] = S[k - 1] + w[k]
      BY <2>1 DEF PartialSums
    <2> DEFINE R == [k \in 0 .. n |-> IF k = n THEN S[n - 1] + w[n] ELSE S[k]]
    <2>3. w[n] \in Nat /\ S[n - 1] \in Nat
      BY <2>2
    <2>4. R \in [0 .. n -> Nat] /\ R[0] = 0 /\ R[n] = S[n - 1] + w[n]
      BY <2>2, <2>3
    <2>5. \A k \in 1 .. n : R[k] = R[k - 1] + w[k]
      BY <2>2
    <2> HIDE DEF R
    <2>6. PartialSums(R, w, n)
      BY <2>4, <2>5 DEF PartialSums
    <2> QED BY <2>1, <2>4, <2>6 DEF Summed, AddWeight
  <1>3. DOMAIN w = 1 .. N
    OBVIOUS
  <1>4. Summed(0, w, N, Adding!Loop(0, 0, w))
    BY <1>1, <1>2, <1>3, Adding!LoopInvariant
  <1>5. Total(w) = Adding!Loop(0, 0, w)
    BY DEF Total, AddWeight, Adding!Loop, FoldLeft, MapThenFoldSet, Max,
           Adding!FoldLeft, Adding!MapThenFoldSet, Adding!Max
  <1> QED BY <1>4, <1>5 DEF Summed

\* A sum of natural numbers is one.
LEMMA TotalNat == ASSUME NEW N \in Nat, NEW w \in [1 .. N -> Nat] PROVE Total(w) \in Nat
  BY TotalIs DEF PartialSums

\* Smaller weights have a smaller sum.
LEMMA TotalMonotone ==
    ASSUME NEW N \in Nat, NEW w \in [1 .. N -> Nat], NEW v \in [1 .. N -> Nat],
           \A i \in 1 .. N : w[i] <= v[i]
    PROVE  Total(w) <= Total(v)
  <1>1. PICK S : PartialSums(S, w, N) /\ Total(w) = S[N]
    BY TotalIs
  <1>2. PICK R : PartialSums(R, v, N) /\ Total(v) = R[N]
    BY TotalIs
  <1>3. /\ S \in [0 .. N -> Nat] /\ S[0] = 0 /\ \A k \in 1 .. N : S[k] = S[k - 1] + w[k]
        /\ R \in [0 .. N -> Nat] /\ R[0] = 0 /\ \A k \in 1 .. N : R[k] = R[k - 1] + v[k]
    BY <1>1, <1>2 DEF PartialSums
  <1> DEFINE T == {n \in 0 .. N : ~(S[n] <= R[n])}
  <1>4. T = {}
    <2> SUFFICES ASSUME T # {} PROVE FALSE
      OBVIOUS
    <2>1. T \subseteq Nat
      OBVIOUS
    <2>2. PICK n \in T : \A m \in T : n <= m
      <3> HIDE DEF T
      <3> QED BY <2>1, Adding!LeastNat
    <2>3. n \in 1 .. N
      BY <1>3, <2>2
    <2>4. S[n - 1] <= R[n - 1]
      BY <2>2, <2>3
    <2>5. S[n] = S[n - 1] + w[n] /\ R[n] = R[n - 1] + v[n] /\ w[n] <= v[n]
      BY <1>3, <2>3
    <2>6. S[n - 1] \in Nat /\ R[n - 1] \in Nat /\ w[n] \in Nat /\ v[n] \in Nat
      BY <1>3, <2>3
    <2>7. S[n] <= R[n]
      BY <2>4, <2>5, <2>6
    <2> QED BY <2>2, <2>7
  <1>5. N \in 0 .. N
    OBVIOUS
  <1> QED BY <1>1, <1>2, <1>4, <1>5

\* The sum with one weight more.
LEMMA TotalOneMore ==
    ASSUME NEW N \in Nat, NEW w \in [1 .. N -> Nat], NEW v \in [1 .. N -> Nat], NEW k \in 1 .. N,
           \A i \in 1 .. N : i # k => v[i] = w[i], NEW d \in Nat, v[k] = w[k] + d
    PROVE  Total(v) = Total(w) + d
  <1>1. PICK S : PartialSums(S, w, N) /\ Total(w) = S[N]
    BY TotalIs
  <1>2. PICK R : PartialSums(R, v, N) /\ Total(v) = R[N]
    BY TotalIs
  <1>3. /\ S \in [0 .. N -> Nat] /\ S[0] = 0 /\ \A n \in 1 .. N : S[n] = S[n - 1] + w[n]
        /\ R \in [0 .. N -> Nat] /\ R[0] = 0 /\ \A n \in 1 .. N : R[n] = R[n - 1] + v[n]
    BY <1>1, <1>2 DEF PartialSums
  <1> DEFINE Right(n) == R[n] = S[n] + (IF n < k THEN 0 ELSE d)
             T == {n \in 0 .. N : ~Right(n)}
  <1>4. T = {}
    <2> SUFFICES ASSUME T # {} PROVE FALSE
      OBVIOUS
    <2>0. d \in Nat
      OBVIOUS
    <2>1. T \subseteq Nat
      OBVIOUS
    <2>2. PICK n \in T : \A m \in T : n <= m
      <3> HIDE DEF T
      <3> QED BY <2>1, Adding!LeastNat
    <2>3. n \in 1 .. N
      BY <1>3, <2>2
    <2>4. Right(n - 1)
      <3> HIDE DEF Right
      <3> QED BY <2>2, <2>3
    <2>5. S[n] = S[n - 1] + w[n] /\ R[n] = R[n - 1] + v[n]
      BY <1>3, <2>3
    <2>6. S[n - 1] \in Nat /\ R[n - 1] \in Nat /\ w[n] \in Nat /\ v[n] \in Nat
      <3>1. n - 1 \in 0 .. N
        BY <2>3
      <3>2. S[n - 1] \in Nat /\ R[n - 1] \in Nat
        BY <1>3, <3>1
      <3>3. w[n] \in Nat /\ v[n] \in Nat
        BY <2>3
      <3> QED BY <3>2, <3>3
    <2>7. v[n] = IF n = k THEN w[n] + d ELSE w[n]
      BY <2>3
    <2>8. Right(n)
      <3>1. CASE n < k
        <4>1. n - 1 < k /\ n # k
          BY <2>3, <3>1
        <4>2. R[n - 1] = S[n - 1] + 0 /\ v[n] = w[n]
          BY <2>4, <2>7, <4>1
        <4> QED BY <2>5, <2>6, <3>1, <4>2
      <3>2. CASE n = k
        <4>1. n - 1 < k /\ ~(n < k)
          BY <2>3, <3>2
        <4>2. R[n - 1] = S[n - 1] /\ v[n] = w[n] + d
          BY <2>4, <2>6, <2>7, <3>2, <4>1
        <4>3. R[n] = S[n] + d
          <5> QED BY ONLY <2>0, <2>5, <2>6, <4>2
        <4> QED BY <4>1, <4>3
      <3>3. CASE n > k
        <4>1. ~(n - 1 < k) /\ ~(n < k) /\ n # k
          BY <2>3, <3>3
        <4>2. R[n - 1] = S[n - 1] + d /\ v[n] = w[n]
          BY <2>4, <2>7, <4>1
        <4>3. R[n] = S[n] + d
          <5> QED BY ONLY <2>0, <2>5, <2>6, <4>2
        <4> QED BY <4>1, <4>3
      <3> QED BY <2>3, <3>1, <3>2, <3>3
    <2> QED BY <2>2, <2>8
  <1>5. N \in 0 .. N
    OBVIOUS
  <1>6. Right(N)
    <2> HIDE DEF Right
    <2> QED BY <1>4, <1>5
  <1> QED BY <1>1, <1>2, <1>6

\* The sum of no weight at all.
LEMMA TotalNone ==
    ASSUME NEW N \in Nat, NEW w \in [1 .. N -> Nat], \A i \in 1 .. N : w[i] = 0
    PROVE  Total(w) = 0
  <1>1. PICK S : PartialSums(S, w, N) /\ Total(w) = S[N]
    BY TotalIs
  <1>2. S \in [0 .. N -> Nat] /\ S[0] = 0 /\ \A n \in 1 .. N : S[n] = S[n - 1] + w[n]
    BY <1>1 DEF PartialSums
  <1> DEFINE T == {n \in 0 .. N : S[n] # 0}
  <1>3. T = {}
    <2> SUFFICES ASSUME T # {} PROVE FALSE
      OBVIOUS
    <2>1. T \subseteq Nat
      OBVIOUS
    <2>2. PICK n \in T : \A m \in T : n <= m
      <3> HIDE DEF T
      <3> QED BY <2>1, Adding!LeastNat
    <2>3. n \in 1 .. N
      BY <1>2, <2>2
    <2>4. S[n - 1] = 0
      BY <2>2, <2>3
    <2>5. S[n] = S[n - 1] + w[n]
      BY <1>2, <2>3
    <2>6. w[n] = 0
      BY <2>3
    <2>7. S[n] = 0
      BY <2>4, <2>5, <2>6
    <2> QED BY <2>2, <2>7
  <1>4. N \in 0 .. N
    OBVIOUS
  <1> QED BY <1>1, <1>3, <1>4

\* The weights of the blocks before n.
Upto(w, n) == [i \in DOMAIN w |-> IF i < n THEN w[i] ELSE 0]

\* The sum over the blocks before n: nothing at first, in the end everything,
\* and never more.
LEMMA UptoTotals ==
    ASSUME NEW N \in Nat, NEW w \in [1 .. N -> Nat]
    PROVE  /\ Total(w) \in Nat
           /\ Total(Upto(w, 1)) = 0
           /\ Total(Upto(w, N + 1)) = Total(w)
           /\ \A n \in 1 .. N + 1 : Total(Upto(w, n)) \in Nat /\ Total(Upto(w, n)) <= Total(w)
           /\ \A n \in 1 .. N : Total(Upto(w, n + 1)) = Total(Upto(w, n)) + w[n]
  <1>1. \A n \in 1 .. N + 1 : Upto(w, n) \in [1 .. N -> Nat]
    BY DEF Upto
  <1>2. Total(w) \in Nat
    BY TotalNat
  <1>3. Total(Upto(w, 1)) = 0
    <2>1. 1 \in 1 .. N + 1 /\ \A i \in 1 .. N : ~(i < 1)
      OBVIOUS
    <2>2. \A i \in 1 .. N : Upto(w, 1)[i] = 0
      BY <2>1 DEF Upto
    <2> QED BY <1>1, <2>1, <2>2, TotalNone
  <1>4. Upto(w, N + 1) = w
    BY DEF Upto
  <1>5. ASSUME NEW n \in 1 .. N + 1
        PROVE  Total(Upto(w, n)) \in Nat /\ Total(Upto(w, n)) <= Total(w)
    <2>1. Upto(w, n) \in [1 .. N -> Nat]
      BY <1>1
    <2>2. \A i \in 1 .. N : Upto(w, n)[i] <= w[i]
      BY DEF Upto
    <2> QED BY <2>1, <2>2, TotalNat, TotalMonotone
  <1>6. ASSUME NEW n \in 1 .. N
        PROVE  Total(Upto(w, n + 1)) = Total(Upto(w, n)) + w[n]
    <2> DEFINE x == Upto(w, n)
               y == Upto(w, n + 1)
    <2>1. x \in [1 .. N -> Nat] /\ y \in [1 .. N -> Nat]
      <3>1. n \in 1 .. N + 1 /\ n + 1 \in 1 .. N + 1
        OBVIOUS
      <3> QED BY <1>1, <3>1
    <2>2. \A i \in 1 .. N : i # n => y[i] = x[i]
      BY DEF Upto
    <2>3. w[n] \in Nat /\ x[n] = 0 /\ y[n] = w[n]
      BY DEF Upto
    <2> DEFINE d == w[n]
    <2>4. N \in Nat /\ n \in 1 .. N /\ d \in Nat /\ y[n] = x[n] + d
      BY <2>3
    <2> HIDE DEF x, y, d
    <2>5. Total(y) = Total(x) + d
      BY ONLY <2>1, <2>2, <2>4, TotalOneMore
    <2> QED BY <2>5 DEF x, y, d
  <1> QED BY <1>2, <1>3, <1>4, <1>5, <1>6

------------------------------------------------------------------------------
\* The decoded blocks in the array or among the results of the tasks.
Stored == [i \in Blocks |-> IF decompressed_blocks[i] # NoBlock \/ results[i] \in Blocks
                            THEN index[i].size ELSE 0]

\* The block from which on no compressed bytes are counted: the sequential path
\* counts a block before it decodes it.
Uncounted == IF pc = "decoded" /\ mode = "sequential" THEN next + 1 ELSE next

\* What the counters stand for, and what they have ruled out.
LimitInv ==
    /\ pc # "error" => err = "none"
    /\ pc \in {"read", "decoded"} =>
          /\ total_compressed_read = Total(Upto(Counted, Uncounted))
          /\ total_compressed_read <= MaxTotalCompressedRead
          /\ total_decompressed <= MaxTotalDecompressed
          /\ \A i \in Blocks : results[i] = Pending
          /\ \A i \in Blocks : (mode = "parallel" \/ i >= next) => decompressed_blocks[i] = NoBlock
    /\ ((pc = "read" /\ mode = "parallel") \/ pc = "decode") => total_decompressed = 0
    /\ ((pc = "read" /\ mode # "parallel") \/ pc \in {"decoded", "assemble"}) =>
          total_decompressed = Total(Upto(Sizes, next))
    /\ pc \in {"decode", "assemble", "file", "take", "done"} => Fits
    /\ err = "limit" => ~Fits
    /\ Total(Stored) <= MaxTotalDecompressed

\* The archive and the path do not change, so neither do the weights.
LEMMA SameWeights ==
    ASSUME UNCHANGED <<archive, mode>>
    PROVE  /\ index' = index /\ Blocks' = Blocks /\ Sizes' = Sizes /\ Counted' = Counted
           /\ Fits' <=> Fits
  <1>1. index' = index /\ Blocks' = Blocks
    BY DEF index, Blocks
  <1>2. Sizes' = Sizes
    BY <1>1 DEF Sizes
  <1>3. Counted' = Counted
    BY <1>1 DEF Counted
  <1> QED BY <1>1, <1>2, <1>3 DEF Fits

\* The weights are natural numbers.
LEMMA Weights ==
    ASSUME TypeOK
    PROVE  /\ Len(index) \in Nat /\ Blocks = 1 .. Len(index)
           /\ Sizes \in [1 .. Len(index) -> Nat] /\ Counted \in [1 .. Len(index) -> Nat]
           /\ \A i \in Blocks : Sizes[i] = index[i].size
  <1>1. Len(index) \in Nat /\ \A i \in Blocks : index[i] \in BlockRecord
    BY ArchiveTypes DEF TypeOK
  <1>2. \A i \in Blocks : /\ index[i].size \in Nat /\ index[i].payload \in Nat
                          /\ index[i].claimed \in Nat /\ index[i].stored \in Nat
    BY <1>1 DEF BlockRecord
  <1>3. Sizes \in [1 .. Len(index) -> Nat] /\ \A i \in Blocks : Sizes[i] = index[i].size
    BY <1>2 DEF Sizes, Blocks
  <1>4. Counted \in [1 .. Len(index) -> Nat]
    BY <1>2 DEF Counted, Blocks
  <1> QED BY <1>1, <1>3, <1>4 DEF Blocks

\* What is held after a step that keeps the archive: blocks, each with its
\* size.
LEMMA HeldIs ==
    ASSUME TypeOK, UNCHANGED archive
    PROVE  /\ Stored' \in [1 .. Len(index) -> Nat]
           /\ \A i \in Blocks : Stored'[i] <= Sizes[i]
           /\ \A i \in Blocks : (decompressed_blocks'[i] = NoBlock /\ results'[i] = Pending)
                                   => Stored'[i] = 0
  <1>1. index' = index /\ Blocks' = Blocks
    BY DEF index, Blocks
  <1>2. /\ Len(index) \in Nat /\ Blocks = 1 .. Len(index) /\ Sizes \in [1 .. Len(index) -> Nat]
        /\ \A i \in Blocks : Sizes[i] = index[i].size
    BY Weights
  <1>3. Stored' = [i \in Blocks |-> IF decompressed_blocks'[i] # NoBlock \/ results'[i] \in Blocks
                                  THEN index[i].size ELSE 0]
    BY <1>1 DEF Stored
  <1>4. Pending \notin Blocks
    BY <1>2 DEF Pending
  <1>5. ASSUME NEW i \in Blocks
        PROVE  /\ Stored'[i] \in Nat /\ Stored'[i] <= Sizes[i]
               /\ (decompressed_blocks'[i] = NoBlock /\ results'[i] = Pending) => Stored'[i] = 0
    <2>1. Sizes[i] = index[i].size /\ Sizes[i] \in Nat
      BY <1>2
    <2>2. Stored'[i] = IF decompressed_blocks'[i] # NoBlock \/ results'[i] \in Blocks
                     THEN index[i].size ELSE 0
      BY <1>3
    <2> QED BY <1>4, <2>1, <2>2
  <1> QED BY <1>2, <1>3, <1>5

\* All blocks together are within the limit, so are those in memory.
LEMMA HeldFits ==
    ASSUME TypeOK, UNCHANGED archive, Fits
    PROVE  Total(Stored') <= MaxTotalDecompressed
  <1> DEFINE N == Len(index)
             w == Stored'
             v == Sizes
  <1>1. N \in Nat /\ w \in [1 .. N -> Nat] /\ v \in [1 .. N -> Nat] /\ \A i \in 1 .. N : w[i] <= v[i]
    BY Weights, HeldIs
  <1>2. Total(v) <= MaxTotalDecompressed
    BY DEF Fits
  <1> HIDE DEF N, w, v
  <1>3. Total(w) <= Total(v) /\ Total(w) \in Nat /\ Total(v) \in Nat
    BY <1>1, TotalMonotone, TotalNat
  <1>4. Total(w) <= MaxTotalDecompressed
    BY <1>2, <1>3, ExtractionAssumption
  <1> QED BY <1>4 DEF w

\* Only blocks before n are in memory, and they are within the limit.
LEMMA HeldReads ==
    ASSUME TypeOK, UNCHANGED archive, NEW n \in 1 .. Len(index) + 1,
           \A i \in Blocks : results'[i] = Pending,
           \A i \in Blocks : i >= n => decompressed_blocks'[i] = NoBlock,
           Total(Upto(Sizes, n)) <= MaxTotalDecompressed
    PROVE  Total(Stored') <= MaxTotalDecompressed
  <1> DEFINE N == Len(index)
             w == Stored'
             v == Upto(Sizes, n)
  <1>1. N \in Nat /\ w \in [1 .. N -> Nat] /\ Blocks = 1 .. N /\ Sizes \in [1 .. N -> Nat]
    BY Weights, HeldIs
  <1>2. v \in [1 .. N -> Nat] /\ \A i \in 1 .. N : v[i] = IF i < n THEN Sizes[i] ELSE 0
    BY <1>1 DEF Upto
  <1>3. \A i \in Blocks : w[i] <= Sizes[i] /\ (i >= n => w[i] = 0)
    BY HeldIs
  <1>4. n \in 1 .. N + 1 /\ Total(v) <= MaxTotalDecompressed
    OBVIOUS
  <1> HIDE DEF N, w, v
  <1>5. ASSUME NEW i \in 1 .. N PROVE w[i] <= v[i]
    <2>1. w[i] <= Sizes[i] /\ (i >= n => w[i] = 0)
      BY <1>1, <1>3
    <2>2. v[i] = IF i < n THEN Sizes[i] ELSE 0
      BY <1>2
    <2>3. i < n \/ i >= n
      BY <1>1, <1>4
    <2> QED BY <2>1, <2>2, <2>3
  <1>6. Total(w) <= Total(v) /\ Total(w) \in Nat /\ Total(v) \in Nat
    BY <1>1, <1>2, <1>5, TotalMonotone, TotalNat
  <1>7. Total(w) <= MaxTotalDecompressed
    BY <1>4, <1>6, ExtractionAssumption
  <1> QED BY <1>7 DEF w

\* An error return: for a limit only if the archive is beyond one.
LEMMA RaiseLimit ==
    ASSUME IInv, LimitInv, NEW r, Raise(r), r = "limit" => ~Fits
    PROVE  LimitInv'
  <1>1. UNCHANGED <<archive, mode, results, decompressed_blocks>> /\ pc' = "error" /\ err' = r
    BY DEF Raise, reading
  <1>2. Fits' <=> Fits
    BY <1>1, SameWeights
  <1>3. Stored' = Stored
    BY <1>1 DEF Stored, index, Blocks
  <1> QED BY <1>1, <1>2, <1>3 DEF LimitInv

\* The step that adds the compressed bytes of the next block, on any path.
LEMMA CountNext ==
    ASSUME IInv, next \in Blocks, total_compressed_read = Total(Upto(Counted, next))
    PROVE  LET read == total_compressed_read + Counted[next] IN
           /\ read = Total(Upto(Counted, next + 1))
           /\ read > MaxTotalCompressedRead => ~Fits
           /\ read \in Nat
  <1> DEFINE N == Len(index)
             n == next
             w == Counted
  <1>1. N \in Nat /\ n \in 1 .. N /\ w \in [1 .. N -> Nat]
    BY Weights DEF IInv
  <1>2. total_compressed_read = Total(Upto(w, n))
    OBVIOUS
  <1> HIDE DEF N, n, w
  <1>3. /\ Total(Upto(w, n + 1)) = Total(Upto(w, n)) + w[n]
        /\ Total(Upto(w, n + 1)) \in Nat /\ Total(Upto(w, n + 1)) <= Total(w) /\ Total(w) \in Nat
    <2>1. n + 1 \in 1 .. N + 1
      BY <1>1
    <2> QED BY <1>1, <2>1, UptoTotals
  <1>4. total_compressed_read + w[n] = Total(Upto(w, n + 1))
    BY <1>2, <1>3
  <1>5. Total(Upto(w, n + 1)) > MaxTotalCompressedRead => ~(Total(w) <= MaxTotalCompressedRead)
    BY <1>3, ExtractionAssumption
  <1> QED BY <1>3, <1>4, <1>5 DEF n, w, Fits

\* The step that adds the size of the next decoded block, on any path.
LEMMA SizeNext ==
    ASSUME IInv, LimitInv, next \in Blocks, total_decompressed = Total(Upto(Sizes, next))
    PROVE  LET size == total_decompressed + index[next].size IN
           /\ size = Total(Upto(Sizes, next + 1))
           /\ size > MaxTotalDecompressed => ~Fits
           /\ size \in Nat
  <1> DEFINE N == Len(index)
             n == next
             w == Sizes
  <1>1. N \in Nat /\ n \in 1 .. N /\ w \in [1 .. N -> Nat] /\ w[n] = index[next].size
    BY Weights DEF IInv
  <1>2. total_decompressed = Total(Upto(w, n))
    OBVIOUS
  <1> HIDE DEF N, n, w
  <1>3. /\ Total(Upto(w, n + 1)) = Total(Upto(w, n)) + w[n]
        /\ Total(Upto(w, n + 1)) \in Nat /\ Total(Upto(w, n + 1)) <= Total(w) /\ Total(w) \in Nat
    <2>1. n + 1 \in 1 .. N + 1
      BY <1>1
    <2> QED BY <1>1, <2>1, UptoTotals
  <1>4. total_decompressed + w[n] = Total(Upto(w, n + 1))
    BY <1>2, <1>3
  <1>5. Total(Upto(w, n + 1)) > MaxTotalDecompressed => ~(Total(w) <= MaxTotalDecompressed)
    BY <1>3, ExtractionAssumption
  <1> QED BY <1>1, <1>3, <1>4, <1>5 DEF n, w, Fits

\* The loop over the blocks has reached its end: the sums are complete.
LEMMA ReadAll ==
    ASSUME IInv, next \notin Blocks
    PROVE  Total(Upto(Counted, next)) = Total(Counted) /\ Total(Upto(Sizes, next)) = Total(Sizes)
  <1>1. /\ Len(index) \in Nat /\ Blocks = 1 .. Len(index)
        /\ Sizes \in [1 .. Len(index) -> Nat] /\ Counted \in [1 .. Len(index) -> Nat]
    BY Weights DEF IInv
  <1>2. next = Len(index) + 1
    BY <1>1 DEF IInv, TypeOK
  <1> QED BY <1>1, <1>2, UptoTotals

\* At the start nothing is counted and nothing is held.
LEMMA InitLimit == ASSUME Init PROVE LimitInv
  <1>1. TypeOK
    BY InitInv DEF IInv
  <1>2. /\ Len(index) \in Nat /\ Blocks = 1 .. Len(index)
        /\ Sizes \in [1 .. Len(index) -> Nat] /\ Counted \in [1 .. Len(index) -> Nat]
    BY <1>1, Weights
  <1>3. Total(Upto(Counted, 1)) = 0 /\ Total(Upto(Sizes, 1)) = 0
    BY <1>2, UptoTotals
  <1>4. Pending \notin Blocks
    BY <1>2 DEF Pending
  <1>5. \A i \in Blocks : results[i] = Pending /\ decompressed_blocks[i] = NoBlock
    BY DEF Init
  <1>6. Stored \in [1 .. Len(index) -> Nat] /\ \A i \in 1 .. Len(index) : Stored[i] = 0
    BY <1>2, <1>4, <1>5 DEF Stored
  <1>7. Total(Stored) = 0
    BY <1>2, <1>6, TotalNone
  <1>8. pc = "read" /\ err = "none" /\ next = 1 /\ total_compressed_read = 0 /\ total_decompressed = 0
    BY DEF Init
  <1>9. 0 <= MaxTotalCompressedRead /\ 0 <= MaxTotalDecompressed
    BY ExtractionAssumption
  <1>10. Uncounted = 1
    BY <1>8 DEF Uncounted
  <1> QED BY <1>3, <1>5, <1>7, <1>8, <1>9, <1>10 DEF LimitInv

\* Phase 1 of the parallel path counts decrypted payloads.
LEMMA ReadBlockLimit == ASSUME IInv, LimitInv, ReadBlock PROVE LimitInv'
  <1>1. mode = "parallel" /\ pc = "read" /\ next \in Blocks
    BY DEF ReadBlock
  <1>2. Counted[next] = index[next].payload
    BY <1>1 DEF Counted
  <1> DEFINE read == total_compressed_read + index[next].payload
  <1>3. read = Total(Upto(Counted, next + 1)) /\ (read > MaxTotalCompressedRead => ~Fits) /\ read \in Nat
    BY <1>1, <1>2, CountNext DEF LimitInv, Uncounted
  <1>4. CASE Raise("block")
    BY <1>4, RaiseLimit
  <1>5. CASE read > MaxTotalCompressedRead /\ Raise("limit")
    BY <1>3, <1>5, RaiseLimit
  <1>6. CASE /\ ~(read > MaxTotalCompressedRead)
             /\ total_compressed_read' = read /\ next' = next + 1
             /\ UNCHANGED <<archive, mode, pc, err, total_decompressed, results,
                            decompressed_blocks, writing>>
    <2>1. /\ Blocks' = Blocks /\ Sizes' = Sizes /\ Counted' = Counted /\ (Fits' <=> Fits)
      BY <1>6, SameWeights
    <2>2. Stored' = Stored
      BY <1>6 DEF Stored, index, Blocks
    <2>3. read <= MaxTotalCompressedRead
      BY <1>3, <1>6, ExtractionAssumption
    <2>4. pc' = "read" /\ Uncounted' = next + 1
      BY <1>1, <1>6 DEF Uncounted
    <2> HIDE DEF read
    <2> QED BY <1>1, <1>3, <1>6, <2>1, <2>2, <2>3, <2>4 DEF LimitInv
  <1> QED BY <1>4, <1>5, <1>6 DEF ReadBlock

\* The pre-check ends phase 1 with an archive that fits.
LEMMA StartDecodeLimit == ASSUME IInv, LimitInv, StartDecode PROVE LimitInv'
  <1>1. mode = "parallel" /\ pc = "read" /\ next \notin Blocks
    BY DEF StartDecode
  <1>2. Total(Sizes) \in Nat /\ Total(Counted) <= MaxTotalCompressedRead
    <2>1. Total(Counted) <= MaxTotalCompressedRead
      BY <1>1, ReadAll DEF LimitInv, Uncounted
    <2>2. Total(Sizes) \in Nat
      BY Weights, TotalNat DEF IInv
    <2> QED BY <2>1, <2>2
  <1>3. CASE ExpectedTooLarge /\ Raise("limit")
    <2>1. ~Fits
      BY <1>2, <1>3, ExtractionAssumption DEF ExpectedTooLarge, total_expected, Fits
    <2> QED BY <1>3, <2>1, RaiseLimit
  <1>4. CASE ~ExpectedTooLarge /\ pc' = "decode" /\ UNCHANGED <<archive, mode, err, reading, writing>>
    <2>1. Fits
      BY <1>2, <1>4, ExtractionAssumption DEF ExpectedTooLarge, total_expected, Fits
    <2>2. Fits' <=> Fits
      BY <1>4, SameWeights
    <2>3. Stored' = Stored
      BY <1>4 DEF Stored, index, Blocks, reading
    <2> QED BY <1>1, <1>4, <2>1, <2>2, <2>3 DEF LimitInv, reading
  <1> QED BY <1>3, <1>4 DEF StartDecode

\* The tasks of the pool decode an archive that fits.
LEMMA DecodeBlockLimit == ASSUME IInv, LimitInv, NEW i \in Blocks, DecodeBlock(i) PROVE LimitInv'
  <1>1. pc = "decode" /\ UNCHANGED <<archive, mode, pc, err, total_decompressed>>
    BY DEF DecodeBlock
  <1>2. Fits
    BY <1>1 DEF LimitInv
  <1>3. Fits' <=> Fits
    BY <1>1, SameWeights
  <1>4. Total(Stored') <= MaxTotalDecompressed
    BY <1>1, <1>2, HeldFits DEF IInv
  <1> QED BY <1>1, <1>2, <1>3, <1>4 DEF LimitInv

\* The results are assembled from the first block on.
LEMMA CollectLimit == ASSUME IInv, LimitInv, Collect PROVE LimitInv'
  <1>1. /\ pc = "decode" /\ pc' = "assemble" /\ next' = 1
        /\ UNCHANGED <<archive, mode, err, total_decompressed, results, decompressed_blocks>>
    BY DEF Collect
  <1>2. Fits /\ total_decompressed = 0
    BY <1>1 DEF LimitInv
  <1>3. (Fits' <=> Fits) /\ Sizes' = Sizes
    BY <1>1, SameWeights
  <1>4. Total(Upto(Sizes, 1)) = 0
    BY Weights, UptoTotals DEF IInv
  <1>5. Stored' = Stored
    BY <1>1 DEF Stored, index, Blocks
  <1> QED BY <1>1, <1>2, <1>3, <1>4, <1>5 DEF LimitInv

\* Storing decoded block `next`, on the parallel path when everything is known
\* to fit, on the others as they go.
LEMMA StoreLimit ==
    ASSUME IInv, LimitInv, next \in Blocks, NEW read, NEW loop, Store(next, read, loop),
           \/ pc = "assemble" /\ loop = "assemble"
           \/ /\ pc = "decoded" /\ loop = "read" /\ mode # "parallel"
              /\ read = Total(Upto(Counted, next + 1)) /\ read <= MaxTotalCompressedRead
    PROVE  LimitInv'
  <1> DEFINE size == total_decompressed + index[next].size
  <1>1. size = Total(Upto(Sizes, next + 1)) /\ (size > MaxTotalDecompressed => ~Fits) /\ size \in Nat
    BY SizeNext DEF LimitInv
  <1>2. CASE size > MaxTotalDecompressed /\ Raise("limit")
    BY <1>1, <1>2, RaiseLimit
  <1>3. CASE /\ ~(size > MaxTotalDecompressed)
             /\ total_compressed_read' = read /\ total_decompressed' = size
             /\ decompressed_blocks' = [decompressed_blocks EXCEPT ![next] = next]
             /\ next' = next + 1
             /\ pc' = loop
             /\ UNCHANGED <<archive, mode, err, results, writing>>
    <2>1. /\ Blocks' = Blocks /\ Sizes' = Sizes /\ Counted' = Counted /\ (Fits' <=> Fits)
      BY <1>3, SameWeights
    <2>2. size <= MaxTotalDecompressed
      BY <1>1, <1>3, ExtractionAssumption
    <2> HIDE DEF size
    <2>3. CASE pc = "assemble" /\ loop = "assemble"
      <3>1. Fits
        BY <2>3 DEF LimitInv
      <3>2. Total(Stored') <= MaxTotalDecompressed
        BY <1>3, <3>1, HeldFits DEF IInv
      <3> QED BY <1>1, <1>3, <2>1, <2>3, <3>1, <3>2 DEF LimitInv
    <2>4. CASE /\ pc = "decoded" /\ loop = "read" /\ mode # "parallel"
               /\ read = Total(Upto(Counted, next + 1)) /\ read <= MaxTotalCompressedRead
      <3>1. Len(index) \in Nat /\ Blocks = 1 .. Len(index) /\ next + 1 \in 1 .. Len(index) + 1
        BY Weights DEF IInv
      <3>2. \A i \in Blocks : i >= next + 1 => decompressed_blocks'[i] = NoBlock
        <4> SUFFICES ASSUME NEW i \in Blocks, i >= next + 1 PROVE decompressed_blocks'[i] = NoBlock
          OBVIOUS
        <4>1. i # next /\ i >= next
          BY <3>1
        <4>2. decompressed_blocks'[i] = decompressed_blocks[i]
          BY <1>3, <4>1 DEF IInv, TypeOK
        <4> QED BY <2>4, <4>1, <4>2 DEF LimitInv
      <3>3. \A i \in Blocks : results'[i] = Pending
        BY <1>3, <2>4 DEF LimitInv
      <3>4. Total(Upto(Sizes, next + 1)) <= MaxTotalDecompressed
        BY <1>1, <2>2
      <3>5. Total(Stored') <= MaxTotalDecompressed
        BY <1>3, <3>1, <3>2, <3>3, <3>4, HeldReads DEF IInv
      <3>6. pc' = "read" /\ mode' # "parallel" /\ err' = "none"
        BY <1>3, <2>4 DEF LimitInv
      <3>7. Uncounted' = next + 1
        BY <1>3, <3>6 DEF Uncounted
      <3> QED BY <1>1, <1>3, <2>1, <2>2, <2>4, <3>2, <3>3, <3>5, <3>6, <3>7 DEF LimitInv
    <2> QED BY <2>3, <2>4
  <1> QED BY <1>2, <1>3 DEF Store

\* Assembling the results of the pool: results are stored in their own slots.
LEMMA AssembleBlockLimit == ASSUME IInv, LimitInv, AssembleBlock PROVE LimitInv'
  <1>1. pc = "assemble" /\ next \in Blocks
    BY DEF AssembleBlock
  <1>2. CASE Raise("block")
    BY <1>2, RaiseLimit
  <1>3. CASE /\ results[next] # Failed
             /\ Store(results[next], total_compressed_read, "assemble")
    <2>1. results[next] = next
      BY <1>1, <1>3 DEF IInv, ReadInv
    <2> QED BY <1>1, <1>3, <2>1, StoreLimit
  <1> QED BY <1>2, <1>3 DEF AssembleBlock

\* Decoding the next block into the local of a loop: nothing is stored, and
\* what is counted already is within the limit.
LEMMA DecodeLimit ==
    ASSUME IInv, LimitInv, pc = "read", mode # "parallel", NEW read, Decode(read),
           read = Total(Upto(Counted, IF mode = "sequential" THEN next + 1 ELSE next)),
           read <= MaxTotalCompressedRead
    PROVE  LimitInv'
  <1>1. CASE Raise("block")
    BY <1>1, RaiseLimit
  <1>2. CASE /\ pc' = "decoded"
             /\ total_compressed_read' = read
             /\ UNCHANGED <<archive, mode, err, next, total_decompressed, results,
                            decompressed_blocks, writing>>
    <2>1. Blocks' = Blocks /\ Sizes' = Sizes /\ Counted' = Counted /\ (Fits' <=> Fits)
      BY <1>2, SameWeights
    <2>2. Stored' = Stored
      BY <1>2 DEF Stored, index, Blocks
    <2>3. Uncounted' = IF mode = "sequential" THEN next + 1 ELSE next
      BY <1>2 DEF Uncounted
    <2> QED BY <1>2, <2>1, <2>2, <2>3 DEF LimitInv
  <1> QED BY <1>1, <1>2 DEF Decode

\* The sequential path counts what the index claims, before it decodes; the
\* streaming path counts nothing yet.
LEMMA DecompressBlockLimit ==
    ASSUME IInv, LimitInv, DecompressBlock \/ DecompressBlockStreaming
    PROVE  LimitInv'
  <1>1. /\ pc = "read" /\ next \in Blocks /\ mode # "parallel"
        /\ total_compressed_read = Total(Upto(Counted, next))
        /\ total_compressed_read <= MaxTotalCompressedRead
    BY DEF DecompressBlock, DecompressBlockStreaming, LimitInv, Uncounted
  <1>2. CASE DecompressBlock
    <2> DEFINE read == total_compressed_read + index[next].claimed
    <2>1. mode = "sequential" /\ Counted[next] = index[next].claimed
      BY <1>1, <1>2 DEF DecompressBlock, Counted
    <2>2. /\ read = Total(Upto(Counted, next + 1))
          /\ read > MaxTotalCompressedRead => ~Fits
          /\ read \in Nat
      BY <1>1, <2>1, CountNext
    <2>3. CASE read > MaxTotalCompressedRead /\ Raise("limit")
      BY <2>2, <2>3, RaiseLimit
    <2>4. CASE ~(read > MaxTotalCompressedRead) /\ Decode(read)
      <3>1. read <= MaxTotalCompressedRead
        BY <2>2, <2>4, ExtractionAssumption
      <3> HIDE DEF read
      <3> QED BY <1>1, <2>1, <2>2, <2>4, <3>1, DecodeLimit
    <2> QED BY <1>2, <2>3, <2>4 DEF DecompressBlock
  <1>3. CASE DecompressBlockStreaming
    <2>1. mode = "streaming" /\ Decode(total_compressed_read)
      BY <1>3 DEF DecompressBlockStreaming
    <2> QED BY <1>1, <2>1, DecodeLimit
  <1> QED BY <1>2, <1>3

\* The streaming path counts what the block header says; on both paths the
\* block is then within the compressed limit, or refused.
LEMMA KeepBlockLimit ==
    ASSUME IInv, LimitInv, KeepBlock \/ KeepBlockStreaming
    PROVE  LimitInv'
  <1>1. pc = "decoded" /\ next \in Blocks /\ mode # "parallel"
    BY DEF KeepBlock, KeepBlockStreaming, IInv, ReadInv
  <1>2. CASE KeepBlock
    <2>1. /\ total_compressed_read = Total(Upto(Counted, next + 1))
          /\ total_compressed_read <= MaxTotalCompressedRead
          /\ Store(next, total_compressed_read, "read")
      BY <1>1, <1>2 DEF KeepBlock, LimitInv, Uncounted
    <2> QED BY <1>1, <2>1, StoreLimit
  <1>3. CASE KeepBlockStreaming
    <2> DEFINE read == total_compressed_read + index[next].stored
    <2>1. /\ mode = "streaming" /\ Counted[next] = index[next].stored
          /\ total_compressed_read = Total(Upto(Counted, next))
      BY <1>1, <1>3 DEF KeepBlockStreaming, Counted, LimitInv, Uncounted
    <2>2. /\ read = Total(Upto(Counted, next + 1))
          /\ read > MaxTotalCompressedRead => ~Fits
          /\ read \in Nat
      BY <1>1, <2>1, CountNext
    <2>3. CASE read > MaxTotalCompressedRead /\ Raise("limit")
      BY <2>2, <2>3, RaiseLimit
    <2>4. CASE ~(read > MaxTotalCompressedRead) /\ Store(next, read, "read")
      <3>1. read <= MaxTotalCompressedRead
        BY <2>2, <2>4, ExtractionAssumption
      <3> HIDE DEF read
      <3> QED BY <1>1, <2>2, <2>4, <3>1, StoreLimit
    <2> QED BY <1>3, <2>3, <2>4 DEF KeepBlockStreaming
  <1> QED BY <1>2, <1>3

\* Once the files are reassembled nothing is counted any more, and blocks are
\* only released.
LEMMA FilesLimit ==
    ASSUME IInv, LimitInv, Fits, pc # "error", pc' \in {"file", "take", "done"},
           UNCHANGED <<archive, mode, err>>
    PROVE  LimitInv'
  <1>1. Fits' <=> Fits
    BY SameWeights
  <1>2. Total(Stored') <= MaxTotalDecompressed
    BY HeldFits DEF IInv
  <1> QED BY <1>1, <1>2 DEF LimitInv

\* All blocks are read and stored: the archive fits.
LEMMA StartFilesLimit == ASSUME IInv, LimitInv, StartFiles PROVE LimitInv'
  <1>1. /\ pc' = "file" /\ UNCHANGED <<archive, mode, err>>
        /\ pc = "assemble" \/ (pc = "read" /\ mode # "parallel" /\ next \notin Blocks)
    BY DEF StartFiles, BlocksDone
  <1>2. Fits
    <2>1. CASE pc = "assemble"
      BY <2>1 DEF LimitInv
    <2>2. CASE pc = "read" /\ mode # "parallel" /\ next \notin Blocks
      BY <2>2, ReadAll DEF LimitInv, Uncounted, Fits
    <2> QED BY <1>1, <2>1, <2>2
  <1>3. pc # "error"
    BY <1>1
  <1> QED BY <1>1, <1>2, <1>3, FilesLimit

\* The loop over the files.
LEMMA FilesStepLimit ==
    ASSUME IInv, LimitInv, BeginFile \/ TakeBlock \/ WriteFile \/ Finish
    PROVE  LimitInv'
  <1>1. pc \in {"file", "take"}
    BY DEF BeginFile, TakeBlock, WriteFile, Finish
  <1>2. Fits /\ pc # "error"
    BY <1>1 DEF LimitInv
  <1>3. \/ \E r \in {"range", "missing", "hash", "write"} : Raise(r)
        \/ pc' \in {"file", "take", "done"} /\ UNCHANGED <<archive, mode, err>>
    BY DEF BeginFile, TakeBlock, WriteFile, Finish
  <1>4. CASE \E r \in {"range", "missing", "hash", "write"} : Raise(r)
    BY <1>4, RaiseLimit
  <1>5. CASE pc' \in {"file", "take", "done"} /\ UNCHANGED <<archive, mode, err>>
    BY <1>2, <1>5, FilesLimit
  <1> QED BY <1>3, <1>4, <1>5

\* Every step keeps the invariant of the limits.
LEMMA NextLimit == ASSUME IInv, LimitInv, [Next]_vars PROVE LimitInv'
  <1>1. CASE UNCHANGED vars
    <2>1. UNCHANGED <<archive, mode, pc, err, next, total_compressed_read, total_decompressed,
                      results, decompressed_blocks>>
      BY <1>1 DEF vars, reading
    <2>2. Blocks' = Blocks /\ Sizes' = Sizes /\ Counted' = Counted /\ (Fits' <=> Fits)
      BY <2>1, SameWeights
    <2>3. Stored' = Stored /\ Uncounted' = Uncounted
      BY <2>1 DEF Stored, Uncounted, index, Blocks
    <2> QED BY <2>1, <2>2, <2>3 DEF LimitInv
  <1>2. CASE Next
    BY <1>2, KeepBlockLimit, ReadBlockLimit, StartDecodeLimit, DecodeBlockLimit, CollectLimit, AssembleBlockLimit,
       DecompressBlockLimit, StartFilesLimit, FilesStepLimit DEF Next
  <1> QED BY <1>1, <1>2

\* The block just decoded comes on top of what is stored; it is one block of a
\* size that validate_block_header has limited.
LEMMA HeldFitsOneMore ==
    ASSUME IInv, LimitInv
    PROVE  Total(Held) <= MaxTotalDecompressed + (IF pc = "decoded" THEN MaxBlockSize ELSE 0)
  <1> DEFINE N == Len(index)
  <1>1. /\ N \in Nat /\ Blocks = 1 .. N
        /\ \A i \in Blocks : index[i].size \in Nat
    BY Weights DEF IInv
  <1>2. Held \in [1 .. N -> Nat] /\ Stored \in [1 .. N -> Nat]
    BY <1>1 DEF Held, Stored
  <1>3. Total(Stored) <= MaxTotalDecompressed /\ Total(Stored) \in Nat
    BY <1>1, <1>2, TotalNat DEF LimitInv
  <1>4. CASE pc # "decoded"
    <2>1. Held = Stored
      BY <1>4 DEF Held, Stored
    <2> QED BY <1>3, <1>4, <2>1, ExtractionAssumption
  <1>5. CASE pc = "decoded"
    <2> DEFINE d == index[next].size
    <2>1. /\ next \in Blocks /\ d \in Nat /\ d <= MaxBlockSize
      BY <1>1, <1>5 DEF IInv, ReadInv, GoodBlock, Reads
    <2>2. decompressed_blocks[next] = NoBlock /\ results[next] = Pending
      BY <1>5, <2>1 DEF LimitInv, IInv, ReadInv, TypeOK
    <2>3. Stored[next] = 0 /\ Held[next] = d
      BY <1>1, <1>5, <2>1, <2>2 DEF Held, Stored, Pending
    <2>4. \A i \in 1 .. N : i # next => Held[i] = Stored[i]
      BY <1>1 DEF Held, Stored
    <2>5. Held[next] = Stored[next] + d
      BY <2>1, <2>3
    <2> HIDE DEF N, d
    <2>6. Total(Held) = Total(Stored) + d
      BY <1>1, <1>2, <2>1, <2>4, <2>5, TotalOneMore
    <2> QED BY <1>3, <1>5, <2>1, <2>6, ExtractionAssumption
  <1> QED BY <1>4, <1>5

\* The limits are exact on every path, for every archive and every order of
\* the decode tasks: what is extracted is within both limits, what is refused
\* for a limit is beyond one, and the decoded blocks in memory exceed it by no
\* more than the one block a sequential or streaming loop has just decoded.
THEOREM LimitsAreExact == Spec => []LimitsExact
  <1>1. Init => LimitInv
    BY InitLimit
  <1>2. IInv /\ LimitInv /\ [Next]_vars => LimitInv'
    BY NextLimit
  <1>3. IInv /\ LimitInv => LimitsExact
    BY HeldFitsOneMore DEF LimitInv, LimitsExact
  <1> QED BY <1>1, <1>2, <1>3, Invariance, PTL DEF Spec
==============================================================================
