----------------------------- MODULE Compressor -----------------------------
(***************************************************************************)
(* Compressor::compress_to_archive (aether-core/src/pipeline/compress.rs): *)
(* scan, group, write the placeholder header and tables, compress the      *)
(* groups in parallel (phase A), write the blocks in order (phase B), then *)
(* the index and the footer, and at last patch header and tables in place. *)
(*                                                                         *)
(* The output is written without a temporary file: the image "disk" is     *)
(* what another process, or this one after a crash, finds in the file at   *)
(* that moment.  Every write of a record is a step of its own, a write may *)
(* fail in any state, and a run may stop in any state.                     *)
(***************************************************************************)
EXTENDS ArchiveReader, Grouper

CONSTANTS Calls,             \* the calls: the files, and how self is set up
          MaxTotalInput,     \* MAX_TOTAL_INPUT_SIZE
          ChunkSize,         \* AVG_CHUNK_SIZE: where the chunker cuts
          StoredTypes,       \* content types the router stores uncompressed
          NestedArchive,     \* the symbol that is the tail of an .aet file
          NestedFooter       \* the footer that tail holds

\* The writer accepts no more than the readers do (both limits are 8 GiB), and
\* contents are sequences of symbols other than the mark of NoData.
ASSUME CompressorAssumption ==
    /\ MaxTotalInput \in Nat /\ MaxTotalInput <= MaxTotalDecompressed
    /\ ChunkSize \in Nat \ {0}
    /\ \A c \in Calls :
          /\ c.files \in Seq(Range(c.files))
          /\ c.encrypted \in BOOLEAN /\ c.dictionary \in BOOLEAN
          /\ \A f \in Range(c.files) : /\ f.type \in Int /\ f.ext \in Int
                                       /\ f.data \in Seq(Range(f.data))
                                       /\ Range(f.data) \cap Range(NoData) = {}
    /\ NestedFooter.file_table_offset > 0

VARIABLES call,        \* [files, encrypted, dictionary]
          pc,          \* the step of compress_to_archive
          disk,        \* the image in the output file
          entries,     \* file_entries
          groups,      \* groups, in table order
          results,     \* phase A: per group, the files compressed so far
          cur,         \* loop indices: group, file, block; group_first_block
          block_id_counter,
          global_chunk_idx,
          all_block_indices,
          solid_group_entries

vars == <<call, pc, disk, entries, groups, results, cur, block_id_counter,
          global_chunk_idx, all_block_indices, solid_group_entries>>

counters == <<block_id_counter, global_chunk_idx, all_block_indices>>

------------------------------------------------------------------------------
(* The data the steps handle.                                              *)

input == call.files

\* strip_prefix(base_dir).unwrap_or(path): a file outside the base directory
\* keeps the path it was named with.
StoredPath(f) ==
    IF f.under_base /\ f.path.kind \in {"absolute", "parent"}
    THEN [f.path EXCEPT !.kind = "plain"]
    ELSE f.path

\* Mutant: the last, shorter chunk is lost.
ChunksWithoutTail(data) ==
    [k \in 1 .. Len(data) \div ChunkSize |->
        SubSeq(data, (k - 1) * ChunkSize + 1, k * ChunkSize)]

\* chunk_fixed_refs: cut every ChunkSize symbols; no chunk for an empty file.
\* (FastCDC, used from MIN_CHUNK_SIZE on, also cuts the data into consecutive
\* non-empty pieces.)
Chunks(data) ==
    LET n == (Len(data) + ChunkSize - 1) \div ChunkSize
    IN  [k \in 1 .. n |->
            SubSeq(data, (k - 1) * ChunkSize + 1,
                   IF k * ChunkSize < Len(data) THEN k * ChunkSize ELSE Len(data))]

FileInfos == [i \in DOMAIN entries |->
                [type |-> input[i].type, ext |-> input[i].ext,
                 size |-> entries[i].original_size]]

ScannedSize(n) == FoldLeft(LAMBDA s, f : s + Len(f.data), 0, SubSeq(input, 1, n))

Header(blocks, ft, bi) ==
    [k |-> "header", intact |-> TRUE, encrypted |-> call.encrypted,
     dictionary |-> call.dictionary, file_count |-> Len(entries),
     solid_group_count |-> Len(groups), block_count |-> blocks,
     file_table_offset |-> ft, block_index_offset |-> bi]

\* Mutant: the placeholder counts nothing yet.
placeholder_all_zero ==
    [Header(0, 0, 0) EXCEPT !.file_count = 0, !.solid_group_count = 0]

placeholder_header == Header(0, 0, 0)

\* Where the tables start: behind the header and its optional companions.
file_table_offset == 1 + Len(Prefix(placeholder_header))
block_index_offset == file_table_offset + Len(entries) + Len(groups) + 3 * block_id_counter

\* Where step 10 rewrites the entry of file i: it seeks to file_table_pos and
\* writes the entries again in order.  Mutant: it seeks one entry too far.
FileEntryOffsetNext(i) == file_table_offset + i
FileEntryOffset(i) == file_table_offset + i - 1

\* What the router and the cipher make of a chunk.  The bytes at the end of a
\* stored chunk are the chunk's own; those of any other payload are not.
Payload(chunk, type) ==
    [k |-> "payload", data |-> chunk,
     aad |-> IF call.encrypted THEN block_id_counter ELSE 0,
     tail |-> IF /\ chunk[Len(chunk)] = NestedArchive
                 /\ type \in StoredTypes /\ ~call.encrypted
              THEN NestedFooter ELSE Absent]

\* seen_files.get(&file_key): the first file of the group so far with this
\* hash and size.
SeenBefore(g, i) ==
    {r \in Range(results[g]) : /\ r.dup_of = 0
                               /\ entries[r.file_idx].blake3_hash = entries[i].blake3_hash
                               /\ entries[r.file_idx].original_size = entries[i].original_size}

\* The blocks of the file phase B is writing, and the block it is at.
Current == results[cur.g][cur.f]
CurrentChunk == Current.blocks[cur.b]

------------------------------------------------------------------------------
Start == [g |-> 1, f |-> 1, b |-> 1, first |-> 0]

Init == /\ call \in Calls
        /\ pc = "scan"
        /\ disk = << >>
        /\ entries = << >>
        /\ groups = << >>
        /\ results = << >>
        /\ cur = Start
        /\ block_id_counter = 0
        /\ global_chunk_idx = 0
        /\ all_block_indices = << >>
        /\ solid_group_entries = << >>

Append1(rec) == disk' = Append(disk, rec)
Overwrite(o, rec) == disk' = [disk EXCEPT ![o + 1] = rec]

\* Step 1: read one file, hash it, enter it in the table.
ScanFile ==
    LET i == Len(entries) + 1 IN
    /\ pc = "scan"
    /\ i <= Len(input)
    /\ IF ScannedSize(i) > MaxTotalInput
       THEN pc' = "error" /\ UNCHANGED entries
       ELSE /\ entries' = Append(entries,
                 [k |-> "file", path |-> StoredPath(input[i]),
                  original_size |-> Len(input[i].data),
                  blake3_hash |-> input[i].data, solid_group_id |-> 0,
                  chunk_start_idx |-> 0, chunk_count |-> 0])
            /\ UNCHANGED pc
    /\ UNCHANGED <<call, disk, groups, results, cur, counters, solid_group_entries>>

\* Step 2: group the files; the group entries of step 5 are built from them.
GroupFiles ==
    /\ pc = "scan"
    /\ Len(entries) = Len(input)
    /\ pc' = "header"
    /\ \E infos \in {FileInfos} : groups' = group_files(infos)
    /\ entries' = [i \in DOMAIN entries |->
          [entries[i] EXCEPT !.solid_group_id =
              (CHOOSE g \in Range(groups') : i \in Range(g.indices)).group_id]]
    /\ solid_group_entries' =
          [g \in DOMAIN groups' |-> [k |-> "group", group_id |-> groups'[g].group_id,
                                     content_type |-> groups'[g].type,
                                     first_block_idx |-> 0, block_count |-> 0,
                                     file_count |-> Len(groups'[g].indices)]]
    /\ results' = [g \in DOMAIN groups' |-> << >>]
    /\ UNCHANGED <<call, disk, cur, counters>>

\* Step 3: the placeholder header, the encryption header, the dictionary hash.
WritePlaceholder ==
    /\ pc = "header"
    /\ Append1(placeholder_header)
    /\ pc' = "tables"
    /\ UNCHANGED <<call, entries, groups, results, cur, counters, solid_group_entries>>

WritePrefix ==
    /\ pc = "tables"
    /\ Len(disk) < file_table_offset
    /\ Append1([k |-> Prefix(placeholder_header)[Len(disk)]])
    /\ UNCHANGED <<call, pc, entries, groups, results, cur, counters, solid_group_entries>>

\* Step 4: the file table, chunk ranges still zero.
WriteFileEntry ==
    LET i == Len(disk) - file_table_offset + 1 IN
    /\ pc = "tables"
    /\ i \in DOMAIN entries
    /\ Append1(entries[i])
    /\ UNCHANGED <<call, pc, entries, groups, results, cur, counters, solid_group_entries>>

\* Step 5: the group table, block ranges still zero.
WriteGroupEntry ==
    LET g == Len(disk) - file_table_offset - Len(entries) + 1 IN
    /\ pc = "tables"
    /\ g \in DOMAIN groups
    /\ Append1(solid_group_entries[g])
    /\ UNCHANGED <<call, pc, entries, groups, results, cur, counters, solid_group_entries>>

StartPhaseA ==
    /\ pc = "tables"
    /\ Len(disk) = file_table_offset + Len(entries) + Len(groups)
    /\ pc' = "compress"
    /\ UNCHANGED <<call, disk, entries, groups, results, cur, counters, solid_group_entries>>

------------------------------------------------------------------------------
(* Step 6, phase A: the groups are compressed by pool threads, in any      *)
(* interleaving; within a group the files come one after the other.        *)

\* What compress_group pushes for file i.
CompressedFile(g, i) ==
    LET original == SeenBefore(g, i)
    IN  IF original # {}
        THEN [file_idx |-> i, blocks |-> << >>,
              dup_of |-> (CHOOSE r \in original : TRUE).file_idx]
        ELSE [file_idx |-> i, blocks |-> Chunks(input[i].data), dup_of |-> 0]

PushResult(g, i) == results' = [results EXCEPT ![g] = Append(@, CompressedFile(g, i))]

CompressFile(g) ==
    /\ pc = "compress"
    /\ Len(results[g]) < Len(groups[g].indices)
    /\ PushResult(g, groups[g].indices[Len(results[g]) + 1])
    /\ UNCHANGED <<call, pc, disk, entries, groups, cur, counters, solid_group_entries>>

\* The pool's collect returns once every group's task has, with one result each.
JoinGroups ==
    /\ pc = "compress"
    /\ \A g \in DOMAIN groups : Len(results[g]) = Len(groups[g].indices)
    /\ pc' = "blocks"
    /\ cur' = Start
    /\ UNCHANGED <<call, disk, entries, groups, results, counters, solid_group_entries>>

------------------------------------------------------------------------------
(* Step 6, phase B: sequential write, in group order.                      *)

NextFile == cur' = [cur EXCEPT !.f = @ + 1, !.b = 1]

AtFile == pc = "blocks" /\ cur.g <= Len(groups) /\ cur.f <= Len(results[cur.g])

\* A duplicate shares the block range of its original.
ShareBlocks ==
    /\ AtFile
    /\ Current.dup_of # 0
    /\ entries' = [entries EXCEPT
          ![Current.file_idx].chunk_start_idx = entries[Current.dup_of].chunk_start_idx,
          ![Current.file_idx].chunk_count = entries[Current.dup_of].chunk_count]
    /\ NextFile
    /\ UNCHANGED <<call, pc, disk, groups, results, counters, solid_group_entries>>

WriteBlockHeader ==
    /\ AtFile
    /\ Current.dup_of = 0 /\ cur.b <= Len(Current.blocks)
    /\ Append1([k |-> "bhdr", block_id |-> block_id_counter,
                solid_group_id |-> groups[cur.g].group_id,
                uncompressed_size |-> Len(CurrentChunk)])
    /\ pc' = "payload"
    /\ UNCHANGED <<call, entries, groups, results, cur, counters, solid_group_entries>>

WritePayload ==
    /\ pc = "payload"
    /\ Append1(Payload(CurrentChunk, groups[cur.g].type))
    /\ pc' = "trailer"
    /\ UNCHANGED <<call, entries, groups, results, cur, counters, solid_group_entries>>

\* Mutant: the next block gets the same id.
KeepBlockId == UNCHANGED block_id_counter
NextBlockId == block_id_counter' = block_id_counter + 1

\* The trailer, the index entry, the next block id.
WriteTrailer ==
    /\ pc = "trailer"
    /\ Append1([k |-> "btrl", content_blake3 |-> CurrentChunk])
    /\ all_block_indices' = Append(all_block_indices,
          [k |-> "index", block_id |-> block_id_counter,
           archive_offset |-> Len(disk) - 2,
           uncompressed_size |-> Len(CurrentChunk),
           solid_group_id |-> groups[cur.g].group_id])
    /\ NextBlockId
    /\ cur' = [cur EXCEPT !.b = @ + 1]
    /\ pc' = "blocks"
    /\ UNCHANGED <<call, entries, groups, results, global_chunk_idx, solid_group_entries>>

\* The chunk range of the file and global_chunk_idx += chunk_count.  (The code
\* sets the range before the file's first block; nothing reads it in between.)
EndFile ==
    /\ AtFile
    /\ Current.dup_of = 0 /\ cur.b > Len(Current.blocks)
    /\ entries' = [entries EXCEPT
          ![Current.file_idx].chunk_start_idx = global_chunk_idx,
          ![Current.file_idx].chunk_count = Len(Current.blocks)]
    /\ global_chunk_idx' = global_chunk_idx + Len(Current.blocks)
    /\ NextFile
    /\ UNCHANGED <<call, pc, disk, groups, results, block_id_counter,
                   all_block_indices, solid_group_entries>>

\* group_first_block is set anew for each group; mutant: once.
EnterGroupStale(g) == cur' = [cur EXCEPT !.g = g, !.f = 1, !.b = 1]
EnterGroup(g) == cur' = [g |-> g, f |-> 1, b |-> 1, first |-> block_id_counter]

\* After the last file of a group its entry gets its block range.
EndGroup ==
    /\ pc = "blocks"
    /\ cur.g <= Len(groups) /\ cur.f > Len(results[cur.g])
    /\ solid_group_entries' = [solid_group_entries EXCEPT
          ![cur.g].first_block_idx = cur.first,
          ![cur.g].block_count = block_id_counter - cur.first]
    /\ EnterGroup(cur.g + 1)
    /\ UNCHANGED <<call, pc, disk, entries, groups, results, counters>>

------------------------------------------------------------------------------
(* Steps 7 to 10.                                                          *)

WriteIndexEntry ==
    LET i == Len(disk) - block_index_offset + 1 IN
    /\ pc = "blocks"
    /\ cur.g > Len(groups)
    /\ i \in DOMAIN all_block_indices
    /\ Append1(all_block_indices[i])
    /\ UNCHANGED <<call, pc, entries, groups, results, cur, counters, solid_group_entries>>

WriteFooter ==
    /\ pc = "blocks"
    /\ cur.g > Len(groups)
    /\ Len(disk) = block_index_offset + Len(all_block_indices)
    /\ Append1([k |-> "footer", block_index_offset |-> block_index_offset,
                file_table_offset |-> file_table_offset,
                block_count |-> block_id_counter, file_count |-> Len(entries)])
    /\ pc' = "patch_header"
    /\ UNCHANGED <<call, entries, groups, results, cur, counters, solid_group_entries>>

final_header == Header(block_id_counter, file_table_offset, block_index_offset)

\* The header is overwritten field by field: in between, its tag is wrong.
TearHeader ==
    /\ pc = "patch_header"
    /\ disk[1].intact
    /\ Overwrite(0, [final_header EXCEPT !.intact = FALSE])
    /\ UNCHANGED <<call, pc, entries, groups, results, cur, counters, solid_group_entries>>

PatchHeader ==
    /\ pc = "patch_header"
    /\ ~disk[1].intact
    /\ Overwrite(0, final_header)
    /\ pc' = "patch_files"
    /\ cur' = Start
    /\ UNCHANGED <<call, entries, groups, results, counters, solid_group_entries>>

\* Of a file entry only two fields change, chunk_start_idx first.
PatchChunkStart ==
    LET o == FileEntryOffset(cur.f) IN
    /\ pc = "patch_files"
    /\ cur.f \in DOMAIN entries
    /\ cur.b = 1
    /\ Overwrite(o, [disk[o + 1] EXCEPT !.chunk_start_idx = entries[cur.f].chunk_start_idx])
    /\ cur' = [cur EXCEPT !.b = 2]
    /\ UNCHANGED <<call, pc, entries, groups, results, counters, solid_group_entries>>

PatchChunkCount ==
    LET o == FileEntryOffset(cur.f) IN
    /\ pc = "patch_files"
    /\ cur.f \in DOMAIN entries
    /\ cur.b = 2
    /\ Overwrite(o, entries[cur.f])
    /\ NextFile
    /\ UNCHANGED <<call, pc, entries, groups, results, counters, solid_group_entries>>

PatchGroupEntry ==
    LET o == file_table_offset + Len(entries) + cur.g - 1 IN
    /\ pc = "patch_files"
    /\ cur.f > Len(entries)
    /\ cur.g \in DOMAIN groups
    /\ Overwrite(o, solid_group_entries[cur.g])
    /\ cur' = [cur EXCEPT !.g = @ + 1]
    /\ UNCHANGED <<call, pc, entries, groups, results, counters, solid_group_entries>>

Finish ==
    /\ pc = "patch_files"
    /\ cur.f > Len(entries) /\ cur.g > Len(groups)
    /\ pc' = "done"
    /\ UNCHANGED <<call, disk, entries, groups, results, cur, counters, solid_group_entries>>

Ended == pc \in {"done", "error"}

\* A file that cannot be read, a chunk that cannot be compressed, a key that
\* cannot be derived, a write that fails: compress_to_archive returns Err and
\* leaves the output as it is.
Fail ==
    /\ ~Ended
    /\ pc' = "error"
    /\ UNCHANGED <<call, disk, entries, groups, results, cur, counters, solid_group_entries>>

Write == \/ WritePlaceholder \/ WritePrefix \/ WriteFileEntry \/ WriteGroupEntry
         \/ WriteBlockHeader \/ WritePayload \/ WriteTrailer
         \/ WriteIndexEntry \/ WriteFooter
         \/ TearHeader \/ PatchHeader \/ PatchChunkStart \/ PatchChunkCount
         \/ PatchGroupEntry

Proceed == \/ ScanFile \/ GroupFiles \/ StartPhaseA
           \/ (\E g \in DOMAIN groups : CompressFile(g))
           \/ JoinGroups \/ ShareBlocks \/ EndFile \/ EndGroup \/ Finish
           \/ Write

Next == Proceed \/ Fail

Spec == Init /\ [][Next]_vars

------------------------------------------------------------------------------
(* Properties of the writer as its readers see it.                         *)

\* What is to be archived.
Files == {<<StoredPath(input[i]), input[i].data>> : i \in DOMAIN input}

Complete == [ok |-> TRUE, written |-> Files]

\* The writer's loops stay within the tables they index, and what they have
\* written has the shape the readers parse.
TypeOK ==
    /\ call \in Calls
    /\ Len(entries) <= Len(input)
    /\ \A i \in DOMAIN disk : disk[i].k \in Kinds
    /\ block_id_counter = Len(all_block_indices)
    /\ Len(results) = Len(groups) /\ Len(solid_group_entries) = Len(groups)

\* Splitting and flushing lose no file and duplicate none: every file of the
\* call is in exactly one solid group (only files found in a group are
\* written, so a lost index would be a lost file), of its content type.
GroupsPartitionFiles == pc \notin {"scan", "error"} => Partitions(groups, FileInfos)

\* A group never grows past MAX_SOLID_GROUP_SIZE unless it is one single file
\* that is larger by itself, and it is never flushed early.
GroupSizeBound == pc \notin {"scan", "error"} => WithinBound(groups, FileInfos)

\* Crash safety: whatever moment the output file is read at - while it is
\* written, after a failed or killed run - both extractors write no file
\* content that was not in the input, and report success only with every
\* input file extracted.  compress_to_archive writes the real file in place,
\* so this rests on the placeholder header, the footer and the file hashes.
CrashSafe ==
    \A outcome \in {extract_all(disk), extract_all_streaming(disk)} :
       /\ outcome.written \subseteq Files
       /\ outcome.ok => outcome.written = Files

\* The same for extract_file, which looks at no other file's blocks.
SingleFileSafe ==
    \A i \in DOMAIN input :
       extract_file(disk, StoredPath(input[i])) \in {NoData, input[i].data}

\* read_metadata (and so list and verify) accepts no image before all blocks
\* are in it, not even one that ends with the footer of an .aet archive that
\* is itself being archived.
AcceptedHasAllBlocks ==
    MetadataOk(disk) => /\ disk[Len(disk)].k = "footer"
                        /\ BlocksOk(DecodedIndex(disk))
                        /\ DecodedIndex(disk) = DecodedStream(disk)

\* verify never passes an image that extract_all would not extract completely.
VerifySound == verify(disk) => extract_all(disk) = Complete

\* An archive the compressor finished is read back completely by every
\* reader, at the size limits too.
FinishedReadsBack ==
    pc = "done" => /\ extract_all(disk) = Complete
                   /\ extract_all_streaming(disk) = Complete
                   /\ verify(disk) /\ verify_streaming(disk)
                   /\ \A i \in DOMAIN input :
                         extract_file(disk, StoredPath(input[i])) = input[i].data

\* "the byte layout is reproducible regardless of thread scheduling": the
\* blocks of a finished archive are the chunks of the groups in order, each
\* distinct file of a group once, whatever order the pool compressed them in;
\* and the group table describes them.
GroupMembers(g) == groups[g].indices
FirstInGroup(g, k) ==
    \A j \in 1 .. k - 1 : input[GroupMembers(g)[j]].data # input[GroupMembers(g)[k]].data

ExpectedOfGroup(g) ==
    FlattenSeq([k \in DOMAIN GroupMembers(g) |->
                  IF FirstInGroup(g, k) THEN Chunks(input[GroupMembers(g)[k]].data) ELSE << >>])

LayoutReproducible ==
    pc = "done" =>
       /\ DecodedStream(disk) = FlattenSeq([g \in DOMAIN groups |-> ExpectedOfGroup(g)])
       /\ \A g \in DOMAIN groups :
             LET rec == disk[file_table_offset + Len(entries) + g] IN
             /\ rec.block_count = Len(ExpectedOfGroup(g))
             /\ \A b \in 1 .. block_id_counter :
                   (b \in rec.first_block_idx + 1 .. rec.first_block_idx + rec.block_count)
                   <=> (BlockIndex(disk, LastFooter(disk))[b].solid_group_id = rec.group_id)

\* Patching in place overwrites header and table records only, each by one of
\* its own kind: a wrong seek would destroy a block or the index.
PatchKeepsBlocks ==
    [][/\ Len(disk') >= Len(disk)
       /\ \A i \in DOMAIN disk :
             /\ disk'[i].k = disk[i].k
             /\ disk[i].k \notin {"header", "file", "group"} => disk'[i] = disk[i]
             /\ disk[i].k = "file" => /\ disk'[i].path = disk[i].path
                                      /\ disk'[i].blake3_hash = disk[i].blake3_hash]_vars

------------------------------------------------------------------------------
\* What the documentation says of verification over a pipe: `aet verify`
\* checks "all integrity levels", the reassembled files among them
\* (docs/PREDICTORS.md, README "Verify Integrity").
StreamingVerifySound == verify_streaming(disk) => extract_all_streaming(disk) = Complete

\* FileEntry::path is documented as the relative path of the file within the
\* archive (header.rs), and FileEntry::read_from refuses any other.
FinishedPathsRelative ==
    pc = "done" => \A i \in DOMAIN entries : PathParses(entries[i].path)
==============================================================================
