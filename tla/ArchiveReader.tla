---------------------------- MODULE ArchiveReader ----------------------------
(***************************************************************************)
(* The .aet container as its readers see it: header.rs, block.rs and the   *)
(* read paths of pipeline/decompress*.rs.                                  *)
(*                                                                         *)
(* An image is the content of an archive file: the sequence of the records *)
(* written so far.  Every record is one unit long, so an offset is the     *)
(* number of records before it; the record at offset o is img[o + 1].      *)
(* Contents are sequences of symbols.  A BLAKE3 hash is the content it is  *)
(* taken of (no collisions), a CRC or tag is the flag "intact" of the      *)
(* record it protects.  Errors are not told apart: a reader either accepts *)
(* or refuses.                                                             *)
(***************************************************************************)
EXTENDS Integers, Sequences, FiniteSets, SequencesExt

CONSTANTS MaxFileCount,            \* MAX_FILE_COUNT
          MaxBlockCount,           \* MAX_BLOCK_COUNT
          MaxSolidGroupCount,      \* MAX_SOLID_GROUP_COUNT
          MaxTotalDecompressed     \* MAX_TOTAL_DECOMPRESSED_SIZE

ASSUME ReaderLimitsAssumption ==
    /\ MaxFileCount \in Nat
    /\ MaxBlockCount \in Nat
    /\ MaxSolidGroupCount \in Nat
    /\ MaxTotalDecompressed \in Nat

Kinds == {"header", "enc", "dict", "file", "group",
          "bhdr", "payload", "btrl", "index", "footer"}

Absent == [k |-> "absent"]

\* The record at offset o; reading past the end is an error.
At(img, o) == IF o \in 0 .. Len(img) - 1 THEN img[o + 1] ELSE Absent

IsAt(img, o, kind) == At(img, o).k = kind

------------------------------------------------------------------------------
(* Paths.  A path is a record [name, kind]: what the checks tell apart.    *)

PathKinds == {"plain",      \* relative, no special component
              "absolute",   \* starts with a separator
              "parent",     \* has a ".." component
              "reserved",   \* CON, aux.h, COM1 ..., or a trailing dot or space
              "long"}       \* more than MAX_PATH_LENGTH bytes

\* FileEntry::read_from (and read_prefixed, which reuses it).
PathParses(p) == p.kind \notin {"absolute", "parent", "long"}

\* validate_extraction_path, called when the file is written.
validate_extraction_path(p) == p.kind = "plain"

------------------------------------------------------------------------------
(* Header, tables and footer.                                              *)

\* ArchiveHeader::read_from: magic, integrity tag, count limits.
HeaderOk(img) ==
    /\ IsAt(img, 0, "header")
    /\ At(img, 0).intact
    /\ At(img, 0).file_count <= MaxFileCount
    /\ At(img, 0).block_count <= MaxBlockCount
    /\ At(img, 0).solid_group_count <= MaxSolidGroupCount

Prefix(h) == (IF h.encrypted THEN <<"enc">> ELSE << >>)
             \o (IF h.dictionary THEN <<"dict">> ELSE << >>)

\* The optional encryption header and dictionary hash follow the header.
PrefixOk(img) ==
    \A i \in DOMAIN Prefix(At(img, 0)) : IsAt(img, i, Prefix(At(img, 0))[i])

\* file_count entries from offset ft, then solid_group_count group entries.
TablesOk(img, h, ft) ==
    /\ \A i \in 0 .. h.file_count - 1 :
          IsAt(img, ft + i, "file") /\ PathParses(At(img, ft + i).path)
    /\ \A i \in 0 .. h.solid_group_count - 1 :
          IsAt(img, ft + h.file_count + i, "group")

FileTable(img, h, ft) == [i \in 1 .. h.file_count |-> At(img, ft + i - 1)]

\* The last bytes of the image, read as a footer.  They are the footer once
\* it is written; before that they can still parse as one when they are the
\* tail of a block that stores an .aet archive uncompressed.
LastFooter(img) ==
    LET last == At(img, Len(img) - 1) IN
    IF last.k = "footer" THEN last
    ELSE IF last.k = "payload" THEN last.tail
    ELSE Absent

BlockIndex(img, f) ==
    [i \in 1 .. f.block_count |-> At(img, f.block_index_offset + i - 1)]

\* Mutant: only the counts are compared.
HeaderCountsMatchFooter(h, f) ==
    h.file_count = f.file_count /\ h.block_count = f.block_count

\* The redundant fields of header and footer agree.
HeaderMatchesFooter(h, f) ==
    /\ h.file_count = f.file_count
    /\ h.block_count = f.block_count
    /\ h.file_table_offset = f.file_table_offset
    /\ h.block_index_offset = f.block_index_offset

\* read_metadata succeeds.
MetadataOk(img) ==
    LET f == LastFooter(img)
        h == At(img, 0)
    IN  /\ f.k = "footer"
        /\ f.file_count <= MaxFileCount
        /\ f.block_count <= MaxBlockCount
        /\ HeaderOk(img)
        /\ PrefixOk(img)
        /\ HeaderMatchesFooter(h, f)
        /\ f.file_table_offset < Len(img)
        /\ f.block_index_offset < Len(img)
        /\ f.block_index_offset + f.block_count <= Len(img)
        /\ TablesOk(img, h, f.file_table_offset)
        /\ \A i \in 1 .. f.block_count :
              IsAt(img, f.block_index_offset + i - 1, "index")
        /\ \A i, j \in 1 .. f.block_count :
              BlockIndex(img, f)[i].block_id = BlockIndex(img, f)[j].block_id => i = j

\* read_metadata_streaming succeeds.
MetadataOkStreaming(img) ==
    /\ HeaderOk(img)
    /\ PrefixOk(img)
    /\ TablesOk(img, At(img, 0), 1 + Len(Prefix(At(img, 0))))

------------------------------------------------------------------------------
(* Blocks.                                                                 *)

NoData == <<"no_data">>

\* Opening a payload: an encrypted one is bound to its block id (AAD), a
\* plain one is not.
Opens(h, bh, p) == h.encrypted => p.aad = bh.block_id

\* Header, payload and trailer at offset o, decoded and checked against the
\* trailer: decompress_block_streaming, and the second half of
\* decompress_block.
DecodeAt(img, o) ==
    LET bh == At(img, o)
        p  == At(img, o + 1)
        tr == At(img, o + 2)
    IN  IF /\ bh.k = "bhdr" /\ p.k = "payload" /\ tr.k = "btrl"
           /\ Opens(At(img, 0), bh, p)
           /\ Len(p.data) = bh.uncompressed_size
           /\ p.data = tr.content_blake3
        THEN p.data
        ELSE NoData

\* validate_block_header: the block header agrees with its index entry.
validate_block_header(bh, e) ==
    /\ bh.block_id = e.block_id
    /\ bh.uncompressed_size = e.uncompressed_size
    /\ bh.solid_group_id = e.solid_group_id

\* decompress_block / read_raw_block + decompress_raw_block.
decompress_block(img, e) ==
    IF /\ IsAt(img, e.archive_offset, "bhdr")
       /\ validate_block_header(At(img, e.archive_offset), e)
    THEN DecodeAt(img, e.archive_offset)
    ELSE NoData

DecodedIndex(img) ==
    [i \in 1 .. LastFooter(img).block_count |->
        decompress_block(img, BlockIndex(img, LastFooter(img))[i])]

\* The streaming reader knows no index: block_count blocks one after the
\* other behind the group table.
FirstBlock(img) ==
    LET h == At(img, 0) IN 1 + Len(Prefix(h)) + h.file_count + h.solid_group_count

DecodedStream(img) ==
    [i \in 1 .. At(img, 0).block_count |-> DecodeAt(img, FirstBlock(img) + 3 * (i - 1))]

Total(blocks) == FoldLeft(LAMBDA n, b : n + Len(b), 0, blocks)

\* All blocks decode and their sizes stay under the cumulative limit.
BlocksOk(blocks) ==
    /\ \A i \in DOMAIN blocks : blocks[i] # NoData
    /\ Total(blocks) <= MaxTotalDecompressed

------------------------------------------------------------------------------
(* Files.                                                                  *)

\* file_block_range + reassemble_file_* + truncate_to_file_size: the blocks
\* chunk_start_idx .. + chunk_count - 1 joined and cut to original_size.
\* (Which of them are moved and which are copied is in module Extraction.)
Reassemble(e, blocks) ==
    LET range == e.chunk_start_idx + 1 .. e.chunk_start_idx + e.chunk_count
        parts == [i \in 1 .. e.chunk_count |-> blocks[e.chunk_start_idx + i]]
        whole == FlattenSeq(parts)
    IN  IF e.chunk_count = 0 THEN << >>
        ELSE IF ~ range \subseteq DOMAIN blocks THEN NoData
        ELSE IF \E i \in range : blocks[i] = NoData THEN NoData
        ELSE SubSeq(whole, 1, IF Len(whole) < e.original_size
                              THEN Len(whole) ELSE e.original_size)

\* Mutant: the hash of the file is not compared.
FileUnchecked(e, blocks) == Reassemble(e, blocks) # NoData

\* The file reassembles to the content its entry was hashed from.
FileIntact(e, blocks) == Reassemble(e, blocks) = e.blake3_hash

\* Outcome of an extraction: whether it returned Ok, and the files it wrote.
\* Files are written one by one in table order up to the first failure.
Refused == [ok |-> FALSE, written |-> {}]

ExtractFiles(table, blocks) ==
    LET Good(i) == FileIntact(table[i], blocks) /\ validate_extraction_path(table[i].path)
        upto == {i \in DOMAIN table : \A j \in 1 .. i : Good(j)}
    IN  [ok |-> upto = DOMAIN table,
         written |-> {<<table[i].path, Reassemble(table[i], blocks)>> : i \in upto}]

extract_all(img) ==
    IF MetadataOk(img) /\ BlocksOk(DecodedIndex(img))
    THEN ExtractFiles(FileTable(img, At(img, 0), LastFooter(img).file_table_offset),
                      DecodedIndex(img))
    ELSE Refused

extract_all_streaming(img) ==
    IF MetadataOkStreaming(img) /\ BlocksOk(DecodedStream(img))
    THEN ExtractFiles(FileTable(img, At(img, 0), 1 + Len(Prefix(At(img, 0)))),
                      DecodedStream(img))
    ELSE Refused

\* extract_file: only the blocks of the first entry with that path, so a
\* damaged block of another file does not matter.
extract_file(img, path) ==
    LET table == FileTable(img, At(img, 0), LastFooter(img).file_table_offset)
        found == {i \in DOMAIN table : table[i].path = path}
        entry == table[CHOOSE i \in found : \A j \in found : i <= j]
        used  == [i \in 1 .. entry.chunk_count |->
                    DecodedIndex(img)[entry.chunk_start_idx + i]]
    IN  IF /\ MetadataOk(img) /\ found # {}
           /\ FileIntact(entry, DecodedIndex(img))
           /\ Total(used) <= MaxTotalDecompressed
        THEN Reassemble(entry, DecodedIndex(img))
        ELSE NoData

\* Mutant: the blocks are verified and the files are not.
VerifyBlocksOnly(img) ==
    MetadataOk(img) /\ \A i \in DOMAIN DecodedIndex(img) : DecodedIndex(img)[i] # NoData

\* verify returns a result with no corrupted block: every block decodes, and
\* then every file reassembles to its hash.
verify(img) ==
    /\ MetadataOk(img)
    /\ \A i \in DOMAIN DecodedIndex(img) : DecodedIndex(img)[i] # NoData
    /\ LET table == FileTable(img, At(img, 0), LastFooter(img).file_table_offset)
       IN  \A i \in DOMAIN table : FileIntact(table[i], DecodedIndex(img))

\* verify_streaming returns a result with no corrupted block: it checks the
\* blocks the header counts, and no file.  (It compares the hash of a block
\* without comparing its size first; the hash covers the size.)
verify_streaming(img) ==
    /\ MetadataOkStreaming(img)
    /\ \A i \in DOMAIN DecodedStream(img) : DecodedStream(img)[i] # NoData
==============================================================================
