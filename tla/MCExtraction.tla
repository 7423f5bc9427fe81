---------------------------- MODULE MCExtraction ----------------------------
(***************************************************************************)
(* Extraction of small archives: shared, repeated, overlapping and invalid *)
(* ranges, damaged blocks, and sizes at the limits.                        *)
(***************************************************************************)
EXTENDS Extraction

CONSTANTS MCBlocks,      \* bound on the number of blocks
          MCOverhead,    \* header and trailer of a block (64 bytes)
          MCTag          \* what encryption adds to a payload

Block(stored, tag, size, readable, decodes) ==
    [claimed |-> stored + MCOverhead, stored |-> stored, payload |-> stored - tag,
     size |-> size, readable |-> readable, decodes |-> decodes]

Good == Block(2, 0, 1, TRUE, TRUE)

\* The blocks the runs combine: plain, large, well compressed, encrypted, too
\* large, and the two kinds of damage, found when the block is read or when it
\* is decoded.
BlockKinds == {Good, Block(4, 0, 2, TRUE, TRUE), Block(2, 0, 3, TRUE, TRUE),
               Block(1 + MCTag, MCTag, 1, TRUE, TRUE),
               Block(MaxBlockSize + 1, 0, 1, TRUE, TRUE),
               Block(2, 0, 1, FALSE, TRUE), Block(2, 0, 1, TRUE, FALSE)}

Run(start, n) == [k \in 1 .. n |-> start + k]

File(start, n, size, hash, w) ==
    [chunk_start_idx |-> start, chunk_count |-> n, original_size |-> size,
     blake3_hash |-> hash, writable |-> w]

Honest(start, n) == File(start, n, n, Run(start, n), TRUE)

\* The ranges an archive of MCBlocks blocks may hold, also one past its end.
Ranges == {r \in (0 .. MCBlocks) \X (0 .. MCBlocks) : r[1] + r[2] <= MCBlocks + 1}

\* Three files with any ranges, duplicates and overlaps among them; and, behind
\* a file with any range, one that is truncated, has the hash of another file,
\* or is refused by the file system.
FileTables ==
    {<<Honest(r[1], r[2]), Honest(s[1], s[2]), Honest(0, 2)>> : r \in Ranges, s \in Ranges}
    \cup {<<Honest(r[1], r[2]), f>> :
             r \in Ranges,
             f \in {File(0, 2, 1, <<1>>, TRUE), File(1, 1, 1, <<1>>, TRUE),
                    File(1, 1, 1, <<2>>, FALSE)}}

Indexes == UNION {[1 .. n -> BlockKinds] : n \in 0 .. MCBlocks}
GoodIndex == [i \in 1 .. MCBlocks |-> Good]

\* Every table over intact blocks, and every index with one table.
MCArchives ==
    {[index |-> GoodIndex, files |-> t] : t \in FileTables}
    \cup {[index |-> x, files |-> <<Honest(0, 1), Honest(0, 1)>>] : x \in Indexes}

------------------------------------------------------------------------------
\* Every extraction ends, whatever order the pool runs the tasks in.
Ends == <>(pc \in {"done", "error"})

------------------------------------------------------------------------------
\* "Both read paths must apply exactly the same checks: an archive that one
\* path rejects and the other accepts is a security hole" (validate_block_header),
\* and the parallel path limits the compressed bytes "matching sequential path":
\* an archive that is extracted by either seekable path stays within the limit
\* as the sequential path counts it.
ReadLimitMatches ==
    (pc = "done" /\ mode \in {"parallel", "sequential"}) =>
        Total([i \in Blocks |-> index[i].claimed]) <= MaxTotalCompressedRead
==============================================================================
