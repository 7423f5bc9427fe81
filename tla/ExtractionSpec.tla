--------------------------- MODULE ExtractionSpec ---------------------------
(***************************************************************************)
(* What extract_all promises its caller, whatever path decodes the blocks  *)
(* and in whatever order: the files are written in table order, each with  *)
(* exactly the blocks its entry names and only if they match its hash; it  *)
(* succeeds only after the last of them; and it fails only for a reason -  *)
(* a block that does not read or decode (then nothing was written), a file *)
(* that does not check out, or a resource limit met before any file.       *)
(***************************************************************************)
EXTENDS Integers, Sequences

CONSTANTS Archives, MaxBlockSize

VARIABLES archive, status, written

vars == <<archive, status, written>>

GoodBlock(b) == /\ b.readable /\ b.decodes
                /\ b.stored <= MaxBlockSize /\ b.size <= MaxBlockSize

AllBlocksGood == \A i \in 1 .. Len(archive.index) : GoodBlock(archive.index[i])

\* The content of an entry: the blocks of its range, cut to its size.
Content(e) ==
    [k \in 1 .. (IF e.chunk_count > e.original_size THEN e.original_size ELSE e.chunk_count) |->
        e.chunk_start_idx + k]

Extractable(e) ==
    /\ e.chunk_count = 0 \/ e.chunk_start_idx + e.chunk_count <= Len(archive.index)
    /\ Content(e) = e.blake3_hash
    /\ e.writable

Init == archive \in Archives /\ status = "running" /\ written = << >>

NextFile == archive.files[Len(written) + 1]

WriteFile == /\ status = "running"
             /\ AllBlocksGood
             /\ Len(written) < Len(archive.files)
             /\ Extractable(NextFile)
             /\ written' = Append(written, Content(NextFile))
             /\ UNCHANGED <<archive, status>>

Succeed == /\ status = "running"
           /\ AllBlocksGood
           /\ Len(written) = Len(archive.files)
           /\ status' = "ok"
           /\ UNCHANGED <<archive, written>>

Fail == /\ status = "running"
        /\ \/ ~AllBlocksGood /\ written = << >>
           \/ Len(written) < Len(archive.files) /\ ~Extractable(NextFile)
        /\ status' = "failed"
        /\ UNCHANGED <<archive, written>>

OverLimit == /\ status = "running"
             /\ written = << >>
             /\ status' = "failed"
             /\ UNCHANGED <<archive, written>>

Next == WriteFile \/ Succeed \/ Fail \/ OverLimit

Spec == Init /\ [][Next]_vars
==============================================================================
