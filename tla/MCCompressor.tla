---------------------------- MODULE MCCompressor ----------------------------
(***************************************************************************)
(* The archive writer and its readers on small file lists.                 *)
(***************************************************************************)
EXTENDS Compressor

CONSTANTS MCFullFiles,     \* bound on the lists taken over all contents
          MCLongFiles,     \* bound on the lists taken over two contents
          MCSealedFiles    \* bound on the lists compressed with encryption

NamedFile(i, kind, under, d, t) ==
    [path |-> [name |-> i, kind |-> kind], under_base |-> under,
     data |-> d, type |-> t, ext |-> 1]

Texts == {<<"a">>, <<"a", "b", "a">>}
AllContents == Texts \cup {<< >>, <<"a", "b", "a", "z">>}

Lists(n, contents) ==
    {[i \in 1 .. n |-> NamedFile(i, "plain", TRUE, c[i][1], c[i][2])] :
        c \in [1 .. n -> contents \X {0, 3}]}

\* One content type, two extensions: the order within a bucket matters.
Buckets(n) ==
    {[i \in 1 .. n |-> [NamedFile(i, "plain", TRUE, c[i][1], 0) EXCEPT !.ext = c[i][2]]] :
        c \in [1 .. n -> Texts \X {1, 2}]}

Plain(files) == [files |-> files, encrypted |-> FALSE, dictionary |-> FALSE]
Sealed(files, d) == [files |-> files, encrypted |-> TRUE, dictionary |-> d]

\* Files of a text type (0) and of a type that is stored (3); "z" is the tail
\* of an .aet archive.  Duplicates, empty files and lists at the total size
\* limit and above it are among them.
MCCalls ==
    {Plain(l) : l \in (UNION {Lists(n, AllContents) : n \in 0 .. MCFullFiles})
                      \cup (UNION {Lists(n, Texts) : n \in 0 .. MCLongFiles})
                      \cup Buckets(MCLongFiles)}
    \cup {Sealed(l, d) : l \in UNION {Lists(n, Texts) : n \in 0 .. MCSealedFiles},
                         d \in BOOLEAN}

\* Files named from a directory other than the first one's.
MCOutsideCalls ==
    {Plain(<<NamedFile(1, "plain", TRUE, d, 0), NamedFile(2, kind, under, e, 0)>>) :
        kind \in {"plain", "absolute", "parent"}, under \in BOOLEAN,
        d \in Texts, e \in Texts}

MCStored == {3}

\* A nested archive with as many files as the outer one and no blocks.
MCNestedFooter == [k |-> "footer", block_index_offset |-> 3, file_table_offset |-> 1,
                   block_count |-> 0, file_count |-> 1]
==============================================================================
