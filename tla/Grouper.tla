------------------------------- MODULE Grouper -------------------------------
(***************************************************************************)
(* Semantic solid grouping (aether-core/src/grouper.rs).                   *)
(*                                                                         *)
(* group_files is a pure function from the scanned files to the solid      *)
(* groups.  A file is a record [type, ext, size]: its content type and the *)
(* rank of its extension are numbers (the code only compares them), its    *)
(* size is a count of bytes.  The recommended compression method of a      *)
(* group does not influence the grouping and is left out.                  *)
(***************************************************************************)
EXTENDS Integers, Sequences, FiniteSets, SequencesExt

CONSTANT MaxSolidGroupSize      \* MAX_SOLID_GROUP_SIZE

ASSUME MaxSolidGroupSizeAssumption == MaxSolidGroupSize \in Nat \ {0}

\* The order sort_by leaves a bucket in: extension, then size; the sort is
\* stable, so files that compare equal keep their position in the input.
Before(files, i, j) ==
    \/ files[i].ext < files[j].ext
    \/ /\ files[i].ext = files[j].ext
       /\ \/ files[i].size < files[j].size
          \/ files[i].size = files[j].size /\ i < j

\* The elements of S from the least on.
Sorted(S, Less(_, _)) ==
    [k \in 1 .. Cardinality(S) |->
        CHOOSE x \in S : Cardinality({y \in S : Less(y, x)}) = k - 1]

\* One bucket per content type, sorted.
Bucket(files, t) ==
    Sorted({i \in DOMAIN files : files[i].type = t}, LAMBDA i, j : Before(files, i, j))

\* Mutant: a group is closed as soon as it would reach the limit.
MustFlushAtLimit(open, file) ==
    open.indices # << >> /\ open.total + file.size >= MaxSolidGroupSize

\* The group being filled is full for the next file.  A group that is still
\* empty takes any file.
MustFlush(open, file) ==
    open.indices # << >> /\ open.total + file.size > MaxSolidGroupSize

Flush(acc) ==
    Append(acc.groups, [group_id |-> Len(acc.groups), type |-> acc.open.type,
                        indices |-> acc.open.indices, total |-> acc.open.total])

OpenGroup(t) == [type |-> t, indices |-> << >>, total |-> 0]

\* Mutant: the full group is flushed and not emptied.
PlaceFileUnemptied(files, acc, i) ==
    LET room == IF MustFlush(acc.open, files[i]) THEN [acc EXCEPT !.groups = Flush(acc)] ELSE acc
    IN  [room EXCEPT !.open.indices = Append(@, i), !.open.total = @ + files[i].size]

\* The loop body over one bucket.
PlaceFile(files, acc, i) ==
    LET room == IF MustFlush(acc.open, files[i])
                THEN [groups |-> Flush(acc), open |-> OpenGroup(files[i].type)]
                ELSE acc
    IN  [room EXCEPT !.open.indices = Append(@, i), !.open.total = @ + files[i].size]

PlaceBucket(files, groups, t) ==
    LET filled == FoldLeft(LAMBDA acc, i : PlaceFile(files, acc, i),
                           [groups |-> groups, open |-> OpenGroup(t)],
                           Bucket(files, t))
    IN  IF filled.open.indices = << >> THEN filled.groups ELSE Flush(filled)

\* The buckets are visited in the order of their numeric content type.
group_files(files) ==
    FoldLeft(LAMBDA groups, t : PlaceBucket(files, groups, t), << >>,
             Sorted({files[i].type : i \in DOMAIN files}, <))

------------------------------------------------------------------------------
(* What a group table has to be for its files.                             *)

Members(g) == Range(g.indices)

TotalSize(files, indices) == FoldLeft(LAMBDA s, i : s + files[i].size, 0, indices)

\* Every file is in exactly one group, its group has its type, and the group
\* ids are the positions in the table.
Partitions(groups, files) ==
    /\ \A i \in DOMAIN files : Cardinality({k \in DOMAIN groups : i \in Members(groups[k])}) = 1
    /\ \A k \in DOMAIN groups :
          /\ groups[k].group_id = k - 1
          /\ Len(groups[k].indices) = Cardinality(Members(groups[k]))
          /\ \A i \in Members(groups[k]) :
                i \in DOMAIN files /\ files[i].type = groups[k].type

\* A group is within the limit unless it holds one single file, and the first
\* file of the next group of its type would not have fitted.
WithinBound(groups, files) ==
    \A k \in DOMAIN groups :
       /\ groups[k].total = TotalSize(files, groups[k].indices)
       /\ groups[k].total <= MaxSolidGroupSize \/ Len(groups[k].indices) = 1
       /\ (k < Len(groups) /\ groups[k + 1].type = groups[k].type) =>
             groups[k].total + files[groups[k + 1].indices[1]].size > MaxSolidGroupSize
==============================================================================
