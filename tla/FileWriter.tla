----------------------------- MODULE FileWriter -----------------------------
(***************************************************************************)
(* write_validated_file (pipeline/decompress.rs): one extracted file goes  *)
(* to its place by a temporary file and a rename.  Several calls, of one   *)
(* extraction or of several processes, work in the same output directory;  *)
(* every call of the operating system is a step, a call may fail, and a    *)
(* process may die between two of them.                                    *)
(*                                                                         *)
(* A path is a sequence of components below the output directory.  A node  *)
(* is a record with field k: "none", "dir", "link" (a symbolic link to     *)
(* something), "dangling" (a symbolic link to nothing) or "file", with the *)
(* writer its data is from.  Nobody else changes the directory meanwhile,  *)
(* and writers remove nothing but their own temporary files.  Permissions  *)
(* and modification times are left out.                                    *)
(***************************************************************************)
EXTENDS Integers, Sequences, FiniteSets

CONSTANTS Writers,
          Others,       \* who else the files in the output directory are from
          Component,    \* the components of paths
          Target,       \* the path each writer is called with
          NoClobber,    \* the writers with no_clobber set
          Trees         \* what the output directory may hold at first

Prefixes(p) == {SubSeq(p, 1, n) : n \in 1 .. Len(p)}
Paths == UNION {Prefixes(Target[w]) : w \in Writers}

\* What may be at a path before the calls: a file there is a complete one and
\* comes from somebody else.
FoundNode == [k : {"none", "dir", "link", "dangling"}]
             \cup [k : {"file"}, by : Others, whole : {TRUE}]

ASSUME FileWriterAssumption ==
    /\ NoClobber \subseteq Writers
    /\ Others \cap Writers = {}
    /\ \A w \in Writers : Target[w] \in Seq(Component) \ {<< >>}
    /\ Trees \subseteq [Paths -> FoundNode]

VARIABLES fs,       \* the node at each path
          pc,       \* where each call is
          depth,    \* the path component it is at
          tmp       \* its temporary file: "none", "part" or "whole"

vars == <<fs, pc, depth, tmp>>

Dir == [k |-> "dir"]

\* Path::exists follows links.
Exists(p) == fs[p].k \notin {"none", "dangling"}

\* Mutant: links are not told from files.
LinkUnseen(p) == FALSE
IsLink(p) == fs[p].k = "link"

Here(w) == SubSeq(Target[w], 1, depth[w])
Ended(w) == pc[w] \in {"ok", "refused", "failed", "dead"}

Init == /\ fs \in Trees
        /\ pc = [w \in Writers |-> "parent"]
        /\ depth = [w \in Writers |-> 1]
        /\ tmp = [w \in Writers |-> "none"]

Goto(w, label) == pc' = [pc EXCEPT ![w] = label]

\* Mutant: the temporary file is kept.
KeepTemp(w) == UNCHANGED tmp
DropTemp(w) == tmp' = [tmp EXCEPT ![w] = "none"]

\* Return Err; dropping a NamedTempFile removes the file.
Return(w, label) == Goto(w, label) /\ DropTemp(w) /\ UNCHANGED <<fs, depth>>

Refuse(w) == Return(w, "refused")

\* Mutant: a component is skipped.
SkipComponent(w) == /\ depth' = [depth EXCEPT ![w] = @ + 2]
                    /\ Goto(w, "parent")
NextComponent(w) == /\ depth' = [depth EXCEPT ![w] = @ + 1]
                    /\ Goto(w, "parent")

------------------------------------------------------------------------------
\* The loop over the parent directories: an existing component must be a real
\* directory; a missing one is created in the next step.
CheckParent(w) ==
    /\ pc[w] = "parent"
    /\ depth[w] < Len(Target[w])
    /\ IF ~Exists(Here(w))
       THEN Goto(w, "mkdir") /\ UNCHANGED <<fs, depth, tmp>>
       ELSE IF fs[Here(w)] # Dir THEN Refuse(w)
       ELSE NextComponent(w) /\ UNCHANGED <<fs, tmp>>

\* Mutant: somebody else's directory is an error.
AlreadyThereFails(p) == FALSE
AlreadyThere(p) == fs[p] = Dir

\* create_dir; when somebody else was faster, it must be a directory.
CreateDir(w) ==
    /\ pc[w] = "mkdir"
    /\ IF fs[Here(w)].k = "none"
       THEN fs' = [fs EXCEPT ![Here(w)] = Dir] /\ NextComponent(w) /\ UNCHANGED tmp
       ELSE IF AlreadyThere(Here(w))
       THEN NextComponent(w) /\ UNCHANGED <<fs, tmp>>
       ELSE Refuse(w)

\* The no_clobber check, then the check that the target is no link.
CheckTarget(w) ==
    /\ pc[w] = "parent"
    /\ depth[w] = Len(Target[w])
    /\ IF (w \in NoClobber /\ Exists(Target[w])) \/ IsLink(Target[w])
       THEN Refuse(w)
       ELSE Goto(w, "create") /\ UNCHANGED <<fs, depth, tmp>>

\* Mutant: the data is still in a buffer when the file is renamed.
CreateTempUnwritten(w) ==
    /\ pc[w] = "create"
    /\ tmp' = [tmp EXCEPT ![w] = "part"]
    /\ Goto(w, "recheck")
    /\ UNCHANGED <<fs, depth>>

CreateTemp(w) ==
    /\ pc[w] = "create"
    /\ tmp' = [tmp EXCEPT ![w] = "part"]
    /\ Goto(w, "write")
    /\ UNCHANGED <<fs, depth>>

WriteTemp(w) ==
    /\ pc[w] = "write"
    /\ tmp' = [tmp EXCEPT ![w] = "whole"]
    /\ Goto(w, "recheck")
    /\ UNCHANGED <<fs, depth>>

\* The second look at the target.
Recheck(w) ==
    /\ pc[w] = "recheck"
    /\ IF IsLink(Target[w]) THEN Refuse(w)
       ELSE Goto(w, "persist") /\ UNCHANGED <<fs, depth, tmp>>

\* persist renames over whatever file is there; a directory is not replaced.
Persist(w) ==
    /\ pc[w] = "persist"
    /\ IF fs[Target[w]] = Dir THEN Refuse(w)
       ELSE /\ fs' = [fs EXCEPT ![Target[w]] =
                        [k |-> "file", by |-> w, whole |-> tmp[w] = "whole"]]
            /\ DropTemp(w)
            /\ Goto(w, "ok")
            /\ UNCHANGED depth

\* A call of the operating system fails.
Fail(w) == ~Ended(w) /\ Return(w, "failed")

\* The process dies; its temporary file stays.
Die(w) == /\ ~Ended(w)
          /\ Goto(w, "dead")
          /\ UNCHANGED <<fs, depth, tmp>>

Step(w) == \/ CheckParent(w) \/ CreateDir(w) \/ CheckTarget(w) \/ CreateTemp(w)
           \/ WriteTemp(w) \/ Recheck(w) \/ Persist(w)

Next == \E w \in Writers : Step(w) \/ Fail(w) \/ Die(w)

Spec == Init /\ [][Next]_vars

------------------------------------------------------------------------------
(* Properties.                                                             *)

Labels == {"parent", "mkdir", "create", "write", "recheck", "persist",
           "ok", "refused", "failed", "dead"}

\* The walk of write_validated_file over the components of its path ends at
\* the target, and the temporary file is in one of its three states.
TypeOK ==
    /\ DOMAIN fs = Paths
    /\ pc \in [Writers -> Labels]
    /\ \A w \in Writers : depth[w] \in 1 .. Len(Target[w])
    /\ tmp \in [Writers -> {"none", "part", "whole"}]

\* At every moment, and so after a crash at every moment, the file at a target
\* path is a complete one: the one that was there, or all the data of one call.
NeverPartial == \A p \in Paths : fs[p].k = "file" => fs[p].whole

\* A call that returned left no temporary file; if it returned Err, none of
\* its data is at the target; if it returned Ok, a file is there.
AllOrNothing ==
    \A w \in Writers :
       /\ pc[w] \in {"ok", "refused", "failed"} => tmp[w] = "none"
       /\ pc[w] = "ok" => fs[Target[w]].k = "file" /\ fs[Target[w]].by \in Writers
       /\ pc[w] # "ok" => \A p \in Paths : fs[p].k = "file" => fs[p].by # w

\* Calls do not get in each other's way: one is refused only for a node that
\* cannot be part of its path, never because another call created the same
\* parent directory in between.
RefusedForCause ==
    \A w \in Writers : pc[w] = "refused" =>
       \/ \E p \in Prefixes(Target[w]) \ {Target[w]} : fs[p].k \notin {"none", "dir"}
       \/ fs[Target[w]].k \in {"link", "dir"}
       \/ w \in NoClobber /\ fs[Target[w]].k # "none"

\* Directories and links to something are never replaced.
KeepsDirsAndLinks ==
    [][\A p \in Paths : fs[p].k \in {"dir", "link"} => fs'[p] = fs[p]]_vars
==============================================================================
