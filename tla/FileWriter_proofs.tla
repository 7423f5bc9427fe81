-------------------------- MODULE FileWriter_proofs --------------------------
(***************************************************************************)
(* Proofs about FileWriter, for every number of calls, every set of target *)
(* paths, every choice of no_clobber and every directory found at first.   *)
(***************************************************************************)
EXTENDS FileWriter, SequenceTheorems, TLAPS

Node == [k : {"none", "dir", "link", "dangling"}]
        \cup [k : {"file"}, by : Writers \cup Others, whole : BOOLEAN]

\* Functions where TypeOK speaks of their values only.
Typed == /\ fs \in [Paths -> Node]
         /\ pc \in [Writers -> Labels]
         /\ depth \in [Writers -> Nat]
         /\ tmp \in [Writers -> {"none", "part", "whole"}]

\* The walk stays on the path, and create_dir is never called for the target.
Walk == \A w \in Writers :
           /\ depth[w] \in 1 .. Len(Target[w])
           /\ pc[w] = "mkdir" => depth[w] < Len(Target[w])

\* The temporary file is there from its creation to the end of the call, and
\* complete before the call looks at its target again.
TempFile == \A w \in Writers :
               /\ pc[w] \in {"parent", "mkdir", "create", "ok", "refused", "failed"}
                     => tmp[w] = "none"
               /\ pc[w] \in {"recheck", "persist"} => tmp[w] = "whole"

\* What the second look at the target found is still true when the file is
\* renamed.
NoLinkAtTarget == \A w \in Writers : pc[w] = "persist" => fs[Target[w]].k # "link"

\* The inductive invariant.
IInv == /\ Typed /\ Walk /\ TempFile /\ NoLinkAtTarget
        /\ NeverPartial /\ AllOrNothing /\ RefusedForCause

\* All that ever happens to a node: a missing one becomes a directory, and one
\* that is neither a directory nor a link becomes a complete file of a call.
Evolves == \A p \in Paths :
              \/ fs'[p] = fs[p]
              \/ fs[p].k = "none" /\ fs'[p] = Dir
              \/ /\ fs[p].k \notin {"dir", "link"}
                 /\ fs'[p].k = "file" /\ fs'[p].by \in Writers /\ fs'[p].whole

------------------------------------------------------------------------------
(* Nodes and paths.                                                        *)

\* A node without data is its kind.
LEMMA NodeKinds ==
    ASSUME NEW n \in Node
    PROVE  /\ n.k \in {"none", "dir", "link", "dangling", "file"}
           /\ n.k = "dir" <=> n = Dir
           /\ n.k = "file" => n.by \in Writers \cup Others /\ n.whole \in BOOLEAN
  BY DEF Node, Dir

\* The component a call is at is one of its path; it is the target when it is
\* the last one, and only then.
LEMMA HereOnPath ==
    ASSUME Walk, NEW w \in Writers
    PROVE  /\ Target[w] \in Paths /\ Target[w] \in Prefixes(Target[w])
           /\ Here(w) \in Paths /\ Here(w) \in Prefixes(Target[w])
           /\ Len(Target[w]) \in Nat
           /\ depth[w] < Len(Target[w]) => Here(w) # Target[w]
  <1>1. Target[w] \in Seq(Component) /\ Target[w] # << >>
    BY FileWriterAssumption
  <1>2. Len(Target[w]) \in Nat /\ Len(Target[w]) >= 1
    BY <1>1, LenProperties, EmptySeq
  <1>3. SubSeq(Target[w], 1, Len(Target[w])) = Target[w]
    BY <1>1, SubSeqFull
  <1>4. Target[w] \in Prefixes(Target[w])
    BY <1>2, <1>3 DEF Prefixes
  <1>5. depth[w] \in 1 .. Len(Target[w])
    BY DEF Walk
  <1>6. Here(w) \in Prefixes(Target[w])
    BY <1>5 DEF Here, Prefixes
  <1>7. Prefixes(Target[w]) \subseteq Paths
    BY DEF Paths
  <1>8. ASSUME depth[w] < Len(Target[w])
        PROVE  Here(w) # Target[w]
    <2>1. \A i \in 1 .. depth[w] : Target[w][i] \in Component
      BY <1>1, <1>2, <1>5, ElementOfSeq
    <2>2. Len(Here(w)) = depth[w]
      BY <1>2, <1>5, <2>1, SubSeqProperties DEF Here
    <2> QED BY <1>2, <1>5, <1>8, <2>2
  <1> QED BY <1>2, <1>4, <1>6, <1>7, <1>8

------------------------------------------------------------------------------
(* The invariant.                                                          *)

\* It holds of every directory the calls may find.
LEMMA InitInv == Init => IInv
  <1> SUFFICES ASSUME Init PROVE IInv
    OBVIOUS
  <1>1. \A w \in Writers : Len(Target[w]) \in Nat /\ Len(Target[w]) >= 1
    BY FileWriterAssumption, LenProperties, EmptySeq
  <1>2. fs \in [Paths -> FoundNode]
    BY FileWriterAssumption DEF Init
  <1>3. FoundNode \subseteq Node
    BY DEF FoundNode, Node
  <1>4. Typed
    BY <1>2, <1>3 DEF Init, Typed, Labels
  <1>5. Walk /\ TempFile /\ NoLinkAtTarget /\ RefusedForCause
    BY <1>1 DEF Init, Walk, TempFile, NoLinkAtTarget, RefusedForCause
  <1>6. \A p \in Paths : fs[p].k = "file" => fs[p].whole /\ fs[p].by \notin Writers
    BY <1>2, FileWriterAssumption DEF FoundNode
  <1>7. NeverPartial /\ AllOrNothing
    BY <1>6 DEF Init, NeverPartial, AllOrNothing
  <1> QED BY <1>4, <1>5, <1>7 DEF IInv

\* What is true of a node stays true while nodes only evolve: a directory, a
\* link, a complete file, a node that is no directory and not missing.
LEMMA NodesLast ==
    ASSUME Typed, Typed', Evolves, NEW p \in Paths
    PROVE  /\ fs[p].k \in {"dir", "link"} => fs'[p] = fs[p]
           /\ fs'[p].k = "link" => fs[p].k = "link"
           /\ fs[p].k = "file" => fs'[p].k = "file"
           /\ fs[p].k \notin {"none", "dir"} => fs'[p].k \notin {"none", "dir"}
           /\ fs[p].k # "none" => fs'[p].k # "none"
           /\ fs[p].k = "file" /\ fs[p].whole => fs'[p].whole
           /\ fs'[p].k = "file" => fs'[p] = fs[p] \/ (fs'[p].whole /\ fs'[p].by \in Writers)
  <1>1. fs[p] \in Node /\ fs'[p] \in Node
    BY DEF Typed
  <1>2. /\ fs[p].k = "dir" <=> fs[p] = Dir
        /\ fs'[p].k = "dir" <=> fs'[p] = Dir
    BY <1>1, NodeKinds
  <1>3. Dir.k = "dir"
    BY DEF Dir
  <1> QED BY <1>1, <1>2, <1>3 DEF Evolves

\* The parts of the invariant that speak of the directory, for the calls that
\* do not move.
LEMMA OthersKeep ==
    ASSUME IInv, Typed', Evolves, NEW v \in Writers, pc'[v] = pc[v], tmp'[v] = tmp[v]
    PROVE  /\ pc'[v] = "persist" => fs'[Target[v]].k # "link"
           /\ pc'[v] \in {"ok", "refused", "failed"} => tmp'[v] = "none"
           /\ pc'[v] = "ok" => fs'[Target[v]].k = "file" /\ fs'[Target[v]].by \in Writers
           /\ pc'[v] = "refused" =>
                 \/ \E p \in Prefixes(Target[v]) \ {Target[v]} : fs'[p].k \notin {"none", "dir"}
                 \/ fs'[Target[v]].k \in {"link", "dir"}
                 \/ v \in NoClobber /\ fs'[Target[v]].k # "none"
  <1>1. Target[v] \in Paths /\ \A p \in Prefixes(Target[v]) : p \in Paths
    BY HereOnPath DEF IInv, Paths
  <1>2. Typed
    BY DEF IInv
  <1>3. pc'[v] = "persist" => fs'[Target[v]].k # "link"
    BY <1>1, <1>2, NodesLast DEF IInv, NoLinkAtTarget
  <1>4. pc'[v] \in {"ok", "refused", "failed"} => tmp'[v] = "none"
    BY DEF IInv, AllOrNothing
  <1>5. pc'[v] = "ok" => fs'[Target[v]].k = "file" /\ fs'[Target[v]].by \in Writers
    BY <1>1, <1>2, NodesLast, ZenonT(60) DEF IInv, AllOrNothing
  <1>6. ASSUME pc'[v] = "refused"
        PROVE  \/ \E p \in Prefixes(Target[v]) \ {Target[v]} : fs'[p].k \notin {"none", "dir"}
               \/ fs'[Target[v]].k \in {"link", "dir"}
               \/ v \in NoClobber /\ fs'[Target[v]].k # "none"
    <2>1. CASE \E p \in Prefixes(Target[v]) \ {Target[v]} : fs[p].k \notin {"none", "dir"}
      BY <1>1, <1>2, <2>1, NodesLast
    <2>2. CASE fs[Target[v]].k \in {"link", "dir"}
      BY <1>1, <1>2, <2>2, NodesLast
    <2>3. CASE v \in NoClobber /\ fs[Target[v]].k # "none"
      BY <1>1, <1>2, <2>3, NodesLast
    <2> QED BY <1>6, <2>1, <2>2, <2>3 DEF IInv, RefusedForCause
  <1> QED BY <1>3, <1>4, <1>5, <1>6

\* What has to be shown of the step of one call: its own part of the
\* invariant, and that a new file is its own.
LEMMA MoveInv ==
    ASSUME IInv, Typed', NEW w \in Writers, Evolves,
           \A v \in Writers \ {w} : pc'[v] = pc[v] /\ tmp'[v] = tmp[v] /\ depth'[v] = depth[v],
           pc[w] # "ok",
           \A p \in Paths : \/ fs'[p] = fs[p]
                            \/ fs'[p].k # "file"
                            \/ fs'[p].by = w /\ pc'[w] = "ok",
           depth'[w] \in 1 .. Len(Target[w]),
           pc'[w] = "mkdir" => depth'[w] < Len(Target[w]),
           pc'[w] \in {"parent", "mkdir", "create", "ok", "refused", "failed"} => tmp'[w] = "none",
           pc'[w] \in {"recheck", "persist"} => tmp'[w] = "whole",
           pc'[w] = "persist" => fs'[Target[w]].k # "link",
           pc'[w] = "ok" => fs'[Target[w]].k = "file" /\ fs'[Target[w]].by \in Writers,
           pc'[w] = "refused" =>
              \/ \E p \in Prefixes(Target[w]) \ {Target[w]} : fs'[p].k \notin {"none", "dir"}
              \/ fs'[Target[w]].k \in {"link", "dir"}
              \/ w \in NoClobber /\ fs'[Target[w]].k # "none"
    PROVE  IInv'
  <1>1. Walk'
    BY DEF IInv, Walk
  <1>2. TempFile'
    BY DEF IInv, TempFile
  <1>3. NoLinkAtTarget'
    BY OthersKeep DEF NoLinkAtTarget
  <1>4. NeverPartial'
    BY NodesLast DEF IInv, NeverPartial
  <1>5. RefusedForCause'
    BY OthersKeep DEF RefusedForCause
  <1>6. ASSUME NEW v \in Writers, pc'[v] # "ok", NEW p \in Paths, fs'[p].k = "file"
        PROVE  fs'[p].by # v
    BY <1>6 DEF IInv, AllOrNothing
  <1>7. AllOrNothing'
    <2>1. \A v \in Writers : pc'[v] \in {"ok", "refused", "failed"} => tmp'[v] = "none"
      BY <1>2 DEF TempFile
    <2>2. \A v \in Writers : pc'[v] = "ok" => fs'[Target[v]].k = "file"
                                               /\ fs'[Target[v]].by \in Writers
      BY OthersKeep
    <2> QED BY <1>6, <2>1, <2>2 DEF AllOrNothing
  <1> QED BY <1>1, <1>2, <1>3, <1>4, <1>5, <1>7 DEF IInv

\* A call that returns Err without a cause of its own to show, and one whose
\* process dies.
LEMMA FailInv ==
    ASSUME IInv, NEW w \in Writers, Fail(w) \/ Die(w)
    PROVE  IInv' /\ Evolves
  <1>1. Typed' /\ Evolves
    BY DEF IInv, Typed, Evolves, Fail, Die, Return, Goto, DropTemp, Labels
  <1> QED
    BY <1>1, MoveInv
    DEF IInv, Typed, Walk, Fail, Die, Return, Goto, DropTemp, Ended

\* A parent is there: the walk goes on behind it.
LEMMA AdvanceInv ==
    ASSUME IInv, NEW w \in Writers, pc[w] \in {"parent", "mkdir"}, depth[w] < Len(Target[w]),
           NextComponent(w), UNCHANGED tmp, fs' \in [Paths -> Node], Evolves,
           \A p \in Paths : fs'[p] = fs[p] \/ fs'[p].k # "file"
    PROVE  IInv'
  <1>1. /\ pc' = [pc EXCEPT ![w] = "parent"]
        /\ depth' = [depth EXCEPT ![w] = depth[w] + 1]
        /\ tmp' = tmp
    BY DEF NextComponent, Goto
  <1>2. depth[w] \in Nat /\ depth[w] + 1 \in Nat
    BY DEF IInv, Typed
  <1>3. Typed'
    BY <1>1, <1>2 DEF IInv, Typed, Labels
  <1>4. depth'[w] = depth[w] + 1 /\ depth'[w] \in 1 .. Len(Target[w])
    BY <1>1, <1>2, HereOnPath DEF IInv, Typed
  <1>5. pc'[w] = "parent" /\ tmp'[w] = "none"
    BY <1>1 DEF IInv, Typed, TempFile
  <1>6. \A v \in Writers \ {w} : pc'[v] = pc[v] /\ tmp'[v] = tmp[v] /\ depth'[v] = depth[v]
    BY <1>1 DEF IInv, Typed
  <1> QED BY <1>3, <1>4, <1>5, <1>6, MoveInv

\* A call returns Err and shows the cause.
LEMMA RefuseInv ==
    ASSUME IInv, NEW w \in Writers, Refuse(w), ~Ended(w),
           \/ \E p \in Prefixes(Target[w]) \ {Target[w]} : fs[p].k \notin {"none", "dir"}
           \/ fs[Target[w]].k \in {"link", "dir"}
           \/ w \in NoClobber /\ fs[Target[w]].k # "none"
    PROVE  IInv' /\ Evolves
  <1>1. /\ pc' = [pc EXCEPT ![w] = "refused"] /\ tmp' = [tmp EXCEPT ![w] = "none"]
        /\ UNCHANGED <<fs, depth>>
    BY DEF Refuse, Return, Goto, DropTemp
  <1>2. Typed' /\ Evolves
    BY <1>1 DEF IInv, Typed, Evolves, Labels
  <1>3. pc'[w] = "refused" /\ tmp'[w] = "none" /\ depth'[w] \in 1 .. Len(Target[w])
    BY <1>1 DEF IInv, Typed, Walk
  <1>4. \A v \in Writers \ {w} : pc'[v] = pc[v] /\ tmp'[v] = tmp[v] /\ depth'[v] = depth[v]
    BY <1>1 DEF IInv, Typed
  <1> QED BY <1>1, <1>2, <1>3, <1>4, MoveInv DEF Ended

\* A call goes on without touching anything.
LEMMA GotoInv ==
    ASSUME IInv, NEW w \in Writers, NEW label \in {"mkdir", "create", "persist"},
           ~Ended(w), Goto(w, label), UNCHANGED <<fs, depth, tmp>>,
           label = "mkdir" => pc[w] = "parent" /\ depth[w] < Len(Target[w]),
           label = "create" => pc[w] = "parent",
           label = "persist" => pc[w] = "recheck" /\ fs[Target[w]].k # "link"
    PROVE  IInv' /\ Evolves
  <1>1. pc' = [pc EXCEPT ![w] = label]
    BY DEF Goto
  <1>2. Typed' /\ Evolves
    BY <1>1 DEF IInv, Typed, Evolves, Labels
  <1>3. pc'[w] = label /\ depth'[w] \in 1 .. Len(Target[w])
    BY <1>1 DEF IInv, Typed, Walk
  <1>4. \A v \in Writers \ {w} : pc'[v] = pc[v] /\ tmp'[v] = tmp[v] /\ depth'[v] = depth[v]
    BY <1>1 DEF IInv, Typed
  <1> QED BY <1>2, <1>3, <1>4, MoveInv DEF Ended, IInv, TempFile

\* The loop over the parents: a refusal is for a component that exists and is
\* no directory.
LEMMA CheckParentInv == ASSUME IInv, NEW w \in Writers, CheckParent(w) PROVE IInv' /\ Evolves
  <1>1. /\ Here(w) \in Paths /\ Here(w) \in Prefixes(Target[w])
        /\ pc[w] = "parent" /\ depth[w] < Len(Target[w]) /\ Here(w) # Target[w]
    BY HereOnPath DEF IInv, CheckParent
  <1>2. fs[Here(w)].k = "dir" <=> fs[Here(w)] = Dir
    BY <1>1, NodeKinds DEF IInv, Typed
  <1>3. CASE ~Exists(Here(w))
    BY <1>1, <1>3, GotoInv DEF CheckParent, Ended
  <1>4. CASE Exists(Here(w)) /\ fs[Here(w)] # Dir
    BY <1>1, <1>2, <1>4, RefuseInv DEF CheckParent, Exists, Ended
  <1>5. CASE Exists(Here(w)) /\ fs[Here(w)] = Dir
    <2>1. NextComponent(w) /\ UNCHANGED <<fs, tmp>>
      BY <1>5 DEF CheckParent
    <2>2. Evolves /\ fs' \in [Paths -> Node]
      BY <2>1 DEF Evolves, IInv, Typed
    <2> QED BY <1>1, <2>1, <2>2, AdvanceInv
  <1> QED BY <1>3, <1>4, <1>5

\* create_dir: somebody else may have been faster, with a directory or not.
LEMMA CreateDirInv == ASSUME IInv, NEW w \in Writers, CreateDir(w) PROVE IInv' /\ Evolves
  <1>1. /\ Here(w) \in Paths /\ Here(w) \in Prefixes(Target[w])
        /\ pc[w] = "mkdir" /\ depth[w] < Len(Target[w]) /\ Here(w) # Target[w]
    BY HereOnPath DEF IInv, Walk, CreateDir
  <1>2. Dir \in Node /\ Dir.k = "dir"
    BY DEF Node, Dir
  <1>3. fs[Here(w)].k = "dir" <=> fs[Here(w)] = Dir
    BY <1>1, NodeKinds DEF IInv, Typed
  <1>4. CASE fs[Here(w)].k = "none"
    <2>1. fs' = [fs EXCEPT ![Here(w)] = Dir] /\ NextComponent(w) /\ UNCHANGED tmp
      BY <1>4 DEF CreateDir
    <2>2. fs' \in [Paths -> Node] /\ Evolves
      BY <1>1, <1>2, <1>4, <2>1 DEF Evolves, IInv, Typed
    <2>3. \A p \in Paths : fs'[p] = fs[p] \/ fs'[p].k # "file"
      BY <1>1, <1>2, <2>1 DEF IInv, Typed
    <2> QED BY <1>1, <2>1, <2>2, <2>3, AdvanceInv
  <1>5. CASE fs[Here(w)].k # "none" /\ AlreadyThere(Here(w))
    <2>1. NextComponent(w) /\ UNCHANGED <<fs, tmp>>
      BY <1>5 DEF CreateDir
    <2>2. Evolves /\ fs' \in [Paths -> Node]
      BY <2>1 DEF Evolves, IInv, Typed
    <2> QED BY <1>1, <2>1, <2>2, AdvanceInv
  <1>6. CASE fs[Here(w)].k # "none" /\ ~AlreadyThere(Here(w))
    BY <1>1, <1>3, <1>6, RefuseInv DEF CreateDir, AlreadyThere, Ended
  <1> QED BY <1>4, <1>5, <1>6

\* The checks of the target before the temporary file is made.
LEMMA CheckTargetInv == ASSUME IInv, NEW w \in Writers, CheckTarget(w) PROVE IInv' /\ Evolves
  <1>1. CASE (w \in NoClobber /\ Exists(Target[w])) \/ IsLink(Target[w])
    BY <1>1, RefuseInv DEF CheckTarget, Exists, IsLink, Ended
  <1>2. CASE ~((w \in NoClobber /\ Exists(Target[w])) \/ IsLink(Target[w]))
    BY <1>2, GotoInv DEF CheckTarget, Ended
  <1> QED BY <1>1, <1>2

\* The temporary file is made and written.
LEMMA WriteInv ==
    ASSUME IInv, NEW w \in Writers, CreateTemp(w) \/ WriteTemp(w)
    PROVE  IInv' /\ Evolves
  <1>1. Typed' /\ Evolves
    BY DEF IInv, Typed, Evolves, CreateTemp, WriteTemp, Goto, Labels
  <1> QED
    BY <1>1, MoveInv DEF IInv, Typed, Walk, CreateTemp, WriteTemp, Goto

\* The second look at the target.
LEMMA RecheckInv == ASSUME IInv, NEW w \in Writers, Recheck(w) PROVE IInv' /\ Evolves
  <1>1. CASE IsLink(Target[w])
    BY <1>1, RefuseInv DEF Recheck, IsLink, Ended
  <1>2. CASE ~IsLink(Target[w])
    BY <1>2, GotoInv DEF Recheck, IsLink, Ended
  <1> QED BY <1>1, <1>2

\* The rename: the file it puts in place is complete, and it replaces neither
\* a directory nor a link to something.
LEMMA PersistInv == ASSUME IInv, NEW w \in Writers, Persist(w) PROVE IInv' /\ Evolves
  <1> DEFINE file == [k |-> "file", by |-> w, whole |-> TRUE]
  <1>1. Target[w] \in Paths /\ pc[w] = "persist" /\ tmp[w] = "whole"
    BY HereOnPath DEF IInv, TempFile, Persist
  <1>2. fs[Target[w]].k = "dir" <=> fs[Target[w]] = Dir
    BY <1>1, NodeKinds DEF IInv, Typed
  <1>3. CASE fs[Target[w]] = Dir
    BY <1>1, <1>2, <1>3, RefuseInv DEF Persist, Ended
  <1>4. CASE fs[Target[w]] # Dir
    <2>1. /\ fs' = [fs EXCEPT ![Target[w]] = file] /\ tmp' = [tmp EXCEPT ![w] = "none"]
          /\ pc' = [pc EXCEPT ![w] = "ok"] /\ depth' = depth
      BY <1>1, <1>4 DEF Persist, DropTemp, Goto
    <2>2. file \in Node /\ file.k = "file" /\ file.by = w /\ file.whole
      BY DEF Node
    <2> HIDE DEF file
    <2>3. Typed'
      BY <2>1, <2>2 DEF IInv, Typed, Labels
    <2>4. fs[Target[w]].k \notin {"dir", "link"}
      BY <1>1, <1>2, <1>4 DEF IInv, NoLinkAtTarget
    <2>5. fs'[Target[w]] = file /\ \A p \in Paths : p = Target[w] \/ fs'[p] = fs[p]
      BY <1>1, <2>1 DEF IInv, Typed
    <2>6. Evolves
      BY <2>2, <2>4, <2>5 DEF Evolves
    <2> QED
      BY <1>1, <2>1, <2>2, <2>3, <2>5, <2>6, MoveInv DEF IInv, Typed, Walk
  <1> QED BY <1>3, <1>4

\* Every step preserves the invariant, and changes nodes only as Evolves says.
LEMMA NextInv == IInv /\ [Next]_vars => IInv' /\ Evolves
  <1> SUFFICES ASSUME IInv, [Next]_vars PROVE IInv' /\ Evolves
    OBVIOUS
  <1>1. CASE UNCHANGED vars
    BY <1>1
    DEF vars, IInv, Typed, Walk, TempFile, NoLinkAtTarget, NeverPartial, AllOrNothing,
        RefusedForCause, Evolves
  <1>2. CASE Next
    BY <1>2, FailInv, CheckParentInv, CreateDirInv, CheckTargetInv, WriteInv, RecheckInv, PersistInv
    DEF Next, Step
  <1> QED BY <1>1, <1>2

\* The invariant holds in every reachable state.
THEOREM Invariance == Spec => []IInv
  BY InitInv, NextInv, PTL DEF Spec

\* The walk of every call stays on its path and ends at its target.
THEOREM TypeCorrect == Spec => []TypeOK
  <1>1. IInv => TypeOK
    BY DEF IInv, Typed, Walk, TypeOK
  <1> QED BY <1>1, Invariance, PTL

\* Whenever the process or the machine stops, every file at a target path is a
\* complete one.
THEOREM FilesAlwaysComplete == Spec => []NeverPartial
  <1>1. IInv => NeverPartial
    BY DEF IInv
  <1> QED BY <1>1, Invariance, PTL

\* A call that returned Ok put a whole file in place (a later call may have put
\* its own there since), one that returned Err nothing, and neither left its
\* temporary file.
THEOREM CallsAllOrNothing == Spec => []AllOrNothing
  <1>1. IInv => AllOrNothing
    BY DEF IInv
  <1> QED BY <1>1, Invariance, PTL

\* However the calls interleave, one is refused only for a node that cannot be
\* on its path.
THEOREM RefusalsHaveCause == Spec => []RefusedForCause
  <1>1. IInv => RefusedForCause
    BY DEF IInv
  <1> QED BY <1>1, Invariance, PTL

\* No step of any call replaces a directory or a link to something: the look at
\* the target before the rename is never stale for them.  A dangling link looks
\* like an absent file and may be replaced.
THEOREM DirsAndLinksKept == Spec => KeepsDirsAndLinks
  <1>1. IInv /\ [Next]_vars =>
           [\A p \in Paths : fs[p].k \in {"dir", "link"} => fs'[p] = fs[p]]_vars
    <2> SUFFICES ASSUME IInv, [Next]_vars, NEW p \in Paths, fs[p].k \in {"dir", "link"}
                 PROVE  fs'[p] = fs[p]
      OBVIOUS
    <2>1. Evolves /\ Typed /\ Typed'
      BY NextInv DEF IInv
    <2> QED BY <2>1, NodesLast
  <1> QED BY <1>1, Invariance, PTL DEF Spec, KeepsDirsAndLinks
==============================================================================
