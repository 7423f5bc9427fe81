---------------------------- MODULE MCFileWriter ----------------------------
(***************************************************************************)
(* Three calls in one directory: two for d/f, one for a file that has the  *)
(* name of their directory.                                                *)
(***************************************************************************)
EXTENDS FileWriter, TLC

MCTarget == ("w1" :> <<"d", "f">>) @@ ("w2" :> <<"d", "f">>) @@ ("w3" :> <<"d">>)

\* Directories hold files and links; nothing is below anything else.
MCTrees == {tree \in [Paths -> FoundNode] :
              tree[<<"d", "f">>].k # "none" => tree[<<"d">>] = Dir}

------------------------------------------------------------------------------
\* with_no_clobber: "no overwrite is ever attempted".  Of several calls with
\* no_clobber for the same path, only one may find the target missing and
\* return Ok.
NoClobberExclusive ==
    \A v, w \in NoClobber :
       (Target[v] = Target[w] /\ pc[v] = "ok" /\ pc[w] = "ok") => v = w
==============================================================================
