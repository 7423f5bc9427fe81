---------------------------- MODULE MCCloudReader ----------------------------
(***************************************************************************)
(* CloudReader over an object with short contents, every byte of every     *)
(* version different.                                                      *)
(***************************************************************************)
EXTENDS CloudReader

CONSTANT Lengths      \* of version 1, 2, ...

MCObjects == {[i \in 1 .. Lengths[v] |-> <<v, i>>] : v \in DOMAIN Lengths}
MCLengths == <<4, 5, 2, 0>>
MCSeekOffsets == -3 .. 7
MCBytes == UNION {{v} \X (1 .. Lengths[v]) : v \in DOMAIN Lengths}
==============================================================================
