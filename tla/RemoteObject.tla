---------------------------- MODULE RemoteObject ----------------------------
(***************************************************************************)
(* What a Read + Seek adapter over a remote object promises (the           *)
(* documentation of CloudReader in cloud/mod.rs): its size is the one at   *)
(* the last refresh, its position moves as asked and not beyond that size, *)
(* and every single read returns consecutive bytes of one version of the   *)
(* object that existed since then.                                         *)
(***************************************************************************)
EXTENDS Integers, Sequences

CONSTANTS Objects,      \* the contents the object may have
          ReadSizes,    \* the buffer lengths read is called with
          SeekOffsets   \* the offsets seek is called with

VARIABLES object,       \* its content now
          versions,     \* its contents since the last refresh
          size, position,
          data          \* what the last read returned

vars == <<object, versions, size, position, data>>

\* n bytes from offset p on, or as many as there are.
Slice(s, p, n) == SubSeq(s, p + 1, IF p + n < Len(s) THEN p + n ELSE Len(s))

Init == /\ object \in Objects
        /\ versions = {object}
        /\ size = Len(object)
        /\ position = 0
        /\ data = << >>

\* Somebody else replaces the object.
Replace == /\ object' \in Objects
           /\ versions' = versions \cup {object'}
           /\ UNCHANGED <<size, position, data>>

Refresh == /\ versions' = {object}
           /\ size' = Len(object)
           /\ UNCHANGED <<object, position, data>>

\* A read returns no byte only when none was asked for, or there is none.
Read(n, v) ==
    /\ data' \in {Slice(v, position, k) : k \in 0 .. n}
    /\ position' = position + Len(data')
    /\ data' = << >> \/ position' <= size
    /\ data' = << >> => n = 0 \/ position >= size \/ position >= Len(v)
    /\ UNCHANGED <<object, versions, size>>

\* A seek is relative to the start, the end or the position; it is refused
\* before the start and stops at the end.
Seek(from, offset) ==
    /\ from + offset >= 0
    /\ position' = IF from + offset < size THEN from + offset ELSE size
    /\ UNCHANGED <<object, versions, size, data>>

Next == \/ Replace
        \/ Refresh
        \/ \E n \in ReadSizes, v \in versions : Read(n, v)
        \/ \E from \in {0, size, position}, offset \in SeekOffsets : Seek(from, offset)

Spec == Init /\ [][Next]_vars
==============================================================================
