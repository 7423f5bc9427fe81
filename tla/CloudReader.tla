----------------------------- MODULE CloudReader -----------------------------
(***************************************************************************)
(* CloudReader (cloud/mod.rs): Read + Seek over a StorageBackend, with a   *)
(* cached size and a read-ahead buffer, while the remote object may be     *)
(* replaced at any time.                                                   *)
(*                                                                         *)
(* The backend is external: size and read_range look at the object as it   *)
(* is at that moment, and read_range returns the part of the range that    *)
(* exists.  A call of it that fails makes read or refresh_size return Err  *)
(* and changes nothing.                                                    *)
(***************************************************************************)
EXTENDS Integers, Sequences

CONSTANTS Bytes, Objects, ReadSizes, SeekOffsets,
          BufferSize,     \* DEFAULT_BUFFER_SIZE
          MaxFetch,       \* MAX_FETCH_SIZE
          MaxOffset       \* i64::MAX

ASSUME CloudReaderAssumption ==
    /\ Objects \subseteq Seq(Bytes)
    /\ ReadSizes \subseteq Nat
    /\ SeekOffsets \subseteq Int
    /\ BufferSize \in Nat \ {0}
    /\ MaxFetch \in Nat \ {0}
    /\ MaxOffset \in Nat

VARIABLES object,         \* the content of the remote object
          position, total_size, buf, buf_start,
          data,           \* what the last read returned
          versions        \* history: the contents since total_size was queried

vars == <<object, position, total_size, buf, buf_start, data, versions>>

Least(a, b) == IF a < b THEN a ELSE b
Most(a, b) == IF a > b THEN a ELSE b

\* StorageBackend::read_range.
read_range(s, offset, length) ==
    SubSeq(s, offset + 1, Least(offset + length, Len(s)))

\* CloudReader::new.
Init == /\ object \in Objects
        /\ position = 0
        /\ total_size = Len(object)
        /\ buf = << >>
        /\ buf_start = 0
        /\ data = << >>
        /\ versions = {object}

\* The object is replaced by somebody else.
Replace == /\ object' \in Objects
           /\ versions' = versions \cup {object'}
           /\ UNCHANGED <<position, total_size, buf, buf_start, data>>

\* Mutant: the buffer outlives the refresh.
BufferKept == buf' = buf
BufferCleared == buf' = << >>

refresh_size == /\ total_size' = Len(object)
                /\ BufferCleared
                /\ versions' = {object}
                /\ UNCHANGED <<object, position, buf_start, data>>

buf_end == buf_start + Len(buf)

wanted(n) == Least(n, total_size - position)

\* The buffer holds all of the bytes to return.
Covers(n) == buf_start <= position /\ position + wanted(n) <= buf_end

fetch_len(n) ==
    Least(Least(Most(BufferSize, wanted(n)), total_size - position), MaxFetch)

\* read at or behind the cached end.
ReadAtEnd(n) ==
    /\ position >= total_size
    /\ data' = << >>
    /\ UNCHANGED <<object, position, total_size, buf, buf_start, versions>>

ReadBuffered(n) ==
    /\ position < total_size
    /\ Covers(n)
    /\ data' = SubSeq(buf, position - buf_start + 1, position - buf_start + wanted(n))
    /\ position' = position + wanted(n)
    /\ UNCHANGED <<object, total_size, buf, buf_start, versions>>

\* What the fetch leaves in the buffer begins at the position before the read.
\* Mutant: at the one behind it.
StartBehind == buf_start' = position'
StartAtPosition == buf_start' = position

ReadFetched(n) ==
    /\ position < total_size
    /\ ~Covers(n)
    /\ buf' = read_range(object, position, fetch_len(n))
    /\ data' = SubSeq(buf', 1, Least(Len(buf'), wanted(n)))
    /\ position' = position + Least(Len(buf'), wanted(n))
    /\ StartAtPosition
    /\ UNCHANGED <<object, total_size, versions>>

read(n) == ReadAtEnd(n) \/ ReadBuffered(n) \/ ReadFetched(n)

\* Mutant: only the overflow is an error.
TargetFits(new_pos) == new_pos <= MaxOffset
TargetValid(new_pos) == new_pos \in 0 .. MaxOffset

\* Clamp to the cached size; drop the buffer when the new position is not in
\* it.  A target that overflows or is negative is an error.
seek(from, offset) ==
    LET new_pos == from + offset IN
    /\ from <= MaxOffset /\ offset <= MaxOffset
    /\ TargetValid(new_pos)
    /\ position' = Least(new_pos, total_size)
    /\ buf' = IF position' < buf_start \/ position' >= buf_end THEN << >> ELSE buf
    /\ UNCHANGED <<object, total_size, buf_start, data, versions>>

\* SeekFrom::Start takes a u64, End and Current an i64.
Seek == \/ \E offset \in SeekOffsets \cap Nat : seek(0, offset)
        \/ \E offset \in SeekOffsets : seek(total_size, offset) \/ seek(position, offset)

Next == Replace \/ refresh_size \/ (\E n \in ReadSizes : read(n)) \/ Seek

Spec == Init /\ [][Next]_vars

------------------------------------------------------------------------------
(* Properties.                                                             *)

\* Position and buffer start stay offsets (the code subtracts them as u64
\* without a check), although the cached size may shrink below both.
TypeOK == /\ object \in Objects
          /\ versions \subseteq Objects
          /\ position \in Nat
          /\ total_size \in Nat
          /\ buf \in Seq(Bytes)
          /\ buf_start \in Nat

\* The buffer is a piece of one version of the object since the last refresh,
\* at the place it is kept for.
BufferOfOneVersion ==
    \E v \in versions : buf = read_range(v, buf_start, Len(buf))

Remote == INSTANCE RemoteObject WITH size <- total_size

\* The buffer cannot be seen: reads and seeks are those of the promise.
ImplementsRemoteObject == Remote!Spec
==============================================================================
