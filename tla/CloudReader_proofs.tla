------------------------- MODULE CloudReader_proofs -------------------------
(***************************************************************************)
(* Proofs about CloudReader, for every set of contents, every buffer size  *)
(* and every fetch limit.                                                  *)
(***************************************************************************)
EXTENDS CloudReader, SequenceTheorems, TLAPS

\* The inductive invariant: the buffer is a piece of one version, and the
\* content a fetch sees is among the versions.
IInv == /\ TypeOK
        /\ object \in versions
        /\ BufferOfOneVersion

------------------------------------------------------------------------------
(* Pieces of sequences.                                                    *)

\* What read_range returns: how long it is, and which bytes.
LEMMA RangeFacts ==
    ASSUME NEW s \in Seq(Bytes), NEW p \in Nat, NEW n \in Nat
    PROVE  /\ read_range(s, p, n) \in Seq(Bytes)
           /\ Len(read_range(s, p, n)) =
                 IF p + n < Len(s) THEN n ELSE IF p < Len(s) THEN Len(s) - p ELSE 0
           /\ \A i \in 1 .. Len(read_range(s, p, n)) : read_range(s, p, n)[i] = s[p + i]
  <1> DEFINE e == Least(p + n, Len(s))
  <1>1. Len(s) \in Nat /\ e \in Int
    BY DEF Least
  <1>2. \A i \in p + 1 .. e : s[i] \in Bytes
    BY <1>1, ElementOfSeq DEF Least
  <1>3. /\ SubSeq(s, p + 1, e) \in Seq(Bytes)
        /\ Len(SubSeq(s, p + 1, e)) = IF p + 1 <= e THEN e - (p + 1) + 1 ELSE 0
        /\ \A i \in 1 .. e - (p + 1) + 1 : SubSeq(s, p + 1, e)[i] = s[(p + 1) + i - 1]
    <2> HIDE DEF e
    <2> QED BY <1>1, <1>2, SubSeqProperties
  <1>4. Len(SubSeq(s, p + 1, e)) =
           IF p + n < Len(s) THEN n ELSE IF p < Len(s) THEN Len(s) - p ELSE 0
    BY <1>1, <1>3 DEF Least
  <1>5. \A i \in 1 .. Len(SubSeq(s, p + 1, e)) : SubSeq(s, p + 1, e)[i] = s[p + i]
    <2> HIDE DEF e
    <2> QED BY <1>1, <1>3
  <1> QED
    BY <1>3, <1>4, <1>5 DEF read_range

\* A fetch that returns less than it was asked for is the same as one for what
\* it returned.
LEMMA RangeOfOwnLength ==
    ASSUME NEW s \in Seq(Bytes), NEW p \in Nat, NEW n \in Nat
    PROVE  read_range(s, p, n) = read_range(s, p, Len(read_range(s, p, n)))
  <1> DEFINE r == read_range(s, p, n)
             t == read_range(s, p, Len(r))
  <1>0. r \in Seq(Bytes)
    BY RangeFacts
  <1>1. r \in Seq(Bytes) /\ Len(r) \in Nat /\ Len(s) \in Nat
    BY <1>0, LenProperties
  <1>2. t \in Seq(Bytes) /\ \A i \in 1 .. Len(t) : t[i] = s[p + i]
    BY <1>1, RangeFacts
  <1>3. Len(t) = IF p + Len(r) < Len(s) THEN Len(r) ELSE IF p < Len(s) THEN Len(s) - p ELSE 0
    BY <1>1, RangeFacts
  <1>4. Len(r) = IF p + n < Len(s) THEN n ELSE IF p < Len(s) THEN Len(s) - p ELSE 0
    BY RangeFacts
  <1>5. Len(t) = Len(r)
    BY <1>1, <1>3, <1>4
  <1>6. \A i \in 1 .. Len(r) : r[i] = t[i]
    BY <1>2, <1>5, RangeFacts
  <1> QED
    BY <1>1, <1>2, <1>5, <1>6, SeqEqual

\* A part of a piece is a piece.
LEMMA RangeOfRange ==
    ASSUME NEW s \in Seq(Bytes), NEW p \in Nat, NEW b \in Seq(Bytes),
           b = read_range(s, p, Len(b)),
           NEW q \in Nat, NEW k \in Nat, p <= q, q + k <= p + Len(b)
    PROVE  /\ SubSeq(b, q - p + 1, q - p + k) = read_range(s, q, k)
           /\ Len(read_range(s, q, k)) = k
  <1> DEFINE t == SubSeq(b, q - p + 1, q - p + k)
             r == read_range(s, q, k)
  <1>1. Len(s) \in Nat /\ Len(b) \in Nat /\ q - p \in Nat
    OBVIOUS
  <1>2. \A i \in q - p + 1 .. q - p + k : b[i] \in Bytes
    BY <1>1, ElementOfSeq
  <1>3. /\ t \in Seq(Bytes)
        /\ Len(t) = k
        /\ \A i \in 1 .. k : t[i] = b[q - p + i]
    <2>1. /\ t \in Seq(Bytes)
          /\ Len(t) = IF q - p + 1 <= q - p + k THEN (q - p + k) - (q - p + 1) + 1 ELSE 0
          /\ \A i \in 1 .. (q - p + k) - (q - p + 1) + 1 : t[i] = b[(q - p + 1) + i - 1]
      BY <1>1, <1>2, SubSeqProperties
    <2> HIDE DEF t
    <2> QED BY <1>1, <2>1
  <1>4. /\ Len(b) = IF p + Len(b) < Len(s) THEN Len(b)
                    ELSE IF p < Len(s) THEN Len(s) - p ELSE 0
        /\ \A i \in 1 .. Len(b) : b[i] = s[p + i]
    <2> DEFINE u == read_range(s, p, Len(b))
    <2>1. /\ Len(u) = IF p + Len(b) < Len(s) THEN Len(b)
                      ELSE IF p < Len(s) THEN Len(s) - p ELSE 0
          /\ \A i \in 1 .. Len(u) : u[i] = s[p + i]
      BY <1>1, RangeFacts
    <2>2. b = u
      OBVIOUS
    <2> HIDE DEF u
    <2> QED BY <2>1, <2>2
  <1>5. /\ r \in Seq(Bytes)
        /\ Len(r) = IF q + k < Len(s) THEN k ELSE IF q < Len(s) THEN Len(s) - q ELSE 0
        /\ \A i \in 1 .. Len(r) : r[i] = s[q + i]
    BY RangeFacts
  <1>6. Len(r) = k
    BY <1>1, <1>4, <1>5
  <1>7. \A i \in 1 .. k : t[i] = r[i]
    <2> TAKE i \in 1 .. k
    <2>1. t[i] = b[q - p + i]
      BY <1>3
    <2>2. q - p + i \in 1 .. Len(b)
      BY <1>1
    <2>3. b[q - p + i] = s[p + (q - p + i)]
      BY <1>4, <2>2
    <2>4. p + (q - p + i) = q + i
      BY <1>1
    <2> QED BY <1>5, <1>6, <2>1, <2>3, <2>4
  <1> QED
    BY <1>3, <1>5, <1>6, <1>7, SeqEqual
------------------------------------------------------------------------------
(* The invariant.                                                          *)

\* Contents are sequences of bytes, and the calls' arguments numbers.
LEMMA Types ==
    ASSUME TypeOK
    PROVE  /\ object \in Seq(Bytes)
           /\ \A v \in versions : v \in Seq(Bytes)
           /\ \A v \in Objects : Len(v) \in Nat
  BY CloudReaderAssumption, LenProperties DEF TypeOK

\* An empty buffer is a piece of every version.
LEMMA EmptyBuffer ==
    ASSUME NEW v \in Seq(Bytes), NEW p \in Nat
    PROVE  << >> = read_range(v, p, Len(<< >>))
  <1>1. Len(v) \in Nat /\ Len(<< >>) = 0
    BY LenProperties
  <1>2. Least(p + 0, Len(v)) \in Int /\ Least(p + 0, Len(v)) < p + 1
    BY <1>1 DEF Least
  <1>3. SubSeq(v, p + 1, Least(p + 0, Len(v))) = << >>
    BY <1>2, SubSeqEmpty
  <1> QED
    BY <1>1, <1>3 DEF read_range

\* CloudReader::new starts with an empty buffer.
LEMMA InitInv == Init => IInv
  <1> SUFFICES ASSUME Init PROVE IInv
    OBVIOUS
  <1>1. object \in Seq(Bytes) /\ Len(object) \in Nat
    BY CloudReaderAssumption, LenProperties DEF Init
  <1>2. TypeOK
    BY <1>1 DEF Init, TypeOK
  <1>3. BufferOfOneVersion
    BY <1>1, EmptyBuffer DEF Init, BufferOfOneVersion
  <1> QED
    BY <1>2, <1>3 DEF IInv, Init

\* A replaced object is one more version; the buffer keeps its own.
LEMMA ReplaceInv == IInv /\ Replace => IInv'
  BY DEF IInv, Replace, TypeOK, BufferOfOneVersion

\* refresh_size forgets the old versions together with the buffer.
LEMMA RefreshInv == IInv /\ refresh_size => IInv'
  <1> SUFFICES ASSUME IInv, refresh_size PROVE IInv'
    OBVIOUS
  <1>1. TypeOK' /\ (object \in versions)'
    BY Types DEF IInv, TypeOK, refresh_size, BufferCleared
  <1>2. << >> = read_range(object, buf_start, Len(<< >>))
    BY Types, EmptyBuffer DEF IInv, TypeOK
  <1>3. BufferOfOneVersion'
    BY <1>2 DEF refresh_size, BufferCleared, BufferOfOneVersion
  <1> QED
    BY <1>1, <1>3 DEF IInv

\* The arithmetic of read before the end: what it wants is not negative and
\* ends within the cached size, and so is what it fetches.
LEMMA Wanted ==
    ASSUME TypeOK, position < total_size, NEW n \in ReadSizes
    PROVE  /\ wanted(n) \in Nat /\ wanted(n) <= n
           /\ position + wanted(n) <= total_size
           /\ wanted(n) = 0 => n = 0
           /\ fetch_len(n) \in Nat /\ fetch_len(n) > 0
  <1>1. n \in Nat /\ BufferSize \in Nat \ {0} /\ MaxFetch \in Nat \ {0}
    BY CloudReaderAssumption
  <1>2. position \in Nat /\ total_size \in Nat
    BY DEF TypeOK
  <1>3. /\ wanted(n) \in Nat /\ wanted(n) <= n
        /\ position + wanted(n) <= total_size
        /\ wanted(n) = 0 => n = 0
    BY <1>1, <1>2 DEF wanted, Least
  <1>4. fetch_len(n) \in Nat /\ fetch_len(n) > 0
    <2> HIDE DEF wanted
    <2> QED BY <1>1, <1>2, <1>3 DEF fetch_len, Least, Most
  <1> QED
    BY <1>3, <1>4

\* A read that is served from the buffer leaves it alone; one that is not
\* replaces it by a piece of the content it fetched from.
LEMMA ReadInv == ASSUME IInv, NEW n \in ReadSizes, read(n) PROVE IInv'
  <1>1. CASE ReadAtEnd(n)
    BY <1>1 DEF ReadAtEnd, IInv, TypeOK, BufferOfOneVersion
  <1>2. CASE ReadBuffered(n)
    <2>1. position + wanted(n) \in Nat
      BY <1>2, Wanted DEF ReadBuffered, IInv, TypeOK
    <2> QED
      BY <1>2, <2>1 DEF ReadBuffered, IInv, TypeOK, BufferOfOneVersion
  <1>3. CASE ReadFetched(n)
    <2>1. fetch_len(n) \in Nat /\ wanted(n) \in Nat
      BY <1>3, Wanted DEF ReadFetched, IInv
    <2>2. object \in Seq(Bytes) /\ position \in Nat
      BY Types DEF IInv, TypeOK
    <2>3. buf' = read_range(object, position, Len(buf'))
      BY <1>3, <2>1, <2>2, RangeOfOwnLength DEF ReadFetched
    <2>4. buf' \in Seq(Bytes)
      BY <1>3, <2>1, <2>2, RangeFacts DEF ReadFetched
    <2>5. Len(buf') \in Nat
      BY <2>4, LenProperties
    <2>6. Least(Len(buf'), wanted(n)) \in Nat
      BY <2>1, <2>5 DEF Least
    <2>7. TypeOK' /\ (object \in versions)'
      BY <1>3, <2>2, <2>4, <2>6 DEF ReadFetched, StartAtPosition, IInv, TypeOK
    <2>8. BufferOfOneVersion'
      BY <1>3, <2>3 DEF ReadFetched, StartAtPosition, IInv, BufferOfOneVersion
    <2> QED
      BY <2>7, <2>8 DEF IInv
  <1> QED
    BY <1>1, <1>2, <1>3 DEF read

\* A seek keeps the buffer or clears it.
LEMMA SeekInv == ASSUME IInv, NEW from \in Int, NEW offset \in Int, seek(from, offset) PROVE IInv'
  <1>1. from + offset \in Nat
    BY DEF seek, TargetValid
  <1>2. position' \in Nat
    BY <1>1 DEF seek, Least, IInv, TypeOK
  <1>3. TypeOK' /\ (object \in versions)'
    BY <1>2 DEF seek, IInv, TypeOK
  <1>4. << >> = read_range(object, buf_start, Len(<< >>))
    BY Types, EmptyBuffer DEF IInv, TypeOK
  <1>5. buf' = << >> \/ buf' = buf
    BY DEF seek
  <1>6. BufferOfOneVersion'
    BY <1>4, <1>5 DEF seek, IInv, BufferOfOneVersion
  <1> QED
    BY <1>3, <1>6 DEF IInv

\* Every call of CloudReader, and every replacement of the object behind it,
\* keeps the invariant.
LEMMA NextInv == IInv /\ [Next]_vars => IInv'
  <1> SUFFICES ASSUME IInv, [Next]_vars PROVE IInv'
    OBVIOUS
  <1>1. CASE Replace
    BY <1>1, ReplaceInv
  <1>2. CASE refresh_size
    BY <1>2, RefreshInv
  <1>3. CASE \E n \in ReadSizes : read(n)
    BY <1>3, ReadInv
  <1>4. CASE Seek
    <2>1. position \in Int /\ total_size \in Int /\ 0 \in Int
      BY DEF IInv, TypeOK
    <2>2. \A o \in SeekOffsets : o \in Int
      BY CloudReaderAssumption
    <2>3. PICK from \in {0, total_size, position}, offset \in SeekOffsets : seek(from, offset)
      BY <1>4 DEF Seek
    <2> QED
      BY <2>1, <2>2, <2>3, SeekInv
  <1>5. CASE UNCHANGED vars
    BY <1>5 DEF vars, IInv, TypeOK, BufferOfOneVersion
  <1> QED
    BY <1>1, <1>2, <1>3, <1>4, <1>5 DEF Next

\* The inductive invariant of CloudReader.
THEOREM Invariance == Spec => []IInv
  BY InitInv, NextInv, PTL DEF Spec

\* The offsets CloudReader subtracts without a check never go below zero,
\* whatever the remote object is replaced by.
THEOREM TypeCorrect == Spec => []TypeOK
  BY Invariance, PTL DEF IInv

\* The read-ahead buffer never mixes two versions of the object, and holds
\* none that was replaced before the last refresh_size.
THEOREM BufferCorrect == Spec => []BufferOfOneVersion
  BY Invariance, PTL DEF IInv

------------------------------------------------------------------------------
(* CloudReader implements RemoteObject.                                    *)

\* The two modules cut pieces alike.
LEMMA SameSlice ==
    ASSUME NEW s, NEW p, NEW n
    PROVE  Remote!Slice(s, p, n) = read_range(s, p, n)
  BY DEF Remote!Slice, read_range, Least

\* A read from the buffer returns the bytes of the version the buffer is of.
LEMMA BufferedStep ==
    ASSUME IInv, NEW n \in ReadSizes, ReadBuffered(n)
    PROVE  \E v \in versions : Remote!Read(n, v)
  <1>1. PICK v \in versions : buf = read_range(v, buf_start, Len(buf))
    BY DEF IInv, BufferOfOneVersion
  <1>2. v \in Seq(Bytes) /\ buf_start \in Nat /\ position \in Nat /\ total_size \in Nat
    BY Types DEF IInv, TypeOK
  <1>3. buf \in Seq(Bytes) /\ Len(buf) \in Nat
    BY LenProperties DEF IInv, TypeOK
  <1>4. /\ wanted(n) \in Nat /\ wanted(n) <= n
        /\ position + wanted(n) <= total_size
        /\ wanted(n) = 0 => n = 0
    BY Wanted DEF IInv, ReadBuffered
  <1>5. buf_start <= position /\ position + wanted(n) <= buf_start + Len(buf)
    BY DEF ReadBuffered, Covers, buf_end
  <1>6. data' = read_range(v, position, wanted(n)) /\ Len(data') = wanted(n)
    <2> DEFINE w == wanted(n)
    <2>1. w \in Nat /\ position + w <= buf_start + Len(buf) /\ buf_start <= position
      BY <1>4, <1>5
    <2>2. /\ SubSeq(buf, position - buf_start + 1, position - buf_start + w)
                = read_range(v, position, w)
          /\ Len(read_range(v, position, w)) = w
      <3> HIDE DEF w
      <3> QED BY <1>1, <1>2, <1>3, <2>1, RangeOfRange
    <2> QED BY <2>2 DEF ReadBuffered
  <1>7. n \in Nat
    BY CloudReaderAssumption
  <1>8. data' \in {Remote!Slice(v, position, k) : k \in 0 .. n}
    BY <1>4, <1>6, <1>7, SameSlice
  <1>9. position' = position + Len(data')
    BY <1>6 DEF ReadBuffered
  <1>10. position' <= total_size
    BY <1>4, <1>6, <1>9
  <1>11. data' = << >> => n = 0
    BY <1>4, <1>6
  <1> QED
    BY <1>8, <1>9, <1>10, <1>11 DEF Remote!Read, ReadBuffered

\* A read from the backend returns the bytes of the object as it is.
LEMMA FetchedStep ==
    ASSUME IInv, NEW n \in ReadSizes, ReadFetched(n)
    PROVE  Remote!Read(n, object)
  <1> DEFINE k == Least(Len(buf'), wanted(n))
  <1>1. object \in Seq(Bytes) /\ Len(object) \in Nat /\ position \in Nat /\ total_size \in Nat
    BY Types, LenProperties DEF IInv, TypeOK
  <1>2. /\ wanted(n) \in Nat /\ wanted(n) <= n
        /\ position + wanted(n) <= total_size
        /\ wanted(n) = 0 => n = 0
        /\ fetch_len(n) \in Nat /\ fetch_len(n) > 0
    BY Wanted DEF IInv, ReadFetched
  <1>3. buf' \in Seq(Bytes) /\ Len(buf') \in Nat
    BY ReadInv, LenProperties DEF read, IInv, TypeOK
  <1>4. buf' = read_range(object, position, Len(buf'))
    BY <1>1, <1>2, RangeOfOwnLength DEF ReadFetched
  <1>5. k \in Nat /\ k <= Len(buf') /\ k <= wanted(n)
    BY <1>2, <1>3 DEF Least
  <1>6. data' = read_range(object, position, k) /\ Len(data') = k
    <2>1. SubSeq(buf', position - position + 1, position - position + k)
             = read_range(object, position, k)
      <3> HIDE DEF k
      <3> QED BY <1>1, <1>3, <1>4, <1>5, RangeOfRange
    <2>2. Len(read_range(object, position, k)) = k
      <3> HIDE DEF k
      <3> QED BY <1>1, <1>3, <1>4, <1>5, RangeOfRange
    <2>3. position - position + 1 = 1 /\ position - position + k = k
      BY <1>1, <1>5
    <2> QED BY <2>1, <2>2, <2>3 DEF ReadFetched
  <1>7. n \in Nat
    BY CloudReaderAssumption
  <1>8. data' \in {Remote!Slice(object, position, j) : j \in 0 .. n}
    <2>1. k \in 0 .. n
      BY <1>2, <1>5, <1>7
    <2> HIDE DEF k
    <2> QED BY <1>6, <2>1, SameSlice
  <1>9. position' = position + Len(data')
    BY <1>6 DEF ReadFetched
  <1>10. position' <= total_size
    <2> HIDE DEF k
    <2> QED BY <1>1, <1>2, <1>5, <1>6, <1>9
  <1>11. data' = << >> => n = 0 \/ position >= Len(object)
    <2>1. Len(buf') = IF position + fetch_len(n) < Len(object) THEN fetch_len(n)
                      ELSE IF position < Len(object) THEN Len(object) - position ELSE 0
      BY <1>1, <1>2, RangeFacts DEF ReadFetched
    <2>2. Len(buf') = 0 => position >= Len(object)
      BY <1>1, <1>2, <2>1
    <2>3. k = 0 => Len(buf') = 0 \/ wanted(n) = 0
      BY <1>2, <1>3 DEF Least
    <2> QED BY <1>2, <1>6, <2>2, <2>3
  <1> QED
    BY <1>8, <1>9, <1>10, <1>11 DEF Remote!Read, ReadFetched

\* CloudReader is a RemoteObject: neither the buffer nor the fetch limit can
\* be seen by its caller, for every buffer size and every replacement of the
\* object at every moment.
THEOREM Refinement == Spec => ImplementsRemoteObject
  <1>1. Init => Remote!Init
    BY DEF Init, Remote!Init
  <1>2. IInv /\ [Next]_vars => [Remote!Next]_(Remote!vars)
    <2> SUFFICES ASSUME IInv, [Next]_vars PROVE [Remote!Next]_(Remote!vars)
      OBVIOUS
    <2>1. CASE Replace
      BY <2>1 DEF Replace, Remote!Replace, Remote!Next
    <2>2. CASE refresh_size
      BY <2>2 DEF refresh_size, Remote!Refresh, Remote!Next
    <2>3. CASE \E n \in ReadSizes : read(n)
      <3>1. PICK n \in ReadSizes : read(n)
        BY <2>3
      <3>2. CASE ReadAtEnd(n)
        <4>1. n \in Nat /\ position \in Nat /\ total_size \in Nat /\ object \in Seq(Bytes)
          BY Types, CloudReaderAssumption DEF IInv, TypeOK
        <4>2. << >> = Remote!Slice(object, position, 0)
          BY <4>1, EmptyBuffer, SameSlice
        <4>3. position' = position + Len(data')
          BY <3>2, <4>1 DEF ReadAtEnd
        <4>4. data' \in {Remote!Slice(object, position, k) : k \in 0 .. n}
          BY <3>2, <4>1, <4>2 DEF ReadAtEnd
        <4>5. Remote!Read(n, object)
          BY <3>2, <4>3, <4>4 DEF ReadAtEnd, Remote!Read
        <4> QED BY <4>5 DEF Remote!Next, IInv
      <3>3. CASE ReadBuffered(n)
        BY <3>3, BufferedStep DEF Remote!Next
      <3>4. CASE ReadFetched(n)
        BY <3>4, FetchedStep DEF Remote!Next, IInv
      <3> QED BY <3>1, <3>2, <3>3, <3>4 DEF read
    <2>4. CASE Seek
      <3>1. PICK from \in {0, total_size, position}, offset \in SeekOffsets : seek(from, offset)
        BY <2>4 DEF Seek
      <3>2. from + offset >= 0
        BY <3>1 DEF seek, TargetValid
      <3>3. Remote!Seek(from, offset)
        BY <3>1, <3>2 DEF seek, Remote!Seek, Least
      <3> QED BY <3>3 DEF Remote!Next
    <2>5. CASE UNCHANGED vars
      BY <2>5 DEF vars, Remote!vars
    <2> QED BY <2>1, <2>2, <2>3, <2>4, <2>5 DEF Next
  <1> QED
    BY <1>1, <1>2, Invariance, PTL DEF Spec, ImplementsRemoteObject, Remote!Spec
==============================================================================
