---------------------------- MODULE Server_proofs ----------------------------
(***************************************************************************)
(* Proofs about Server, for any number of requests and permits, any limit  *)
(* of files and any uploads.                                               *)
(***************************************************************************)
EXTENDS Server, SequenceTheorems, FunctionTheorems, FiniteSetTheorems,
        WellFoundedInduction, TLAPS

Directory == UNION {[S -> Data \cup {0}] : S \in SUBSET FileName}
Counters == UNION {[S -> Nat] : S \in SUBSET FileName}
Answers == [status : Nat, files : SUBSET (FileName \X (Data \cup {0}))]

Typed == /\ body \in [Requests -> Request]
         /\ pc \in [Requests -> {"waiting", "upload", "running", "done"}]
         /\ answer \in [Requests -> Answers]
         /\ taken \in [Requests -> Seq(Field)]
         /\ counters \in [Requests -> Counters]
         /\ dir \in [Requests -> Directory]
         /\ task \in [Requests -> {"none", "reading", "checking", "extracting", "ok", "failed"}]
         /\ todo \in [Requests -> SUBSET FileName]
         /\ archived \in [Requests -> SUBSET (FileName \X (Data \cup {0}))]
         /\ dropped \in [Requests -> SUBSET (FileName \X (Data \cup {0}))]

\* Who owns the temporary directory: the handler of /compress while it runs,
\* the task of /extract while it extracts, nobody else.
DirOwned(r) ==
    /\ pc[r] \in {"waiting", "upload"} => task[r] = "none"
    /\ IF body[r].kind = "compress"
       THEN /\ task[r] \in {"none", "reading", "ok", "failed"}
            /\ ~Active(r) => dir[r] = NoDir
       ELSE /\ task[r] \in {"none", "checking", "extracting", "ok", "failed"}
            /\ task[r] # "extracting" => dir[r] = NoDir

\* The files of a directory are the fields taken, each once.
Holds(fields, d) ==
    \E f \in Bijection(DOMAIN fields, DOMAIN d) : \A i \in DOMAIN fields : d[f[i]] = fields[i].data

\* So are the files of an archive.
HoldsFiles(fields, files) ==
    \E f \in Bijection(DOMAIN fields, files) : \A i \in DOMAIN fields : f[i][2] = fields[i].data

\* The files of directory d under the names of S.
Entries(d, S) == {<<p, d[p]>> : p \in S}

\* The work of /compress: the directory holds the upload; a file of it is still
\* to be read, has been read, or was passed over by the listing; the answer is
\* what has been read.
Uploading(r) ==
    /\ pc[r] \in {"waiting", "upload"} => archived[r] = {} /\ dropped[r] = {}
    /\ pc[r] = "waiting" => taken[r] = << >>
    /\ Active(r) => Holds(taken[r], dir[r])
    /\ pc[r] = "running" =>
          /\ todo[r] \subseteq DOMAIN dir[r]
          /\ archived[r] \cup dropped[r] = Entries(dir[r], DOMAIN dir[r] \ todo[r])
          /\ archived[r] \cap dropped[r] = {}
          /\ task[r] = "ok" => todo[r] = {}
    /\ pc[r] # "done" => answer[r] = NoAnswer
    /\ answer[r].status = 200 =>
          /\ HoldsFiles(taken[r], answer[r].files \cup dropped[r])
          /\ answer[r].files \cap dropped[r] = {}

RequestInv(r) == DirOwned(r) /\ (body[r].kind = "compress" => Uploading(r))

\* The inductive invariant.
IInv == Typed /\ \A r \in Requests : RequestInv(r)

------------------------------------------------------------------------------
(* Names.                                                                  *)

\* A set of natural numbers has a least one.
LEMMA LeastNat ==
    ASSUME NEW T, T \subseteq Nat, T # {}
    PROVE  \E n \in T : \A m \in T : n <= m
  <1> DEFINE R == OpToRel(<, Nat)
  <1>1. IsWellFoundedOn(R, Nat)
    BY NatLessThanWellFounded
  <1> HIDE DEF R
  <1>2. \A x, y \in Nat : <<x, y>> \in R <=> x < y
    BY DEF R, OpToRel
  <1>3. PICK x \in T : \A y \in T : ~(<<y, x>> \in R)
    BY <1>1, WFMin
  <1>4. ASSUME NEW y \in T PROVE x <= y
    <2>1. ~(<<y, x>> \in R)
      BY <1>3
    <2>2. x \in Nat /\ y \in Nat
      OBVIOUS
    <2>3. ~(y < x)
      BY <1>2, <2>1, <2>2
    <2> QED BY <2>2, <2>3
  <1> QED BY <1>4

\* "{counter}_{base}" is a file name, and another one for another counter.
LEMMA NumberedNames ==
    ASSUME NEW base \in FileName, NEW c \in Nat
    PROVE  /\ Numbered(c, base) \in FileName
           /\ \A b \in Nat : Numbered(b, base) = Numbered(c, base) => b = c
  <1> DEFINE P(b) == <<b>> \o base.prefix
  <1>1. base.prefix \in Seq(Nat)
    BY DEF FileName
  <1>2. \A b \in Nat : P(b) \in Seq(Nat) /\ P(b)[1] = b
    BY <1>1
  <1>3. \A b \in Nat : Numbered(b, base).prefix = P(b)
    BY DEF Numbered, FileName
  <1>4. Numbered(c, base) = [base EXCEPT !.prefix = P(c)]
    BY DEF Numbered
  <1> HIDE DEF P
  <1>5. Numbered(c, base) \in FileName
    BY <1>2, <1>4 DEF FileName
  <1> QED BY <1>2, <1>3, <1>5

\* The search for a free name ends: of one more candidate than there are files,
\* one is free, and the first such one is taken.
LEMMA FreeCounterIsFree ==
    ASSUME NEW r \in Requests, NEW base \in FileName, counters[r] \in Counters,
           IsFiniteSet(DOMAIN dir[r])
    PROVE  /\ FreeCounter(r, base) \in Nat
           /\ Numbered(FreeCounter(r, base), base) \in FileName \ DOMAIN dir[r]
  <1> DEFINE D == DOMAIN dir[r]
             c == Counter(r, base)
             n == Cardinality(D)
             I == c .. c + n
             F == [i \in I |-> Numbered(i, base)]
             T == {i \in I : Numbered(i, base) \notin D}
  <1>1. c \in Nat
    BY DEF Counter, Counters
  <1>2. n \in Nat
    BY FS_CardinalityType
  <1> HIDE DEF D, c, n
  <1>3. I \subseteq Nat /\ c + n \in Nat
    BY <1>1, <1>2
  <1>4. IsFiniteSet(I) /\ Cardinality(I) = n + 1
    BY <1>1, <1>2, <1>3, FS_Interval
  <1>5. T # {}
    <2> SUFFICES ASSUME T = {} PROVE FALSE
      OBVIOUS
    <2>1. F \in [I -> D]
      OBVIOUS
    <2>2. n < Cardinality(I) /\ IsFiniteSet(D) /\ Cardinality(D) = n
      BY <1>2, <1>4 DEF n, D
    <2> HIDE DEF I, F
    <2>3. \E x, y \in I : x # y /\ F[x] = F[y]
      BY <1>4, <2>1, <2>2, FS_PigeonHole
    <2> QED BY <1>3, <2>3, NumberedNames DEF F
  <1>6. PICK b \in T : \A m \in T : b <= m
    <2>1. T \subseteq Nat
      BY <1>3
    <2> HIDE DEF T
    <2> QED BY <1>5, <2>1, LeastNat
  <1>7. /\ b \in c .. c + n
        /\ Numbered(b, base) \notin D
        /\ \A i \in c .. b - 1 : Numbered(i, base) \in D
    BY <1>1, <1>2, <1>6
  <1>8. /\ FreeCounter(r, base) \in c .. c + n
        /\ Numbered(FreeCounter(r, base), base) \notin D
    <2> DEFINE Q(i) == /\ Numbered(i, base) \notin D
                       /\ \A j \in c .. i - 1 : Numbered(j, base) \in D
    <2>1. \E i \in c .. c + n : Q(i)
      BY <1>7
    <2>2. FreeCounter(r, base) = CHOOSE i \in c .. c + n : Q(i)
      BY DEF FreeCounter, c, n, D
    <2>3. FreeCounter(r, base) \in c .. c + n /\ Q(FreeCounter(r, base))
      BY <2>1, <2>2
    <2> QED BY <2>3
  <1> QED BY <1>3, <1>8, NumberedNames DEF D

------------------------------------------------------------------------------
(* Uploads and directories.                                                *)

\* A directory with one more file.
Grown(d, name, data) == [p \in DOMAIN d \cup {name} |-> IF p = name THEN data ELSE d[p]]

\* One more field, one more file.
LEMMA HoldsOneMore ==
    ASSUME NEW q \in Seq(Field), NEW x \in Field, NEW d, Holds(q, d), NEW name, name \notin DOMAIN d
    PROVE  Holds(Append(q, x), Grown(d, name, x.data))
  <1> DEFINE D == DOMAIN d
             e == [p \in D \cup {name} |-> IF p = name THEN x.data ELSE d[p]]
             n == Len(q)
             q1 == Append(q, x)
  <1>1. PICK f \in Bijection(DOMAIN q, D) : \A i \in DOMAIN q : d[f[i]] = q[i].data
    BY DEF Holds
  <1>2. /\ f \in [DOMAIN q -> D]
        /\ \A a, b \in DOMAIN q : f[a] = f[b] => a = b
        /\ \A t \in D : \E i \in DOMAIN q : f[i] = t
    BY <1>1, Fun_BijectionProperties
  <1>3. /\ n \in Nat /\ DOMAIN q = 1 .. n /\ DOMAIN q1 = 1 .. n + 1
        /\ \A i \in 1 .. n : q1[i] = q[i]
        /\ q1[n + 1] = x
    BY LenProperties, AppendProperties
  <1> HIDE DEF n, q1, D
  <1> DEFINE g == [i \in 1 .. n + 1 |-> IF i = n + 1 THEN name ELSE f[i]]
  <1>4. g \in [1 .. n + 1 -> D \cup {name}]
    BY <1>2, <1>3
  <1>5. \A a, b \in 1 .. n + 1 : g[a] = g[b] => a = b
    BY <1>2, <1>3 DEF D
  <1>6. \A t \in D \cup {name} : \E i \in 1 .. n + 1 : g[i] = t
    <2>1. \A t \in D : \E i \in 1 .. n : g[i] = t
      BY <1>2, <1>3
    <2>2. g[n + 1] = name
      BY <1>3
    <2> QED BY <1>3, <2>1, <2>2
  <1>7. g \in Bijection(1 .. n + 1, D \cup {name})
    <2> HIDE DEF g
    <2> QED BY <1>4, <1>5, <1>6, Fun_IsBij
  <1>8. \A i \in 1 .. n + 1 : e[g[i]] = q1[i].data
    <2> TAKE i \in 1 .. n + 1
    <2>1. CASE i = n + 1
      BY <1>3, <2>1
    <2>2. CASE i # n + 1
      <3>1. i \in 1 .. n
        BY <1>3, <2>2
      <3>2. f[i] \in D /\ f[i] # name
        BY <1>2, <1>3, <3>1 DEF D
      <3>3. d[f[i]] = q1[i].data
        BY <1>1, <1>3, <3>1
      <3>4. g[i] = f[i]
        BY <2>2
      <3>5. e[g[i]] = d[f[i]]
        BY <3>2, <3>4
      <3> QED BY <3>3, <3>5
    <2> QED BY <2>1, <2>2
  <1>9. DOMAIN e = D \cup {name}
    OBVIOUS
  <1>10. Holds(q1, e)
    <2> HIDE DEF e, g
    <2> QED BY <1>3, <1>7, <1>8, <1>9 DEF Holds
  <1> QED BY <1>10 DEF q1, D, Grown

\* A directory that has been read to the end gives an archive of the upload.
LEMMA HoldsRead ==
    ASSUME NEW q, NEW d, Holds(q, d)
    PROVE  HoldsFiles(q, Entries(d, DOMAIN d))
  <1> DEFINE A == {<<p, d[p]>> : p \in DOMAIN d}
  <1>1. PICK f \in Bijection(DOMAIN q, DOMAIN d) : \A i \in DOMAIN q : d[f[i]] = q[i].data
    BY DEF Holds
  <1>2. /\ f \in [DOMAIN q -> DOMAIN d]
        /\ \A a, b \in DOMAIN q : f[a] = f[b] => a = b
        /\ \A t \in DOMAIN d : \E i \in DOMAIN q : f[i] = t
    BY <1>1, Fun_BijectionProperties
  <1> DEFINE g == [i \in DOMAIN q |-> <<f[i], d[f[i]]>>]
  <1>3. g \in [DOMAIN q -> A]
    BY <1>2
  <1>4. \A a, b \in DOMAIN q : g[a] = g[b] => a = b
    BY <1>2
  <1>5. \A t \in A : \E i \in DOMAIN q : g[i] = t
    BY <1>2
  <1>6. \A i \in DOMAIN q : g[i][2] = q[i].data
    BY <1>1
  <1> HIDE DEF g, A
  <1>7. g \in Bijection(DOMAIN q, A)
    BY <1>3, <1>4, <1>5, Fun_IsBij
  <1>8. HoldsFiles(q, A)
    BY <1>6, <1>7 DEF HoldsFiles
  <1> QED BY <1>8 DEF A, Entries

\* A directory that holds an upload is finite.
LEMMA HoldsFinite ==
    ASSUME NEW q \in Seq(Field), NEW d, Holds(q, d)
    PROVE  IsFiniteSet(DOMAIN d)
  <1>1. PICK f \in Bijection(DOMAIN q, DOMAIN d) : TRUE
    BY DEF Holds
  <1>2. IsFiniteSet(DOMAIN q)
    BY LenProperties, FS_Interval
  <1> QED BY <1>1, <1>2, FS_Bijection DEF ExistsBijection

\* Files in bijection with the upload hold every content as often as it does.
LEMMA HoldsCounts ==
    ASSUME NEW r \in Requests, taken[r] \in Seq(Field), NEW files,
           HoldsFiles(taken[r], files), NEW d
    PROVE  /\ IsFiniteSet({x \in files : x[2] = d})
           /\ Holding(files, d) = Uploaded(r, d)
  <1> DEFINE q == taken[r]
             S == {i \in DOMAIN q : q[i].data = d}
             T == {x \in files : x[2] = d}
  <1>1. PICK f \in Bijection(DOMAIN q, files) : \A i \in DOMAIN q : f[i][2] = q[i].data
    BY DEF HoldsFiles
  <1>2. /\ f \in [DOMAIN q -> files]
        /\ \A a, b \in DOMAIN q : f[a] = f[b] => a = b
        /\ \A t \in files : \E i \in DOMAIN q : f[i] = t
    BY <1>1, Fun_BijectionProperties
  <1> DEFINE g == [i \in S |-> f[i]]
  <1>3. g \in [S -> T] /\ \A a, b \in S : g[a] = g[b] => a = b
    BY <1>1, <1>2
  <1>4. \A t \in T : \E i \in S : g[i] = t
    BY <1>1, <1>2
  <1>5. IsFiniteSet(S)
    <2>1. IsFiniteSet(DOMAIN q)
      BY LenProperties, FS_Interval
    <2> QED BY <2>1, FS_Subset
  <1> HIDE DEF g, S, T
  <1>6. g \in Bijection(S, T)
    BY <1>3, <1>4, Fun_IsBij
  <1>7. Cardinality(T) = Cardinality(S) /\ IsFiniteSet(T)
    BY <1>5, <1>6, FS_Bijection DEF ExistsBijection
  <1> QED BY <1>7 DEF S, T, Holding, Uploaded

\* Of two sets of files that share none, together they hold what each holds.
LEMMA HoldingSplit ==
    ASSUME NEW A, NEW B, A \cap B = {}, NEW d,
           IsFiniteSet({x \in A \cup B : x[2] = d})
    PROVE  Holding(A \cup B, d) = Holding(A, d) + Holding(B, d)
  <1> DEFINE S == {x \in A : x[2] = d}
             T == {x \in B : x[2] = d}
             U == {x \in A \cup B : x[2] = d}
  <1>1. U = S \cup T /\ S \cap T = {} /\ S \subseteq U /\ T \subseteq U
    OBVIOUS
  <1>2. IsFiniteSet(U)
    OBVIOUS
  <1> HIDE DEF S, T, U
  <1>3. IsFiniteSet(S) /\ IsFiniteSet(T)
    BY <1>1, <1>2, FS_Subset
  <1>4. Cardinality(S) \in Nat /\ Cardinality(T) \in Nat /\ Cardinality(S \cap T) = 0
    BY <1>1, <1>3, FS_CardinalityType, FS_EmptySet
  <1>5. Cardinality(S \cup T) = Cardinality(S) + Cardinality(T) - Cardinality(S \cap T)
    BY <1>3, FS_Union
  <1>6. Cardinality(U) = Cardinality(S) + Cardinality(T)
    BY <1>1, <1>4, <1>5
  <1> QED BY <1>6 DEF Holding, S, T, U

\* The invariant implies that no directory is left: its owner has ended.
LEMMA InvNoDirLeft == IInv => NoDirLeft
  BY DEF IInv, RequestInv, DirOwned, NoDirLeft, TaskEnded, Active

\* It implies that no upload is lost: the archive returned and what the listing
\* passed over hold the upload.
LEMMA InvNoUploadLost == IInv => NoUploadLost
  <1> SUFFICES ASSUME IInv, NEW r \in Requests, answer[r].status = 200,
                      body[r].kind = "compress", NEW d
               PROVE  Holding(answer[r].files, d) + Holding(dropped[r], d) = Uploaded(r, d)
    BY DEF NoUploadLost
  <1>1. /\ HoldsFiles(taken[r], answer[r].files \cup dropped[r]) /\ taken[r] \in Seq(Field)
        /\ answer[r].files \cap dropped[r] = {}
    BY DEF IInv, RequestInv, Uploading, Typed
  <1>2. /\ IsFiniteSet({x \in answer[r].files \cup dropped[r] : x[2] = d})
        /\ Holding(answer[r].files \cup dropped[r], d) = Uploaded(r, d)
    BY <1>1, HoldsCounts
  <1> QED BY <1>1, <1>2, HoldingSplit

------------------------------------------------------------------------------
(* The invariant.                                                          *)

\* The directory that is none and the empty one.
LEMMA Directories ==
    /\ NoDir \in Directory /\ EmptyDir \in Directory /\ DOMAIN EmptyDir = {}
    /\ EmptyDir \in Counters
  <1>1. NoName \in FileName
    <2>1. << >> \in Seq(Nat)
      OBVIOUS
    <2> QED BY <2>1, ServerAssumption DEF NoName, Name, FileName
  <1>2. NoDir \in [{NoName} -> Data \cup {0}]
    BY DEF NoDir
  <1>3. EmptyDir \in [{} -> Data \cup {0}] /\ EmptyDir \in [{} -> Nat] /\ DOMAIN EmptyDir = {}
    BY DEF EmptyDir
  <1> QED BY <1>1, <1>2, <1>3 DEF Directory, Counters

\* No field, no file.
LEMMA HoldsNothing == ASSUME NEW d, DOMAIN d = {} PROVE Holds(<< >>, d)
  <1> DEFINE f == [i \in {} |-> i]
  <1>1. f \in [{} -> {}]
    OBVIOUS
  <1>2. f \in Bijection({}, {})
    <2> HIDE DEF f
    <2> QED BY <1>1, Fun_IsBij
  <1>3. DOMAIN << >> = {}
    OBVIOUS
  <1> HIDE DEF f
  <1> QED BY <1>2, <1>3 DEF Holds

\* Nothing has happened to any request at first.
LEMMA InitInv == Init => IInv
  <1> SUFFICES ASSUME Init PROVE IInv
    OBVIOUS
  <1>1. NoAnswer \in Answers /\ NoAnswer.status = 0
    BY DEF NoAnswer, Answers
  <1>2. Typed
    <2>1. body \in [Requests -> Request]
      BY ServerAssumption DEF Init
    <2>2. << >> \in Seq(Field)
      OBVIOUS
    <2> QED BY <1>1, <2>1, <2>2, Directories DEF Init, Typed
  <1>3. \A r \in Requests : RequestInv(r)
    BY <1>1 DEF Init, RequestInv, DirOwned, Uploading, Active
  <1> QED BY <1>2, <1>3 DEF IInv

\* The state of the other requests.
Others(r) ==
    /\ body' = body
    /\ \A q \in Requests \ {r} :
          /\ pc'[q] = pc[q] /\ answer'[q] = answer[q] /\ taken'[q] = taken[q]
          /\ dir'[q] = dir[q] /\ task'[q] = task[q] /\ todo'[q] = todo[q]
          /\ archived'[q] = archived[q] /\ dropped'[q] = dropped[q]

\* Requests share no state but the permits.
LEMMA FrameInv ==
    ASSUME IInv, Typed', NEW r \in Requests, Others(r), RequestInv(r)'
    PROVE  IInv'
  <1>1. ASSUME NEW q \in Requests \ {r} PROVE RequestInv(q)'
    <2>1. /\ pc'[q] = pc[q] /\ answer'[q] = answer[q] /\ taken'[q] = taken[q]
          /\ dir'[q] = dir[q] /\ task'[q] = task[q] /\ todo'[q] = todo[q]
          /\ archived'[q] = archived[q] /\ dropped'[q] = dropped[q] /\ body' = body
      BY <1>1 DEF Others
    <2>2. RequestInv(q)
      BY <1>1 DEF IInv
    <2>3. DirOwned(q)'
      BY <2>1, <2>2 DEF RequestInv, DirOwned, Active
    <2>4. Uploading(q) => Uploading(q)'
      BY <2>1, Zenon DEF Uploading, Active
    <2> QED BY <2>1, <2>2, <2>3, <2>4 DEF RequestInv
  <1> QED BY <1>1 DEF IInv

\* A handler that answers, or is dropped, takes its directory with it.
LEMMA LeaveInv ==
    ASSUME IInv, NEW r \in Requests, NEW status \in Nat,
           NEW files \in SUBSET (FileName \X (Data \cup {0})),
           Leave(r, status, files), UNCHANGED work,
           body[r].kind = "compress" /\ status = 200 =>
              HoldsFiles(taken[r], files \cup dropped[r]) /\ files \cap dropped[r] = {}
    PROVE  IInv'
  <1> DEFINE a == [status |-> status, files |-> files]
  <1>1. /\ pc' = [pc EXCEPT ![r] = "done"] /\ answer' = [answer EXCEPT ![r] = a]
        /\ body' = body /\ taken' = taken /\ counters' = counters
        /\ task' = task /\ todo' = todo /\ archived' = archived /\ dropped' = dropped
        /\ dir' = IF body[r].kind = "compress" THEN [dir EXCEPT ![r] = NoDir] ELSE dir
    BY DEF Leave, DropDir, upload, work
  <1>2. a \in Answers /\ a.status = status /\ a.files = files
    BY DEF Answers
  <1> HIDE DEF a
  <1>3. Typed'
    BY <1>1, <1>2, Directories DEF IInv, Typed
  <1>4. Others(r)
    BY <1>1 DEF IInv, Typed, Others
  <1>5. /\ pc'[r] = "done" /\ answer'[r] = a /\ taken'[r] = taken[r] /\ task'[r] = task[r]
        /\ body'[r] = body[r] /\ dropped'[r] = dropped[r]
        /\ dir'[r] = IF body[r].kind = "compress" THEN NoDir ELSE dir[r]
    BY <1>1 DEF IInv, Typed
  <1>6. RequestInv(r)'
    BY <1>2, <1>5 DEF IInv, RequestInv, DirOwned, Uploading, Active
  <1> QED BY <1>3, <1>4, <1>6, FrameInv

\* An error, a timeout or a client that has gone: no archive is returned.
LEMMA RejectInv ==
    ASSUME IInv, NEW r \in Requests, NEW status \in Nat, status # 200, Reject(r, status)
    PROVE  IInv'
  BY LeaveInv DEF Reject

\* A permit: /compress starts with an empty directory and no field.
LEMMA AdmitInv == ASSUME IInv, NEW r \in Requests, Admit(r) PROVE IInv'
  <1>1. CASE ~body[r].authorized
    BY <1>1, RejectInv DEF Admit
  <1>2. CASE body[r].authorized
    <2>1. /\ pc' = [pc EXCEPT ![r] = "upload"] /\ pc[r] = "waiting"
          /\ dir' = IF body[r].kind = "compress" THEN [dir EXCEPT ![r] = EmptyDir] ELSE dir
          /\ UNCHANGED <<body, answer, taken, counters, task, todo, archived, dropped>>
      BY <1>2 DEF Admit, upload, work
    <2>2. Typed'
      BY <2>1, Directories DEF IInv, Typed
    <2>3. Others(r)
      BY <2>1 DEF IInv, Typed, Others
    <2>4. /\ pc'[r] = "upload" /\ UNCHANGED <<body[r], answer[r], taken[r], task[r], archived[r], dropped[r]>>
          /\ dir'[r] = IF body[r].kind = "compress" THEN EmptyDir ELSE dir[r]
      BY <2>1 DEF IInv, Typed
    <2>5. Holds(<< >>, EmptyDir)
      BY Directories, HoldsNothing
    <2>6. RequestInv(r)'
      BY <2>1, <2>4, <2>5 DEF IInv, RequestInv, DirOwned, Uploading, Active, NoAnswer
    <2> QED BY <2>2, <2>3, <2>6, FrameInv
  <1> QED BY <1>1, <1>2

\* The name of a field is a file name, also where the server makes it up.
LEMMA SafeNames ==
    ASSUME Typed, NEW r \in Requests, Len(taken[r]) < Len(body[r].fields)
    PROVE  NextField(r) \in Field /\ SafeName(r) \in FileName
  <1>1. body[r].fields \in Seq(Field) /\ taken[r] \in Seq(Field)
    BY DEF Typed, Request
  <1>2. NextField(r) \in Field
    <2>1. Len(taken[r]) + 1 \in 1 .. Len(body[r].fields)
      BY <1>1, LenProperties
    <2> QED BY <1>1, <2>1, ElementOfSeq DEF NextField
  <1>3. Name(<< >>, "file", Len(taken[r])) \in FileName
    <2>1. << >> \in Seq(Nat) /\ Len(taken[r]) \in Nat
      BY <1>1, LenProperties
    <2> QED BY <2>1, ServerAssumption DEF Name, FileName
  <1> QED BY <1>2, <1>3 DEF SafeName, Field

\* A field becomes one more file, whatever its name.
LEMMA TakeFieldInv == ASSUME IInv, NEW r \in Requests, TakeField(r) PROVE IInv'
  <1> DEFINE base == SafeName(r)
             field == NextField(r)
             fits == ~(Len(taken[r]) >= MaxServerFileCount \/ NextField(r).fault # "none")
             c == FreeCounter(r, base)
             name == IF base \notin DOMAIN dir[r] THEN base ELSE Numbered(c, base)
             grown == Grown(dir[r], name, field.data)
             counted == [b \in DOMAIN counters[r] \cup {base} |->
                           IF b = base THEN c + 1 ELSE counters[r][b]]
  <1>1. CASE ~fits
    BY <1>1, RejectInv DEF TakeField
  <1>2. CASE fits
    <2>1. /\ pc[r] = "upload" /\ body[r].kind = "compress" /\ Len(taken[r]) < Len(body[r].fields)
          /\ UNCHANGED <<body, pc, answer, task, todo, archived, dropped>>
          /\ taken' = [taken EXCEPT ![r] = Append(taken[r], field)]
      BY <1>2 DEF TakeField, work
    <2>2. dir' = [dir EXCEPT ![r] = grown]
      BY <1>2 DEF TakeField, Put, Grown
    <2>3. \/ counters' = counters
          \/ base \in DOMAIN dir[r] /\ counters' = [counters EXCEPT ![r] = counted]
      BY <1>2 DEF TakeField
    <2>4. field \in Field /\ base \in FileName
      BY <2>1, SafeNames DEF IInv
    <2>5. /\ taken[r] \in Seq(Field) /\ dir[r] \in Directory /\ counters[r] \in Counters
          /\ Holds(taken[r], dir[r])
      BY <2>1 DEF IInv, Typed, RequestInv, Uploading, Active
    <2>6. IsFiniteSet(DOMAIN dir[r])
      BY <2>5, HoldsFinite
    <2> HIDE DEF base, field, fits
    <2>7. base \in DOMAIN dir[r] => c \in Nat /\ Numbered(c, base) \in FileName \ DOMAIN dir[r]
      BY <2>4, <2>5, <2>6, FreeCounterIsFree
    <2>8. name \in FileName \ DOMAIN dir[r]
      BY <2>4, <2>7
    <2> HIDE DEF c, name
    <2>9. grown \in Directory
      <3>1. PICK S \in SUBSET FileName : dir[r] \in [S -> Data \cup {0}]
        BY <2>5 DEF Directory
      <3>2. field.data \in Data
        BY <2>4 DEF Field
      <3>3. grown \in [S \cup {name} -> Data \cup {0}]
        BY <3>1, <3>2 DEF Grown
      <3> QED BY <2>8, <3>3 DEF Directory
    <2>10. base \in DOMAIN dir[r] => counted \in Counters
      <3>1. PICK S \in SUBSET FileName : counters[r] \in [S -> Nat]
        BY <2>5 DEF Counters
      <3>2. base \in DOMAIN dir[r] => counted \in [S \cup {base} -> Nat]
        BY <2>7, <3>1
      <3> QED BY <2>4, <3>2 DEF Counters
    <2>11. Append(taken[r], field) \in Seq(Field)
      BY <2>4, <2>5, AppendProperties
    <2>12. Holds(Append(taken[r], field), grown)
      BY <2>4, <2>5, <2>8, HoldsOneMore
    <2> HIDE DEF grown, counted
    <2>13. Typed'
      BY <2>1, <2>2, <2>3, <2>9, <2>10, <2>11 DEF IInv, Typed
    <2>14. Others(r)
      BY <2>1, <2>2 DEF IInv, Typed, Others
    <2>15. taken'[r] = Append(taken[r], field) /\ dir'[r] = grown
      BY <2>1, <2>2 DEF IInv, Typed
    <2>16. /\ pc'[r] = "upload" /\ body'[r].kind = "compress" /\ task'[r] = "none"
           /\ answer'[r] = NoAnswer /\ archived'[r] = {} /\ dropped'[r] = {}
      BY <2>1 DEF IInv, RequestInv, DirOwned, Uploading
    <2>17. RequestInv(r)'
      BY <2>12, <2>15, <2>16 DEF RequestInv, DirOwned, Uploading, Active, NoAnswer
    <2> QED BY <2>13, <2>14, <2>17, FrameInv
  <1> QED BY <1>1, <1>2

\* The task of /compress starts with the files listed to read and none read.
LEMMA EndUploadInv == ASSUME IInv, NEW r \in Requests, EndUpload(r) PROVE IInv'
  <1>1. CASE taken[r] = << >>
    BY <1>1, RejectInv DEF EndUpload
  <1>2. CASE taken[r] # << >>
    <2>1. PICK listed \in SUBSET DOMAIN dir[r] :
          /\ pc' = [pc EXCEPT ![r] = "running"]
          /\ task' = [task EXCEPT ![r] = "reading"]
          /\ todo' = [todo EXCEPT ![r] = listed]
          /\ dropped' = [dropped EXCEPT ![r] = Entries(dir[r], DOMAIN dir[r] \ listed)]
          /\ UNCHANGED <<body, answer, taken, counters, dir, archived>>
      BY <1>2 DEF EndUpload, upload, Entries
    <2>2. pc[r] = "upload" /\ body[r].kind = "compress"
      BY DEF EndUpload
    <2>3. DOMAIN dir[r] \in SUBSET FileName /\ \A p \in DOMAIN dir[r] : dir[r][p] \in Data \cup {0}
      BY DEF IInv, Typed, Directory
    <2> DEFINE passed == Entries(dir[r], DOMAIN dir[r] \ listed)
    <2>4. passed \in SUBSET (FileName \X (Data \cup {0}))
      BY <2>3 DEF Entries
    <2> HIDE DEF passed
    <2>5. dropped' = [dropped EXCEPT ![r] = passed]
      BY <2>1 DEF passed
    <2>6. Typed'
      BY <2>1, <2>3, <2>4, <2>5 DEF IInv, Typed
    <2>7. Others(r)
      BY <2>1, <2>5 DEF IInv, Typed, Others
    <2>8. /\ pc'[r] = "running" /\ task'[r] = "reading" /\ todo'[r] = listed
          /\ dropped'[r] = passed
      BY <2>1, <2>5 DEF IInv, Typed
    <2>9. archived[r] = {} /\ Holds(taken[r], dir[r]) /\ answer[r] = NoAnswer
      BY <2>2 DEF IInv, RequestInv, Uploading, Active
    <2>10. /\ archived'[r] \cup dropped'[r] = Entries(dir'[r], DOMAIN dir'[r] \ todo'[r])
           /\ archived'[r] \cap dropped'[r] = {}
      BY <2>1, <2>8, <2>9 DEF passed
    <2>11. RequestInv(r)'
      BY <2>1, <2>2, <2>8, <2>9, <2>10
      DEF IInv, RequestInv, DirOwned, Uploading, Active, NoAnswer
    <2> QED BY <2>6, <2>7, <2>11, FrameInv
  <1> QED BY <1>1, <1>2

\* The task of /extract, /verify or /list starts.
LEMMA TakeArchiveInv == ASSUME IInv, NEW r \in Requests, TakeArchive(r) PROVE IInv'
  <1>1. CASE Reject(r, 400)
    BY <1>1, RejectInv
  <1>2. CASE ~Reject(r, 400)
    <2>1. /\ pc[r] = "upload" /\ body[r].kind # "compress"
          /\ pc' = [pc EXCEPT ![r] = "running"]
          /\ task' = [task EXCEPT ![r] = "checking"]
          /\ UNCHANGED <<body, answer, taken, counters, dir, todo, archived, dropped>>
      BY <1>2 DEF TakeArchive, upload
    <2>2. Typed'
      BY <2>1 DEF IInv, Typed
    <2>3. Others(r)
      BY <2>1 DEF IInv, Typed, Others
    <2>4. task'[r] = "checking" /\ pc'[r] = "running"
      BY <2>1 DEF IInv, Typed
    <2>5. RequestInv(r)'
      BY <2>1, <2>4 DEF IInv, RequestInv, DirOwned, Active
    <2> QED BY <2>2, <2>3, <2>5, FrameInv
  <1> QED BY <1>1, <1>2

\* A file read goes from what is to read to what has been read; a directory
\* that is gone ends the task.
LEMMA ReadFileInv == ASSUME IInv, NEW r \in Requests, ReadFile(r) PROVE IInv'
  <1>1. /\ task[r] = "reading" /\ UNCHANGED <<body, pc, answer, taken, counters, dir, dropped>>
    BY DEF ReadFile, upload
  <1>2. PICK p \in todo[r] :
          IF dir[r] = NoDir
          THEN task' = [task EXCEPT ![r] = "failed"] /\ UNCHANGED <<todo, archived>>
          ELSE /\ todo' = [todo EXCEPT ![r] = @ \ {p}]
               /\ archived' = [archived EXCEPT ![r] = @ \cup {<<p, dir[r][p]>>}]
               /\ UNCHANGED task
    BY DEF ReadFile
  <1>3. body[r].kind = "compress"
    BY <1>1 DEF IInv, RequestInv, DirOwned
  <1>4. CASE dir[r] = NoDir
    <2>1. Typed'
      BY <1>1, <1>2, <1>4 DEF IInv, Typed
    <2>2. Others(r)
      BY <1>1, <1>2, <1>4 DEF IInv, Typed, Others
    <2>3. task'[r] = "failed" /\ UNCHANGED <<todo, archived>>
      BY <1>2, <1>4 DEF IInv, Typed
    <2>4. RequestInv(r)'
      BY <1>1, <1>3, <2>3 DEF IInv, RequestInv, DirOwned, Uploading, Active
    <2> QED BY <2>1, <2>2, <2>4, FrameInv
  <1>5. CASE dir[r] # NoDir
    <2>1. /\ todo' = [todo EXCEPT ![r] = todo[r] \ {p}]
          /\ archived' = [archived EXCEPT ![r] = archived[r] \cup {<<p, dir[r][p]>>}]
          /\ UNCHANGED task
      BY <1>2, <1>5
    <2>2. pc[r] = "running"
      BY <1>1, <1>3, <1>5 DEF IInv, Typed, RequestInv, DirOwned, Active
    <2>3. p \in DOMAIN dir[r] /\ DOMAIN dir[r] \subseteq FileName /\ dir[r][p] \in Data \cup {0}
      <3>1. todo[r] \subseteq DOMAIN dir[r]
        BY <1>3, <2>2 DEF IInv, RequestInv, Uploading
      <3>2. dir[r] \in Directory
        BY DEF IInv, Typed
      <3> QED BY <3>1, <3>2 DEF Directory
    <2>4. Typed'
      BY <1>1, <2>1, <2>3 DEF IInv, Typed
    <2>5. Others(r)
      BY <1>1, <2>1 DEF IInv, Typed, Others
    <2>6. todo'[r] = todo[r] \ {p} /\ archived'[r] = archived[r] \cup {<<p, dir[r][p]>>}
      BY <2>1 DEF IInv, Typed
    <2>7. /\ archived[r] \cup dropped[r] = Entries(dir[r], DOMAIN dir[r] \ todo[r])
          /\ archived[r] \cap dropped[r] = {}
      BY <1>3, <2>2 DEF IInv, RequestInv, Uploading
    <2>8. /\ archived'[r] \cup dropped'[r] = Entries(dir'[r], DOMAIN dir'[r] \ todo'[r])
          /\ archived'[r] \cap dropped'[r] = {}
      <3> DEFINE x == <<p, dir[r][p]>>
                 R == DOMAIN dir[r] \ todo[r]
      <3>1. p \in todo[r]
        BY <1>2
      <3>2. DOMAIN dir[r] \ (todo[r] \ {p}) = R \cup {p}
        BY <2>3, <3>1
      <3>3. Entries(dir[r], R \cup {p}) = Entries(dir[r], R) \cup {x}
        BY DEF Entries
      <3>4. x \notin Entries(dir[r], R)
        <4>1. p \notin R
          BY <3>1
        <4>2. \A y \in Entries(dir[r], R) : y[1] \in R
          BY DEF Entries
        <4>3. x[1] = p
          OBVIOUS
        <4> HIDE DEF x, R
        <4> QED BY <4>1, <4>2, <4>3
      <3>5. x \notin dropped[r]
        BY <2>7, <3>4
      <3>6. dir' = dir /\ dropped' = dropped /\ archived'[r] = archived[r] \cup {x}
        BY <1>1, <2>6
      <3>7. DOMAIN dir'[r] \ todo'[r] = R \cup {p}
        BY <2>6, <3>2, <3>6
      <3> HIDE DEF x, R
      <3>8. archived[r] \cup dropped[r] = Entries(dir[r], R)
        BY <2>7 DEF R
      <3>9. Entries(dir'[r], DOMAIN dir'[r] \ todo'[r]) = Entries(dir[r], R) \cup {x}
        BY <3>3, <3>6, <3>7
      <3> QED BY <2>7, <3>5, <3>6, <3>8, <3>9
    <2>9. RequestInv(r)'
      BY <1>1, <1>3, <2>1, <2>2, <2>6, <2>8 DEF IInv, RequestInv, DirOwned, Uploading, Active
    <2> QED BY <2>4, <2>5, <2>9, FrameInv
  <1> QED BY <1>4, <1>5

\* The end of compress_to_archive: with success only when every file is read.
LEMMA FinishCompressInv == ASSUME IInv, NEW r \in Requests, FinishCompress(r) PROVE IInv'
  <1>1. /\ task[r] = "reading" /\ todo[r] = {}
        /\ UNCHANGED <<body, pc, answer, taken, counters, dir, todo, archived, dropped>>
    BY DEF FinishCompress, upload
  <1>2. PICK end \in {"ok", "failed"} : task' = [task EXCEPT ![r] = end]
    BY DEF FinishCompress
  <1>3. Typed'
    BY <1>1, <1>2 DEF IInv, Typed
  <1>4. Others(r)
    BY <1>1, <1>2 DEF IInv, Typed, Others
  <1>5. task'[r] = end
    BY <1>2 DEF IInv, Typed
  <1>6. RequestInv(r)'
    BY <1>1, <1>5 DEF IInv, RequestInv, DirOwned, Uploading, Active
  <1> QED BY <1>3, <1>4, <1>6, FrameInv

\* An archive uploaded is refused, inspected, or extracted in a directory of
\* the task.
LEMMA CheckArchiveInv == ASSUME IInv, NEW r \in Requests, CheckArchive(r) PROVE IInv'
  <1>1. /\ task[r] = "checking"
        /\ UNCHANGED <<body, pc, answer, taken, counters, todo, archived, dropped>>
    BY DEF CheckArchive, upload
  <1>2. body[r].kind # "compress"
    BY <1>1 DEF IInv, RequestInv, DirOwned
  <1>3. \/ \E end \in {"failed", "ok"} : task' = [task EXCEPT ![r] = end] /\ dir' = dir
        \/ task' = [task EXCEPT ![r] = "extracting"] /\ dir' = [dir EXCEPT ![r] = EmptyDir]
    BY DEF CheckArchive
  <1>4. Typed'
    BY <1>1, <1>3, Directories, ZenonT(60) DEF IInv, Typed
  <1>5. Others(r)
    BY <1>1, <1>3 DEF IInv, Typed, Others
  <1>6. \/ task'[r] \in {"failed", "ok"} /\ dir'[r] = dir[r]
        \/ task'[r] = "extracting"
    BY <1>3 DEF IInv, Typed
  <1>7. RequestInv(r)'
    BY <1>1, <1>2, <1>6 DEF IInv, RequestInv, DirOwned
  <1> QED BY <1>4, <1>5, <1>7, FrameInv

\* The directory of the task goes with the task.
LEMMA FinishExtractInv == ASSUME IInv, NEW r \in Requests, FinishExtract(r) PROVE IInv'
  <1>1. /\ task[r] = "extracting" /\ dir' = [dir EXCEPT ![r] = NoDir]
        /\ UNCHANGED <<body, pc, answer, taken, counters, todo, archived, dropped>>
    BY DEF FinishExtract, DropDir, upload
  <1>2. PICK end \in {"ok", "failed"} : task' = [task EXCEPT ![r] = end]
    BY DEF FinishExtract
  <1>3. Typed'
    BY <1>1, <1>2, Directories DEF IInv, Typed
  <1>4. Others(r)
    BY <1>1, <1>2 DEF IInv, Typed, Others
  <1>5. task'[r] = end /\ dir'[r] = NoDir
    BY <1>1, <1>2 DEF IInv, Typed
  <1>6. body[r].kind # "compress"
    BY <1>1 DEF IInv, RequestInv, DirOwned
  <1>7. RequestInv(r)'
    BY <1>1, <1>5, <1>6 DEF IInv, RequestInv, DirOwned
  <1> QED BY <1>3, <1>4, <1>7, FrameInv

\* The answer of a task that has ended: with success, /compress has read every
\* file listed of a directory that holds the upload.
LEMMA RespondInv == ASSUME IInv, NEW r \in Requests, Respond(r) PROVE IInv'
  <1>1. pc[r] = "running" /\ UNCHANGED work
    BY DEF Respond
  <1>2. CASE task[r] = "ok"
    <2>1. archived[r] \in SUBSET (FileName \X (Data \cup {0}))
      BY DEF IInv, Typed
    <2>2. ASSUME body[r].kind = "compress"
          PROVE  /\ HoldsFiles(taken[r], archived[r] \cup dropped[r])
                 /\ archived[r] \cap dropped[r] = {}
      <3>1. /\ Holds(taken[r], dir[r]) /\ todo[r] = {}
            /\ archived[r] \cup dropped[r] = Entries(dir[r], DOMAIN dir[r] \ todo[r])
            /\ archived[r] \cap dropped[r] = {}
        BY <1>1, <1>2, <2>2 DEF IInv, RequestInv, Uploading, Active
      <3>2. archived[r] \cup dropped[r] = Entries(dir[r], DOMAIN dir[r])
        BY <3>1
      <3> QED BY <3>1, <3>2, HoldsRead
    <2>3. Leave(r, 200, archived[r])
      BY <1>2 DEF Respond
    <2> QED BY <1>1, <2>1, <2>2, <2>3, LeaveInv
  <1>3. CASE task[r] # "ok"
    <2>1. PICK status \in {400, 500} : Leave(r, status, {})
      BY <1>3 DEF Respond
    <2> QED BY <1>1, <2>1, LeaveInv
  <1> QED BY <1>2, <1>3

\* Every step preserves the invariant.
LEMMA NextInv == IInv /\ [Next]_vars => IInv'
  <1> SUFFICES ASSUME IInv, [Next]_vars PROVE IInv'
    OBVIOUS
  <1>1. CASE UNCHANGED vars
    BY <1>1 DEF vars, IInv, Typed, RequestInv, DirOwned, Uploading, Active
  <1>2. CASE Next
    <2>1. PICK r \in Requests :
             Handler(r) \/ Task(r) \/ Respond(r) \/ Timeout(r) \/ Disconnect(r)
      BY <1>2 DEF Next
    <2>2. CASE Handler(r)
      <3>1. CASE FailUpload(r)
        BY <3>1, RejectInv DEF FailUpload
      <3> QED BY <2>2, <3>1, AdmitInv, TakeFieldInv, EndUploadInv, TakeArchiveInv DEF Handler
    <2>3. CASE Task(r)
      BY <2>3, ReadFileInv, FinishCompressInv, CheckArchiveInv, FinishExtractInv DEF Task
    <2>4. CASE Respond(r)
      BY <2>4, RespondInv
    <2>5. CASE Timeout(r) \/ Disconnect(r)
      BY <2>5, RejectInv DEF Timeout, Disconnect
    <2> QED BY <2>1, <2>2, <2>3, <2>4, <2>5
  <1> QED BY <1>1, <1>2

------------------------------------------------------------------------------
(* Theorems.                                                               *)

\* The invariant holds in every state the server reaches.
THEOREM Invariance == Spec => []IInv
  BY InitInv, NextInv, PTL DEF Spec

\* Whatever the order in which handlers and tasks end, time out or are dropped,
\* no temporary directory outlives both.
THEOREM DirsRemoved == Spec => []NoDirLeft
  BY Invariance, InvNoDirLeft, PTL

\* Whatever the names of the fields, and whatever the listing of the directory
\* passes over, every archive /compress returns holds each other field taken
\* exactly once.
THEOREM UploadsKept == Spec => []NoUploadLost
  BY Invariance, InvNoUploadLost, PTL

==============================================================================
