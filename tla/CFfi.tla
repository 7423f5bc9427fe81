-------------------------------- MODULE CFfi ---------------------------------
(***************************************************************************)
(* The C interface (aether-ffi/src/lib.rs): threads of a C program call    *)
(* it with good and bad arguments and free what they were given.  The heap *)
(* is modelled allocation by allocation; a pointer is the number of an     *)
(* allocation, 0 is NULL.  Callers pass valid pointers or NULL and store a *)
(* result only where they hold none; the rest is up to the library.        *)
(***************************************************************************)
EXTENDS Naturals, Sequences, FiniteSets, SequencesExt

CONSTANTS Thread,
          MaxAlloc,        \* bound: allocations that exist at the same time
          ArchivePath,     \* the paths of archives
          ArchiveContent,  \* what may be stored there before the first call
          MaxFfiFiles,     \* MAX_FFI_FILES
          MaxCalls         \* bound: calls of all threads together

\* An entry of an archive: a good one, one that leaves the directory, or one
\* with a name only the core refuses.
EntryKinds == {"file", "escaping", "reserved"}

ASSUME CFfiAssumption ==
    /\ MaxAlloc \in Nat /\ MaxFfiFiles \in Nat /\ MaxCalls \in Nat
    /\ \A a \in ArchiveContent : a.kind = "archive" => a.entries \in Seq(EntryKinds)

VARIABLES heap,        \* live allocations: pointer -> what is there
          last_error,  \* LAST_ERROR of each thread, a pointer
          initialized, \* FFI_INITIALIZED
          var,         \* the pointers each caller holds
          last,        \* history: outcome of each thread's last call
          archives,    \* content of the archive paths
          calls        \* number of calls so far

ffiVars == <<heap, last_error, initialized, var, last, archives, calls>>

Null == 0

\* Why a call fails: its status code ("NULL" if it makes a handle), and
\* PATH_TRAVERSAL for every path validate_no_path_traversal refuses, were the
\* core the one to find it.  These must come before the call has written
\* anything; names only the core refuses are not among them.
Refusals == {"NULL", "NULL_PTR", "INVALID_UTF8", "PATH_TRAVERSAL"}

\* A path argument: NULL, not UTF-8 (or without an end), or a path.  The
\* error of several arguments is that of the first bad one.
BadPath == {"null", "invalid"}
bounded_cstr(arg) ==
    IF arg = "null" THEN "NULL_PTR" ELSE IF arg = "invalid" THEN "INVALID_UTF8" ELSE "OK"
FirstBad(args) ==
    LET bad == {i \in DOMAIN args : args[i] \in BadPath}
    IN  IF bad = {} THEN "OK" ELSE bounded_cstr(args[Min(bad)])

\* Predictors of this build, one it was built without, and a number that is
\* none.
KnownPredictor == {"Order0"}
validated_predictor_id(raw) == raw \in KnownPredictor \cup {"Lz4Aware"}
make_factory(id) == id \in KnownPredictor

\* An archive that lists: what it is made with, whether its blocks decode,
\* and its entries.
NoArchive == [kind |-> "absent"]
TornArchive == [kind |-> "torn"]
Lists(a) == a.kind = "archive"

\* Refused: empty, absolute, drive-relative and upward paths, and paths through
\* a symlink.  An entry that lists is relative, so it is empty or leads through
\* a symlink; the name a caller gives may be any of them.
validate_no_path_traversal(entry) == entry # "escaping"

------------------------------------------------------------------------------
(* The heap *)

\* The least pointer that is free.
FreshPtr(h) == Min((1 .. Cardinality(DOMAIN h) + 1) \ DOMAIN h)
Alloc(h, value) == [p \in DOMAIN h \cup {FreshPtr(h)} |->
                      IF p \in DOMAIN h THEN h[p] ELSE value]
Free(h, ptrs) == [p \in DOMAIN h \ ptrs |-> h[p]]

CStr(text) == [kind |-> "cstring", text |-> text]

\* What an allocation leads to.
Children(block) ==
    IF block.kind = "list" THEN {block.entries} \ {Null}
    ELSE IF block.kind = "infos" THEN block.paths
    ELSE {}

\* Mutant: one last error for the whole process.
set_last_error_all(t, msg) ==
    LET h == Free(heap, {last_error[u] : u \in Thread}) IN
    /\ heap' = Alloc(h, CStr(msg))
    /\ last_error' = [u \in Thread |-> FreshPtr(h)]

\* The message of the thread's last failure replaces the one before.
set_last_error(t, msg) ==
    LET h == Free(heap, {last_error[t]}) IN
    /\ heap' = Alloc(h, CStr(msg))
    /\ last_error' = [last_error EXCEPT ![t] = FreshPtr(h)]

------------------------------------------------------------------------------
(* Calls *)

Call ==
    /\ calls < MaxCalls
    /\ Cardinality(DOMAIN heap) + 4 <= MaxAlloc
    /\ calls' = calls + 1

Returns(t, reason, wrote) ==
    last' = [last EXCEPT ![t] = [reason |-> reason, wrote |-> wrote]]

\* A call that fails: the message that says why is the caller's last error.
\* `wrote`: it had created or changed files by then.
Fail(t, reason, wrote) ==
    /\ set_last_error(t, reason)
    /\ Returns(t, reason, wrote)
    /\ UNCHANGED <<var, initialized>>

FailClean(t, reason) == UNCHANGED archives /\ Fail(t, reason, FALSE)

Succeed(t) == Returns(t, "OK", FALSE) /\ UNCHANGED <<last_error, initialized>>

mark_ffi_used == initialized' = TRUE

\* Creating a handle: NULL and an error, or a box the caller owns.
Creates(t, field, ok, value) ==
    /\ var[t][field] = Null
    /\ mark_ffi_used
    /\ UNCHANGED archives
    /\ IF ok
       THEN /\ heap' = Alloc(heap, value)
            /\ var' = [var EXCEPT ![t][field] = FreshPtr(heap)]
            /\ UNCHANGED last_error
            /\ Returns(t, "OK", FALSE)
       ELSE /\ set_last_error(t, "NULL")
            /\ Returns(t, "NULL", FALSE)
            /\ UNCHANGED var

compressor_new(t, raw) ==
    /\ Call
    /\ Creates(t, "compressor", validated_predictor_id(raw) /\ make_factory(raw),
               [kind |-> "compressor", predictor |-> raw])

decompressor_new(t, raw) ==
    /\ Call
    /\ Creates(t, "decompressor", validated_predictor_id(raw) /\ make_factory(raw),
               [kind |-> "decompressor", predictor |-> raw])

\* The predictor comes from the header of an archive, which a torn one may
\* have.
detect_predictor(a) ==
    IF Lists(a) THEN {a.predictor} ELSE IF a = TornArchive THEN {"Order0", "none"} ELSE {"none"}

decompressor_auto(t, arg) ==
    /\ Call
    /\ \E id \in detect_predictor(IF arg \in BadPath THEN NoArchive ELSE archives[arg]) :
          Creates(t, "decompressor", make_factory(id),
                  [kind |-> "decompressor", predictor |-> id])

\* The frees take the address of the caller's pointer and clear it.
FreeHandle(t, field) ==
    /\ Call
    /\ heap' = Free(heap, {var[t][field]})
    /\ var' = [var EXCEPT ![t][field] = Null]
    /\ UNCHANGED <<last_error, initialized, last, archives>>

compressor_free(t) == FreeHandle(t, "compressor")
decompressor_free(t) == FreeHandle(t, "decompressor")

set_max_threads(t) ==
    /\ Call
    /\ IF var[t].compressor = Null
       THEN FailClean(t, "NULL_PTR")
       ELSE UNCHANGED <<heap, var, archives>> /\ Succeed(t)

\* The file is created before the inputs are read; whether compression
\* succeeds is up to them.  BufWriter's buffer is written when it is dropped
\* and an error of that write is lost.
CoreCompress(t, out, count) ==
    LET made == [kind |-> "archive", decodes |-> TRUE, entries |-> [i \in 1 .. count |-> "file"],
                 predictor |-> heap[var[t].compressor].predictor]
    IN  \/ FailClean(t, "IO")
        \/ /\ archives' = [archives EXCEPT ![out] = TornArchive]
           /\ Fail(t, "COMPRESSION", TRUE)
        \/ /\ \E written \in {made, TornArchive} :
                 archives' = [archives EXCEPT ![out] = written]
           /\ UNCHANGED <<heap, var>>
           /\ Succeed(t)

aether_compress(t, base, out, count, name) ==
    /\ Call
    /\ IF var[t].compressor = Null THEN FailClean(t, "NULL_PTR")
       ELSE IF FirstBad(<<base, out>>) # "OK"
       THEN FailClean(t, FirstBad(<<base, out>>))
       ELSE IF count = 0 \/ count > MaxFfiFiles THEN FailClean(t, "COMPRESSION")
       ELSE IF name \in BadPath THEN FailClean(t, bounded_cstr(name))
       ELSE CoreCompress(t, out, count)

\* The calls that read an archive: NULL handle, the path arguments, other
\* checks (`refused`), then opening.
ReadsArchive(t, arg, others, refused, Then(_)) ==
    /\ Call
    /\ IF var[t].decompressor = Null THEN FailClean(t, "NULL_PTR")
       ELSE IF FirstBad(<<arg>> \o others) # "OK"
       THEN FailClean(t, FirstBad(<<arg>> \o others))
       ELSE IF refused THEN FailClean(t, "PATH_TRAVERSAL")
       ELSE IF archives[arg] = NoArchive THEN FailClean(t, "IO")
       ELSE Then(archives[arg])

\* The core decodes everything (with another predictor it may or may not),
\* then writes entry by entry until it refuses one or cannot write it.
CoreExtract(t, a) ==
    LET refused == {i \in DOMAIN a.entries : a.entries[i] # "file"}
        Stops(n, reason) == UNCHANGED archives /\ Fail(t, reason, n > 0)
    IN  \/ FailClean(t, "ARCHIVE")
        \/ /\ a.decodes /\ refused = {}
           /\ UNCHANGED <<heap, var, archives>>
           /\ Succeed(t)
        \/ /\ a.decodes /\ refused # {}
           /\ Stops(Min(refused) - 1, IF a.entries[Min(refused)] = "escaping"
                                      THEN "PATH_TRAVERSAL" ELSE "ARCHIVE")
        \/ /\ a.decodes
           /\ \E n \in 0 .. (IF refused = {} THEN Len(a.entries) ELSE Min(refused)) - 1 :
                 Stops(n, "ARCHIVE")

\* Every entry is validated before anything is written.
prevalidate(a) == \A i \in DOMAIN a.entries : validate_no_path_traversal(a.entries[i])

aether_extract_all(t, arg, outdir) ==
    LET Extract(a) ==
          IF ~Lists(a) THEN FailClean(t, "ARCHIVE")
          ELSE IF Len(a.entries) > MaxFfiFiles THEN FailClean(t, "ARCHIVE")
          ELSE IF ~prevalidate(a) THEN FailClean(t, "PATH_TRAVERSAL")
          ELSE IF outdir = "symlink" THEN FailClean(t, "PATH_TRAVERSAL")
          ELSE FailClean(t, "IO") \/ CoreExtract(t, a)
    IN  ReadsArchive(t, arg, <<outdir>>, FALSE, Extract)

\* One file: the output is truncated before the archive is read.
aether_extract_file(t, arg, name, outdir) ==
    LET Extract(a) ==
          \/ FailClean(t, "IO")
          \/ UNCHANGED archives /\ Fail(t, "ARCHIVE", TRUE)
          \/ /\ Lists(a) /\ a.decodes /\ name \in Range(a.entries)
             /\ UNCHANGED <<heap, var, archives>>
             /\ Succeed(t)
    IN  ReadsArchive(t, arg, <<name, outdir>>,
                     ~validate_no_path_traversal(name) \/ outdir = "symlink",
                     Extract)

\* Corruption is a result, not an error.
aether_verify(t, arg) ==
    LET Check(a) ==
          IF Lists(a) THEN UNCHANGED <<heap, var, archives>> /\ Succeed(t)
          ELSE FailClean(t, "ARCHIVE")
    IN  ReadsArchive(t, arg, << >>, FALSE, Check)

------------------------------------------------------------------------------
(* Lists and messages *)

\* One string for each entry, the array of the infos (no allocation if it
\* is empty), and the list itself.  A NUL in a path, for which the code would
\* free them again, is refused when the archive is listed.
aether_list(t, arg) ==
    LET ListFiles(a) ==
          LET strings == FoldLeft(LAMBDA h, path : Alloc(h, CStr(path)), heap, a.entries)
              paths == DOMAIN strings \ DOMAIN heap
              infos == IF paths = {} THEN strings
                       ELSE Alloc(strings, [kind |-> "infos", paths |-> paths])
              entries == IF paths = {} THEN Null ELSE FreshPtr(strings)
          IN  IF ~Lists(a) THEN FailClean(t, "ARCHIVE")
              ELSE /\ heap' = Alloc(infos, [kind |-> "list", entries |-> entries,
                                            count |-> Len(a.entries)])
                   /\ var' = [var EXCEPT ![t].list = FreshPtr(infos)]
                   /\ UNCHANGED archives
                   /\ Succeed(t)
    IN  var[t].list = Null /\ ReadsArchive(t, arg, << >>, FALSE, ListFiles)

aether_file_list_count(t) == IF var[t].list = Null THEN 0 ELSE heap[var[t].list].count

\* The list, its infos and their strings.
OwnedBy(list) ==
    LET infos == Children(heap[list])
    IN  {list} \cup infos \cup UNION {Children(heap[p]) : p \in infos}

aether_file_list_free(t) ==
    /\ Call
    /\ heap' = IF var[t].list = Null THEN heap ELSE Free(heap, OwnedBy(var[t].list))
    /\ var' = [var EXCEPT ![t].list = Null]
    /\ UNCHANGED <<last_error, initialized, last, archives>>

\* Mutant: the caller is lent the message itself.
borrowed_last_error(t) ==
    /\ heap' = heap
    /\ var' = [var EXCEPT ![t].message = last_error[t]]

\* The caller gets a copy of the message of its thread, or NULL.
owned_last_error(t) ==
    IF last_error[t] = Null THEN UNCHANGED <<heap, var>>
    ELSE /\ heap' = Alloc(heap, heap[last_error[t]])
         /\ var' = [var EXCEPT ![t].message = FreshPtr(heap)]

aether_last_error(t) ==
    /\ Call
    /\ var[t].message = Null
    /\ mark_ffi_used
    /\ owned_last_error(t)
    /\ UNCHANGED <<last_error, last, archives>>

aether_error_free(t) ==
    /\ Call
    /\ heap' = Free(heap, {var[t].message})
    /\ var' = [var EXCEPT ![t].message = Null]
    /\ UNCHANGED <<last_error, initialized, last, archives>>

------------------------------------------------------------------------------
FfiInit ==
    /\ heap = [p \in {} |-> Null]
    /\ last_error = [t \in Thread |-> Null]
    /\ initialized = FALSE
    /\ var = [t \in Thread |-> [compressor |-> Null, decompressor |-> Null,
                                list |-> Null, message |-> Null]]
    /\ last = [t \in Thread |-> [reason |-> "OK", wrote |-> FALSE]]
    /\ archives \in [ArchivePath -> ArchiveContent]
    /\ calls = 0

\* Calls with at most one bad path argument: with more, the first decides.
ArchiveArg == ArchivePath \cup BadPath
OutArg == {"dir", "symlink"} \cup BadPath
NameArg == {"file", "escaping"} \cup BadPath
PredictorArg == KnownPredictor \cup {"Lz4Aware", "out_of_range"}
AtMostOneBad(args) == Cardinality({i \in DOMAIN args : args[i] \in BadPath}) <= 1

FfiNext ==
    \E t \in Thread :
       \/ \E raw \in PredictorArg : compressor_new(t, raw) \/ decompressor_new(t, raw)
       \/ \E arg \in ArchiveArg :
             \/ decompressor_auto(t, arg)
             \/ aether_verify(t, arg)
             \/ aether_list(t, arg)
             \/ \E base \in {"dir"} \cup BadPath, name \in NameArg, n \in 0 .. MaxFfiFiles + 1 :
                   AtMostOneBad(<<base, arg, name>>) /\ aether_compress(t, base, arg, n, name)
             \/ \E outdir \in OutArg :
                   AtMostOneBad(<<arg, outdir>>) /\ aether_extract_all(t, arg, outdir)
             \/ \E outdir \in OutArg, name \in NameArg :
                   AtMostOneBad(<<arg, name, outdir>>) /\ aether_extract_file(t, arg, name, outdir)
       \/ set_max_threads(t)
       \/ compressor_free(t)
       \/ decompressor_free(t)
       \/ aether_file_list_free(t)
       \/ aether_last_error(t)
       \/ aether_error_free(t)

FfiSpec == FfiInit /\ [][FfiNext]_ffiVars

------------------------------------------------------------------------------
(* Who owns what: each thread's variables and its last error. *)

Slots == Thread \X {"compressor", "decompressor", "list", "message", "last_error"}
PtrIn(s) == IF s[2] = "last_error" THEN last_error[s[1]] ELSE var[s[1]][s[2]]

\* Through any sequence of calls and failures of several threads, every live
\* allocation has exactly one owner (a caller's variable, a thread's last
\* error or another allocation) and no owner points to a freed one: nothing
\* leaks, nothing is freed twice, a message a caller holds outlives the
\* next error, and the count of a list is that of the infos behind it.
HeapExact ==
    /\ \A s \in Slots : PtrIn(s) \in DOMAIN heap \cup {Null}
    /\ \A p \in DOMAIN heap :
          /\ Children(heap[p]) \subseteq DOMAIN heap
          /\ Cardinality({s \in Slots : PtrIn(s) = p})
               + Cardinality({q \in DOMAIN heap : p \in Children(heap[q])}) = 1
    /\ \A t \in Thread :
          var[t].list # Null =>
             Cardinality(OwnedBy(var[t].list))
               = aether_file_list_count(t) + (IF aether_file_list_count(t) = 0 THEN 1 ELSE 2)

\* A thread whose last call failed finds the message of this call, whatever
\* other threads did since.  A call refused for its arguments has written
\* nothing, and neither has an extraction of an archive in which the path of
\* any entry is empty or leads through a symlink, wherever in the archive it
\* is: the library validates these for all entries beforehand.  A name only
\* the core refuses is found when the entries before it are written already.
FailuresReported ==
    \A t \in Thread :
       last[t].reason # "OK" =>
          /\ last_error[t] \in DOMAIN heap /\ heap[last_error[t]] = CStr(last[t].reason)
          /\ last[t].reason \in Refusals => ~last[t].wrote
==============================================================================
