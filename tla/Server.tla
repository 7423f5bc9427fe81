------------------------------- MODULE Server -------------------------------
(***************************************************************************)
(* aether-server: the handlers of routes.rs behind the concurrency limit   *)
(* of main.rs.  A handler is an asynchronous call that holds one permit of *)
(* its route while it runs; its work is done by a blocking task that it    *)
(* waits for with a timeout and that nobody can cancel: it runs on after a *)
(* timeout and after the client has gone.                                  *)
(*                                                                         *)
(* A request is a record [kind, authorized, fields]; its kind is its POST  *)
(* route.  A field is a record [name, data, fault]: fault is "none",       *)
(* "large" (over MAX_FIELD_SIZE) or "broken" (its bytes cannot be read).   *)
(* A file name is a record of the parts the code joins: "1_2_file_3" is    *)
(* Name(<<1, 2>>, "file", 3) and "a" is Name(<< >>, "a", 0).  Names are    *)
(* given as sanitize_filename leaves them, NoName where it falls back.     *)
(***************************************************************************)
EXTENDS Integers, Sequences, FiniteSets, Functions

CONSTANTS Requests,          \* the requests
          Bodies,            \* what the requests may hold, as functions of them
          Stems,             \* file names without the numbers the server adds
          Data,              \* contents of fields
          Permits,           \* of the ConcurrencyLimitLayer, for each route
          MaxServerFileCount \* MAX_SERVER_FILE_COUNT

FileName == [prefix : Seq(Nat), stem : Stems, index : Nat]
Field == [name : FileName, data : Data, fault : {"none", "large", "broken"}]
Kinds == {"compress", "extract", "verify", "list"}
Request == [kind : Kinds, authorized : BOOLEAN, fields : Seq(Field)]

ASSUME ServerAssumption ==
    /\ Permits \in Nat \ {0} /\ MaxServerFileCount \in Nat
    /\ {"", "file"} \subseteq Stems
    /\ Bodies \subseteq [Requests -> Request]

Name(prefix, stem, index) == [prefix |-> prefix, stem |-> stem, index |-> index]
NoName == Name(<< >>, "", 0)

\* A directory maps its file names to their data; none holds NoName.
NoDir == [name \in {NoName} |-> 0]
EmptyDir == [name \in {} |-> 0]

VARIABLES body,      \* the record of each request
          pc,        \* its handler: "waiting", "upload", "running" or "done"
          answer,    \* [status, files]
          taken,     \* the fields taken from the upload, in order
          counters,  \* name_counters
          dir,       \* the temporary directory of the request
          task,      \* its blocking task
          todo,      \* the files the task has still to read
          archived,  \* the files the task has read
          dropped    \* history: the files the directory listing passed over

vars == <<body, pc, answer, taken, counters, dir, task, todo, archived, dropped>>
upload == <<taken, counters>>
work == <<task, todo, archived, dropped>>

Active(r) == pc[r] \in {"upload", "running"}
TaskEnded(r) == task[r] \in {"none", "ok", "failed"}

NoAnswer == [status |-> 0, files |-> {}]

Init == /\ body \in Bodies
        /\ pc = [r \in Requests |-> "waiting"]
        /\ answer = [r \in Requests |-> NoAnswer]
        /\ taken = [r \in Requests |-> << >>]
        /\ counters = [r \in Requests |-> EmptyDir]
        /\ dir = [r \in Requests |-> NoDir]
        /\ task = [r \in Requests |-> "none"]
        /\ todo = [r \in Requests |-> {}]
        /\ archived = [r \in Requests |-> {}]
        /\ dropped = [r \in Requests |-> {}]

\* Dropping a TempDir removes the directory.  The handler of /compress owns
\* one; that of /extract is owned by the task.  Mutant: nobody removes it.
KeepDir(r) == UNCHANGED dir
DropDir(r) == dir' = [dir EXCEPT ![r] = NoDir]

\* The handler returns or is dropped: its locals go, its permit with them.
Leave(r, status, files) ==
    /\ pc' = [pc EXCEPT ![r] = "done"]
    /\ answer' = [answer EXCEPT ![r] = [status |-> status, files |-> files]]
    /\ IF body[r].kind = "compress" THEN DropDir(r) ELSE UNCHANGED dir
    /\ UNCHANGED <<body, upload>>

Reject(r, status) == Leave(r, status, {}) /\ UNCHANGED work

------------------------------------------------------------------------------
\* The layer, which Router::layer puts on each route by itself, lets a request
\* in when a permit of its route is free; check_auth.
Admit(r) ==
    /\ pc[r] = "waiting"
    /\ Cardinality({q \in Requests : Active(q) /\ body[q].kind = body[r].kind}) < Permits
    /\ IF ~body[r].authorized THEN Reject(r, 401)
       ELSE /\ pc' = [pc EXCEPT ![r] = "upload"]
            /\ dir' = IF body[r].kind = "compress" THEN [dir EXCEPT ![r] = EmptyDir] ELSE dir
            /\ UNCHANGED <<body, answer, upload, work>>

NextField(r) == body[r].fields[Len(taken[r]) + 1]

\* sanitize_filename's fallback is numbered by file_count.
SafeName(r) == IF NextField(r).name = NoName THEN Name(<< >>, "file", Len(taken[r]))
               ELSE NextField(r).name

Counter(r, base) == IF base \in DOMAIN counters[r] THEN counters[r][base] ELSE 1

\* "{counter}_{base}"
Numbered(c, base) == [base EXCEPT !.prefix = <<c>> \o @]

\* The first free "{counter}_{base}" from the counter on.  Mutant: the counter
\* alone is trusted.
TrustedCounter(r, base) == Counter(r, base)
FreeCounter(r, base) ==
    CHOOSE c \in Counter(r, base) .. Counter(r, base) + Cardinality(DOMAIN dir[r]) :
       /\ Numbered(c, base) \notin DOMAIN dir[r]
       /\ \A b \in Counter(r, base) .. c - 1 : Numbered(b, base) \in DOMAIN dir[r]

\* fs::write: create the file or overwrite it.
Put(r, name, data) ==
    dir' = [dir EXCEPT ![r] = [p \in DOMAIN @ \cup {name} |-> IF p = name THEN data ELSE @[p]]]

\* The loop of /compress: one field becomes one file.  (used_names holds the
\* names in the directory.)
TakeField(r) ==
    LET base == SafeName(r) IN
    /\ pc[r] = "upload" /\ body[r].kind = "compress"
    /\ Len(taken[r]) < Len(body[r].fields)
    /\ IF Len(taken[r]) >= MaxServerFileCount \/ NextField(r).fault # "none"
       THEN Reject(r, 400)
       ELSE /\ IF base \notin DOMAIN dir[r]
               THEN Put(r, base, NextField(r).data) /\ UNCHANGED counters
               ELSE /\ Put(r, Numbered(FreeCounter(r, base), base), NextField(r).data)
                    /\ counters' = [counters EXCEPT ![r] =
                          [b \in DOMAIN @ \cup {base} |->
                             IF b = base THEN FreeCounter(r, base) + 1 ELSE @[b]]]
            /\ taken' = [taken EXCEPT ![r] = Append(@, NextField(r))]
            /\ UNCHANGED <<body, pc, answer, work>>

\* The loop ends with the last field, and with an error of next_field as well:
\* an upload that breaks off between two fields is compressed as far as it got.
\* So is what the listing of the directory yields: an entry that cannot be read,
\* or whose type cannot be determined, is passed over without an error.
EndUpload(r) ==
    /\ pc[r] = "upload" /\ body[r].kind = "compress"
    /\ IF taken[r] = << >> THEN Reject(r, 400)
       ELSE \E listed \in SUBSET DOMAIN dir[r] :
            /\ pc' = [pc EXCEPT ![r] = "running"]
            /\ task' = [task EXCEPT ![r] = "reading"]
            /\ todo' = [todo EXCEPT ![r] = listed]
            /\ dropped' = [dropped EXCEPT ![r] =
                  {<<p, dir[r][p]>> : p \in DOMAIN dir[r] \ listed}]
            /\ UNCHANGED <<body, answer, upload, dir, archived>>

\* read_archive_field, then the task of /extract, /verify or /list.
TakeArchive(r) ==
    /\ pc[r] = "upload" /\ body[r].kind # "compress"
    /\ IF body[r].fields = << >> THEN Reject(r, 400)
       ELSE IF body[r].fields[1].fault # "none" THEN Reject(r, 400)
       ELSE /\ pc' = [pc EXCEPT ![r] = "running"]
            /\ task' = [task EXCEPT ![r] = "checking"]
            /\ UNCHANGED <<body, answer, upload, dir, todo, archived, dropped>>

\* An operation of the handler fails: a directory that cannot be made or opened
\* for listing, a file that cannot be written, an upload that breaks off within
\* a field.
FailUpload(r) == pc[r] = "upload" /\ \E status \in {400, 500} : Reject(r, status)

------------------------------------------------------------------------------
(* The blocking tasks.                                                     *)

\* compress_to_archive reads the files of the directory listing one by one;
\* after a timeout they are gone.
ReadFile(r) ==
    /\ task[r] = "reading"
    /\ \E p \in todo[r] :
          IF dir[r] = NoDir
          THEN task' = [task EXCEPT ![r] = "failed"] /\ UNCHANGED <<todo, archived>>
          ELSE /\ todo' = [todo EXCEPT ![r] = @ \ {p}]
               /\ archived' = [archived EXCEPT ![r] = @ \cup {<<p, dir[r][p]>>}]
               /\ UNCHANGED task
    /\ UNCHANGED <<body, pc, answer, upload, dir, dropped>>

FinishCompress(r) ==
    /\ task[r] = "reading" /\ todo[r] = {}
    /\ \E end \in {"ok", "failed"} : task' = [task EXCEPT ![r] = end]
    /\ UNCHANGED <<body, pc, answer, upload, dir, todo, archived, dropped>>

\* The checks on the uploaded archive; /verify and /list end with them,
\* /extract goes on in a directory of its own.
CheckArchive(r) ==
    /\ task[r] = "checking"
    /\ \/ /\ task' = [task EXCEPT ![r] = "failed"]
          /\ UNCHANGED dir
       \/ /\ body[r].kind \in {"verify", "list"}
          /\ task' = [task EXCEPT ![r] = "ok"]
          /\ UNCHANGED dir
       \/ /\ body[r].kind = "extract"
          /\ task' = [task EXCEPT ![r] = "extracting"]
          /\ dir' = [dir EXCEPT ![r] = EmptyDir]
    /\ UNCHANGED <<body, pc, answer, upload, todo, archived, dropped>>

\* extract_all and collect_extracted; the task's TempDir goes with it.
FinishExtract(r) ==
    /\ task[r] = "extracting"
    /\ \E end \in {"ok", "failed"} : task' = [task EXCEPT ![r] = end]
    /\ DropDir(r)
    /\ UNCHANGED <<body, pc, answer, upload, todo, archived, dropped>>

------------------------------------------------------------------------------
Respond(r) ==
    /\ pc[r] = "running" /\ TaskEnded(r)
    /\ IF task[r] = "ok" THEN Leave(r, 200, archived[r])
       ELSE \E status \in {400, 500} : Leave(r, status, {})
    /\ UNCHANGED work

\* BLOCKING_TIMEOUT is over: the handler answers, the task goes on.
\* Mutant: the handler waits for the task.
TimeoutAfterTask(r) == Respond(r)
Timeout(r) ==
    /\ pc[r] = "running" /\ ~TaskEnded(r)
    /\ Reject(r, 500)

\* The client goes away: the handler is dropped where it is.
Disconnect(r) == (Active(r) \/ pc[r] = "waiting") /\ Reject(r, 0)

Handler(r) == Admit(r) \/ TakeField(r) \/ EndUpload(r) \/ TakeArchive(r) \/ FailUpload(r)
Task(r) == ReadFile(r) \/ FinishCompress(r) \/ CheckArchive(r) \/ FinishExtract(r)

Next == \E r \in Requests :
           Handler(r) \/ Task(r) \/ Respond(r) \/ Timeout(r) \/ Disconnect(r)

Spec == Init /\ [][Next]_vars

\* The runtime polls the handlers and its timers; nothing is assumed of the
\* clients and of the time a task takes.
FairSpec == Spec /\ \A r \in Requests : WF_vars(Respond(r) \/ Timeout(r))

------------------------------------------------------------------------------
(* Properties.                                                             *)

Uploaded(r, d) == Cardinality({i \in DOMAIN taken[r] : taken[r][i].data = d})
Holding(files, d) == Cardinality({x \in files : x[2] = d})

\* An archive /compress returns holds each field it took once, but for what the
\* directory listing passed over, whatever names the fields had: two of them
\* never become one file, and a directory that is removed while it is read
\* never gives an archive.
NoUploadLost ==
    \A r \in Requests :
       (answer[r].status = 200 /\ body[r].kind = "compress") =>
          \A d \in {f.data : f \in Range(taken[r])} :
             Holding(answer[r].files, d) + Holding(dropped[r], d) = Uploaded(r, d)

\* No temporary directory is left when the handler and the task of a request
\* have ended, however they ended and in whatever order.
NoDirLeft ==
    \A r \in Requests : (pc[r] = "done" /\ TaskEnded(r)) => dir[r] = NoDir

\* A request whose task has started is answered although the task may never
\* end.
AnsweredInTime == \A r \in Requests : pc[r] = "running" ~> pc[r] = "done"

\* "Limit concurrent blocking operations to prevent thread pool starvation"
\* (main.rs), with as many permits as the layer gives a route.
BlockingBounded ==
    \A k \in Kinds :
       Cardinality({r \in Requests : ~TaskEnded(r) /\ body[r].kind = k}) <= Permits
==============================================================================
