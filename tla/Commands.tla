------------------------------ MODULE Commands -------------------------------
(***************************************************************************)
(* The command line tool (aether-cli/src/main.rs) and the migrator         *)
(* (aether-core/src/pipeline/migrate.rs): several `aet` processes run one  *)
(* command after another on one file system.  A file's content is what a   *)
(* later command can find out about it.  A file opened for writing is      *)
(* shared by everyone who opened it: truncating it does not take it away   *)
(* from an earlier writer, renaming another file over it does.             *)
(***************************************************************************)
EXTENDS Dictionaries

CONSTANTS Process,
          Path,          \* the files: pairs of a directory and a name
          Jobs,          \* the command lines users give
          InitialFs,     \* content of the files before the first command
          WeakPasswords, \* passwords validate_password refuses
          MaxCommands    \* bound: commands started in all

\* There are no archives yet: those that commands find are made by commands.
ASSUME CommandsAssumption ==
    /\ DOMAIN InitialFs = Path
    /\ \A path \in Path : InitialFs[path].kind \in {"absent", "data", "dict"}
    /\ \A job \in Jobs :
          /\ job.cmd \in {"compress", "train", "migrate", "extract_file"} => job.output \in Path
          /\ job.cmd \notin {"compress", "train"} => job.source \in Path

VARIABLES fs, proc, started

commandVars == <<fs, proc, started>>

------------------------------------------------------------------------------
(* Contents *)

Absent == [kind |-> "absent"]
Empty == [kind |-> "empty"]                        \* created, or truncated
Torn(by) == [kind |-> "torn", by |-> by]           \* being written, or left so
Mixed == Torn("several")                           \* by several writers
Data(text) == [kind |-> "data", text |-> text]
DictFile(dict) == [kind |-> "dict", dict |-> dict]
\* `coded` are the files with a block a predictor coded; an empty file has no
\* block.
Archive(entries, predictor, dict, baseline, password, coded) ==
    [kind |-> "archive", entries |-> entries, predictor |-> predictor,
     hash |-> IF dict = None THEN None ELSE hash(dict), baseline |-> baseline,
     password |-> password, coded |-> {n \in coded \cap DOMAIN entries : entries[n] # Empty}]

Complete(c) == c.kind \in {"data", "dict", "archive"}

\* What reading a file gives: a torn one is the bytes written so far.
Snapshot(c) == IF c.kind = "torn" THEN [kind |-> "partial"] ELSE c

NoPath == << "", "" >>
NoPassword == "none"

\* A command line.  `dir` and `file` are the inputs of compress and train
\* (the unused one empty), `source` the archive the others read, `output`
\* the file written, or `into` the directory extracted to.
Job(cmd, dir, file, source, output, into, force, predictor, dict, password, auto) ==
    [cmd |-> cmd, dir |-> dir, file |-> file, source |-> source, output |-> output,
     into |-> into, force |-> force, predictor |-> predictor, dict |-> dict,
     password |-> password, auto |-> auto]

------------------------------------------------------------------------------
(* Reading *)

Refused(torn) == [ok |-> FALSE, torn |-> torn]

\* The files of a directory, or one file; a missing file is an error.
collect_files(job) ==
    {p \in Path : fs[p] # Absent /\ (p[1] = job.dir \/ p = job.file)}

\* What the collected files hold when they are read, by their names.
ReadAll(files) ==
    [name \in {p[2] : p \in files} |-> Snapshot(fs[CHOOSE p \in files : p[2] = name])]

resolve_password(password) == password \notin WeakPasswords

\* --dictionary: nothing, or a file that must load.
DictGiven(path) == path # NoPath
LoadsDict(path) == DictGiven(path) => fs[path].kind = "dict"
LoadDict(path) == IF DictGiven(path) THEN fs[path].dict ELSE None

archive_uses_dictionary(archive) == archive.hash # None

\* Mutant: the built-in dictionary is attached to every archive.
attach_always(given, archive) == IF given # None THEN given ELSE for_content_type(TRUE)

\* build_decompressor: without --dictionary the built-in one is attached to
\* an archive that has used one.
build_decompressor(given, archive) ==
    IF given # None THEN given
    ELSE IF archive_uses_dictionary(archive) THEN for_content_type(TRUE) ELSE None

Opens(archive, password) == archive.password \in {NoPassword, password}

Names(archive) == DOMAIN archive.entries

\* extract_all and extract_file of aether-core, which decodes the blocks of the
\* files it extracts.
CoreExtracts(archive, names, dict, predictor, password) ==
    /\ validate_dictionary(archive.hash, dict)
    /\ Opens(archive, password)
    /\ Decodes(archive, names, dict, predictor)

\* verify of aether-core: the dictionary's hash is not looked at.
CoreVerifies(archive, dict, predictor, password) ==
    Opens(archive, password) /\ Decodes(archive, Names(archive), dict, predictor)

resolve_predictor(name, archive) == IF name = "auto" THEN archive.predictor ELSE name

CliExtracts(archive, names, given, name, password) ==
    CoreExtracts(archive, names, build_decompressor(given, archive),
                 resolve_predictor(name, archive), password)

------------------------------------------------------------------------------
(* What a command that creates its output will write, decided after it has  *)
(* created it.  `entries` and `given` are kept for what is promised of the  *)
(* result; `torn` says that the header was written before the failure.      *)

Compressed(entries, predictor, given, password, coded) ==
    LET dict == with_dictionary(predictor, given)
        baseline == encode_baseline(predictor, dict)
    IN  IF baseline.ok
        THEN [ok |-> TRUE, entries |-> entries, given |-> given,
              content |-> Archive(entries, predictor, dict, baseline.val, password, coded)]
        ELSE Refused(TRUE)

make_predictor_factory(name) == name \in Predictors

AutoDict(job) == job.auto /\ ~DictGiven(job.dict)

\* --auto-dict goes by the content type of the first file collected.  Both
\* of its passes use the built-in dictionary, the first because it is told to
\* and the second because new compressors have it, and the second is kept.
compress_plan(job, first, coded) ==
    LET files == collect_files(job) IN
    IF AutoDict(job) /\ (job.password # NoPassword \/ files = {}) THEN Refused(FALSE)
    ELSE IF AutoDict(job) /\ for_content_type(first = Data(TRUE)) # None
    THEN Compressed(ReadAll(files), "NeuralSsm", None, NoPassword, coded)
    ELSE IF \/ ~make_predictor_factory(job.predictor)
            \/ ~LoadsDict(job.dict) \/ ~resolve_password(job.password) \/ files = {}
    THEN Refused(FALSE)
    ELSE Compressed(ReadAll(files), job.predictor, LoadDict(job.dict), job.password, coded)

train_plan(job) ==
    LET files == collect_files(job)
        dict == IF job.predictor = "NeuralSsm"
                THEN train_transformed(job.predictor, ReadAll(files))
                ELSE train(job.predictor, ReadAll(files))
    IN  IF ~make_predictor_factory(job.predictor) \/ files = {} \/ dict = None
        THEN Refused(FALSE)
        ELSE [ok |-> TRUE, entries |-> None, given |-> None, content |-> DictFile(dict)]

\* The source is looked at only now: it may be the file just truncated.  No
\* dictionary is attached to the source's decompressor, its hash is resolved
\* by aether-core; an archive without files leaves the output empty.  Here
\* one password is given for the source and for the target.
migrate_plan(job, coded) ==
    LET source == fs[job.source] IN
    IF \/ source.kind # "archive"
       \/ ~make_predictor_factory(resolve_predictor(job.predictor, source))
       \/ ~LoadsDict(job.dict)
       \/ ~resolve_password(job.password)
       \/ ~CoreExtracts(source, Names(source), None, source.predictor, job.password)
    THEN Refused(FALSE)
    ELSE IF DOMAIN source.entries = {}
    THEN [ok |-> TRUE, entries |-> None, given |-> None, content |-> Empty]
    ELSE Compressed(source.entries, resolve_predictor(job.predictor, source),
                    LoadDict(job.dict), job.password, coded)

\* extract --file: the archive is read after the output was truncated.
extract_file_plan(job) ==
    LET source == fs[job.source] IN
    IF /\ source.kind = "archive"
       /\ CliExtracts(source, {job.output[2]}, LoadDict(job.dict), job.predictor, job.password)
       /\ job.output[2] \in DOMAIN source.entries
    THEN [ok |-> TRUE, entries |-> None, given |-> None,
          content |-> source.entries[job.output[2]]]
    ELSE Refused(FALSE)

\* The first file collected decides about --auto-dict; directories are read
\* in any order.
Firsts(job) ==
    IF job.cmd = "compress" /\ AutoDict(job) /\ collect_files(job) # {}
    THEN {fs[p] : p \in collect_files(job)} ELSE {Absent}

\* Which files of a new archive the predictors code better than zstd does is
\* up to their data.
Codings(job) ==
    CASE job.cmd = "compress" -> SUBSET {p[2] : p \in collect_files(job)}
      [] job.cmd = "migrate" /\ fs[job.source].kind = "archive" -> SUBSET Names(fs[job.source])
      [] OTHER -> {{}}

Plan(job, first, coded) ==
    CASE job.cmd = "compress" -> compress_plan(job, first, coded)
      [] job.cmd = "train" -> train_plan(job)
      [] job.cmd = "migrate" -> migrate_plan(job, coded)
      [] job.cmd = "extract_file" -> extract_file_plan(job)

------------------------------------------------------------------------------
(* Processes *)

NoPlan == [ok |-> FALSE, entries |-> None, given |-> None, content |-> Absent]
IdleProcess ==
    [pc |-> "idle", job |-> None, plan |-> NoPlan, exit |-> 0,
     fresh |-> FALSE,     \* the output did not exist when it was opened
     holds |-> FALSE,     \* the open output is still the one at its path
     alone |-> FALSE]     \* nobody else has touched the output

CommandsInit ==
    /\ fs = InitialFs
    /\ proc = [p \in Process |-> IdleProcess]
    /\ started = 0

Start(p, job) ==
    /\ proc[p].pc \in {"idle", "done"}
    /\ started < MaxCommands
    /\ started' = started + 1
    /\ proc' = [proc EXCEPT ![p] = [IdleProcess EXCEPT !.pc = "started", !.job = job]]
    /\ UNCHANGED fs

Exit(p, code) == [proc EXCEPT ![p].pc = "done", ![p].exit = code]

\* procs after p has changed the file at path: writers of the same file are
\* no longer alone, and have lost it if another was renamed over it.
Touched(procs, p, path, renamed) ==
    [q \in Process |->
       IF q # p /\ procs[q].pc \notin {"idle", "started"} /\ procs[q].job.output = path
       THEN [procs[q] EXCEPT !.alone = FALSE, !.holds = @ /\ ~renamed] ELSE procs[q]]

OthersHold(p, path) ==
    \E q \in Process \ {p} :
       proc[q].pc \in {"created", "planned", "writing"} /\ proc[q].holds
          /\ proc[q].job.output = path

\* Mutant: what is there is not looked at.
CanCreateUnchecked(job) == TRUE

\* create_output_file opens with create_new unless --force is given;
\* extract --file always truncates.
CanCreate(job) == job.force \/ fs[job.output] = Absent

create_output_file(p) ==
    LET job == proc[p].job
        opened == [proc EXCEPT ![p].pc = "created", ![p].holds = TRUE,
                               ![p].fresh = fs[job.output] = Absent,
                               ![p].alone = ~OthersHold(p, job.output)]
    IN  /\ \/ proc[p].pc = "started" /\ job.cmd \in {"compress", "train", "migrate"}
           \/ proc[p].pc = "opened"
        /\ IF CanCreate(job)
           THEN /\ fs' = [fs EXCEPT ![job.output] = Empty]
                /\ proc' = Touched(opened, p, job.output, FALSE)
           ELSE /\ proc' = Exit(p, 1)
                /\ UNCHANGED fs
        /\ UNCHANGED started

\* The content of the output once p has written some of it.
Dirtied(p, c) ==
    IF ~proc[p].holds THEN c
    ELSE IF c = Empty /\ proc[p].pc # "writing" THEN Torn(p)
    ELSE IF c = Torn(p) THEN c ELSE Mixed

Prepare(p) ==
    LET job == proc[p].job IN
    /\ proc[p].pc = "created"
    /\ \E first \in Firsts(job), coded \in Codings(job) :
          LET plan == Plan(job, first, coded) IN
          IF plan.ok
          THEN /\ proc' = [proc EXCEPT ![p].pc = "planned", ![p].plan = plan]
               /\ UNCHANGED fs
          ELSE /\ fs' = [fs EXCEPT ![job.output] = IF plan.torn THEN Dirtied(p, @) ELSE @]
               /\ proc' = Touched(Exit(p, 1), p, IF plan.torn THEN job.output ELSE NoPath, FALSE)
    /\ UNCHANGED started

BeginWrite(p) ==
    /\ proc[p].pc = "planned"
    /\ fs' = [fs EXCEPT ![proc[p].job.output] = Dirtied(p, @)]
    /\ proc' = Touched([proc EXCEPT ![p].pc = "writing"], p, proc[p].job.output, FALSE)
    /\ UNCHANGED started

\* The last write: the file is complete if no one else wrote to it.
EndWrite(p) ==
    /\ proc[p].pc = "writing"
    /\ LET path == proc[p].job.output IN
       /\ fs' = [fs EXCEPT ![path] = IF proc[p].holds /\ @ = Torn(p)
                                     THEN proc[p].plan.content ELSE Dirtied(p, @)]
       /\ proc' = Touched(Exit(p, 0), p, path, FALSE)
    /\ UNCHANGED started

\* An I/O error, or the end of the process, while it writes.
FailWrite(p) ==
    /\ proc[p].pc = "writing"
    /\ fs' = [fs EXCEPT ![proc[p].job.output] = Dirtied(p, @)]
    /\ proc' = Touched(Exit(p, 1), p, proc[p].job.output, FALSE)
    /\ UNCHANGED started

------------------------------------------------------------------------------
(* Reading archives *)

\* The header of a torn archive may be there already.
HeaderReads(c) == IF c.kind = "torn" THEN BOOLEAN ELSE {c.kind = "archive"}

ReadCommand(p, cmd) == proc[p].pc = "started" /\ proc[p].job.cmd = cmd

\* extract --file up to the opened archive: the predictor, the dictionary
\* and the password are resolved before the output is touched.
OpenForOne(p) ==
    LET job == proc[p].job IN
    /\ ReadCommand(p, "extract_file")
    /\ \E header \in HeaderReads(fs[job.source]) :
          IF header /\ LoadsDict(job.dict) /\ resolve_password(job.password)
          THEN proc' = [proc EXCEPT ![p].pc = "opened"]
          ELSE proc' = Exit(p, 1)
    /\ UNCHANGED <<fs, started>>

\* Extraction decodes every block before it writes the first file.
extract_all(p) ==
    LET job == proc[p].job
        source == fs[job.source]
    IN  /\ ReadCommand(p, "extract")
        /\ IF /\ source.kind = "archive" /\ LoadsDict(job.dict) /\ resolve_password(job.password)
              /\ CliExtracts(source, Names(source), LoadDict(job.dict), job.predictor, job.password)
           THEN proc' = [proc EXCEPT ![p].pc = "extracting", ![p].plan.entries = source.entries]
           ELSE proc' = Exit(p, 1)
        /\ UNCHANGED <<fs, started>>

\* Each file is renamed into place; a file that cannot be written ends the
\* command with the rest unwritten.
WriteEntry(p, name) ==
    LET path == <<proc[p].job.into, name>>
        entries == proc[p].plan.entries
    IN  /\ proc[p].pc = "extracting"
        /\ name \in DOMAIN entries
        /\ fs' = [fs EXCEPT ![path] = entries[name]]
        /\ proc' = Touched([proc EXCEPT ![p].plan.entries =
                              [n \in DOMAIN entries \ {name} |-> entries[n]]], p, path, TRUE)
        /\ UNCHANGED started

EndExtract(p, code) ==
    /\ proc[p].pc = "extracting"
    /\ code = 0 <=> DOMAIN proc[p].plan.entries = {}
    /\ proc' = Exit(p, code)
    /\ UNCHANGED <<fs, started>>

\* verify has no --dictionary.
Verify(p) ==
    LET job == proc[p].job
        source == fs[job.source]
    IN  /\ ReadCommand(p, "verify")
        /\ IF /\ source.kind = "archive" /\ resolve_password(job.password)
              /\ CoreVerifies(source, build_decompressor(None, source),
                              resolve_predictor(job.predictor, source), job.password)
           THEN proc' = [Exit(p, 0) EXCEPT ![p].plan.content = source]
           ELSE proc' = Exit(p, 1)
        /\ UNCHANGED <<fs, started>>

\* list needs neither password nor dictionary.
List(p) ==
    /\ ReadCommand(p, "list")
    /\ proc' = Exit(p, IF fs[proc[p].job.source].kind = "archive" THEN 0 ELSE 1)
    /\ UNCHANGED <<fs, started>>

CommandsNext ==
    \E p \in Process :
       \/ \E job \in Jobs : Start(p, job)
       \/ create_output_file(p)
       \/ Prepare(p)
       \/ BeginWrite(p)
       \/ EndWrite(p)
       \/ FailWrite(p)
       \/ OpenForOne(p)
       \/ extract_all(p)
       \/ \E name \in {path[2] : path \in Path} : WriteEntry(p, name)
       \/ \E code \in {0, 1} : EndExtract(p, code)
       \/ Verify(p)
       \/ List(p)

CommandsSpec == CommandsInit /\ [][CommandsNext]_commandVars

------------------------------------------------------------------------------
\* Whatever commands run at the same time, a complete file is changed only by
\* a command that was told to overwrite it (--force, or an extraction to
\* where it is) or that created it itself: create_new leaves no time between
\* looking for the file and creating it.
CompleteFilesKept ==
    [][\A path \in Path :
         Complete(fs[path]) /\ fs'[path] # fs[path] =>
            \E p \in Process :
               /\ proc'[p] # proc[p]
               /\ \/ /\ proc[p].job.output = path
                     /\ proc[p].job.force \/ proc[p].fresh
                  \/ proc[p].pc = "extracting" /\ path[1] = proc[p].job.into]_fs

\* A compression or migration that ended with 0, and whose output nobody
\* else has touched, has left an archive of what it read that extract opens
\* with the same password and dictionary and no other option.  What verify has
\* passed, extract opens with the options of verify, unless the archive names
\* a user's dictionary that none of its blocks needs: verify decodes such an
\* archive without it, extract refuses the hash.
SuccessReadable ==
    \A p \in Process :
       proc[p].pc = "done" /\ proc[p].exit = 0 =>
          LET job == proc[p].job
              plan == proc[p].plan
          IN  /\ job.cmd \in {"compress", "migrate"} /\ proc[p].alone =>
                    /\ fs[job.output].kind = "archive"
                    /\ fs[job.output].entries = plan.entries
                    /\ CliExtracts(fs[job.output], Names(fs[job.output]), plan.given, "auto",
                                   job.password)
              /\ /\ job.cmd = "verify"
                 /\ \/ plan.content.coded # {}
                    \/ plan.content.hash \in {None, hash(TextDict)}
                 => CliExtracts(plan.content, Names(plan.content), None, job.predictor,
                                job.password)
==============================================================================
