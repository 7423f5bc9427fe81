--------------------------- MODULE Frontends_proofs ---------------------------
(***************************************************************************)
(* Proofs about the commands, the C interface and encryption, for any      *)
(* processes, files and command lines, any threads and archives, and any   *)
(* passwords, blocks and damages, widths of the block ids and costs.       *)
(***************************************************************************)
EXTENDS Commands, CFfi, Crypto, FiniteSetTheorems, TLAPS

(* Part 1: the commands.                                                   *)

\* The archives in S are not empty, are coded with the dictionary they name,
\* as far as their files need one, and what they hold is in S again.
Closed(S) ==
    \A c \in S : c.kind = "archive" =>
       /\ DOMAIN c.entries # {}
       /\ c.baseline \in {None, c.hash} /\ c.coded \subseteq DOMAIN c.entries
       /\ \A n \in DOMAIN c.entries : c.entries[n] \in S

\* Content that commands can have made, through any depth of archives.
Made(c) == \E S : c \in S /\ Closed(S)

\* What a compression or migration promises of the archive it plans to write.
Promised(job, plan) ==
    job.cmd \in {"compress", "migrate"} =>
       /\ plan.content.kind = "archive"
       /\ plan.content.entries = plan.entries
       /\ CliExtracts(plan.content, Names(plan.content), plan.given, "auto", job.password)

PlanShape(x) == x = [ok |-> x.ok, entries |-> x.entries, given |-> x.given, content |-> x.content]

Shape(r) == r = [pc |-> r.pc, job |-> r.job, plan |-> r.plan, exit |-> r.exit,
                 fresh |-> r.fresh, holds |-> r.holds, alone |-> r.alone]

Writers == {"compress", "train", "migrate", "extract_file"}

\* A process while it has its output open: what it may overwrite, and what
\* is there as long as nobody else has touched it.
WriterOk(p, r, F) ==
    r.pc \in {"created", "planned", "writing"} =>
       /\ r.job.cmd \in Writers
       /\ r.job.force \/ r.fresh
       /\ r.alone => r.holds /\ F[r.job.output] = IF r.pc = "writing" THEN Torn(p) ELSE Empty
       /\ r.pc # "created" => Made(r.plan.content) /\ Promised(r.job, r.plan)

\* What verify's success promises of the archive it has read.
Verified(c, predictor, password) ==
    c.coded # {} \/ c.hash \in {None, hash(TextDict)} =>
       CliExtracts(c, Names(c), None, predictor, password)

\* A process that has succeeded.
DoneOk(r, F) ==
    r.pc = "done" /\ r.exit = 0 =>
       /\ r.job.cmd \in {"compress", "migrate"} =>
             Promised(r.job, r.plan) /\ (r.alone => F[r.job.output] = r.plan.content)
       /\ r.job.cmd = "verify" => Verified(r.plan.content, r.job.predictor, r.job.password)

ProcOk(p, r, F) ==
    /\ Shape(r) /\ PlanShape(r.plan)
    /\ r.pc # "idle" => r.job \in Jobs
    /\ r.pc = "opened" => r.job.cmd = "extract_file"
    /\ r.pc = "extracting" => /\ r.job.cmd = "extract"
                              /\ \A n \in DOMAIN r.plan.entries : Made(r.plan.entries[n])
    /\ WriterOk(p, r, F)
    /\ DoneOk(r, F)

\* The inductive invariant of the commands.
CInv ==
    /\ DOMAIN fs = Path /\ DOMAIN proc = Process
    /\ \A path \in Path : Made(fs[path])
    /\ \A p \in Process : ProcOk(p, proc[p], fs)

------------------------------------------------------------------------------
(* Contents.                                                               *)

\* What is no archive holds nothing.
LEMMA PlainMade == ASSUME NEW c, c.kind # "archive" PROVE Made(c)
  <1>1. Closed({c})
    BY DEF Closed
  <1> QED BY <1>1 DEF Made

\* What is known of an archive that commands have made.
LEMMA MadeArchive ==
    ASSUME NEW c, Made(c), c.kind = "archive"
    PROVE  /\ DOMAIN c.entries # {} /\ c.baseline \in {None, c.hash}
           /\ c.coded \subseteq DOMAIN c.entries
           /\ \A n \in DOMAIN c.entries : Made(c.entries[n])
  BY DEF Made, Closed

\* An archive of such contents is one.
LEMMA ArchiveMade ==
    ASSUME NEW c, c.kind = "archive", DOMAIN c.entries # {}, c.baseline \in {None, c.hash},
           c.coded \subseteq DOMAIN c.entries,
           \A n \in DOMAIN c.entries : Made(c.entries[n])
    PROVE  Made(c)
  <1> DEFINE W(n) == CHOOSE S : c.entries[n] \in S /\ Closed(S)
             S == {c} \cup UNION {W(n) : n \in DOMAIN c.entries}
  <1>1. \A n \in DOMAIN c.entries : c.entries[n] \in W(n) /\ Closed(W(n))
    BY DEF Made
  <1> HIDE DEF W
  <1>2. Closed(S)
    <2> SUFFICES ASSUME NEW d \in S, d.kind = "archive"
                 PROVE  /\ DOMAIN d.entries # {} /\ d.baseline \in {None, d.hash}
                        /\ d.coded \subseteq DOMAIN d.entries
                        /\ \A n \in DOMAIN d.entries : d.entries[n] \in S
      BY DEF Closed
    <2>1. CASE d = c
      BY <1>1, <2>1
    <2>2. CASE d # c
      <3>1. PICK n \in DOMAIN c.entries : d \in W(n)
        BY <2>2
      <3>2. Closed(W(n))
        BY <1>1
      <3>3. /\ DOMAIN d.entries # {} /\ d.baseline \in {None, d.hash}
            /\ d.coded \subseteq DOMAIN d.entries
            /\ \A m \in DOMAIN d.entries : d.entries[m] \in W(n)
        BY <3>1, <3>2 DEF Closed
      <3> QED BY <3>3
    <2> QED BY <2>1, <2>2
  <1>3. c \in S
    OBVIOUS
  <1> HIDE DEF S
  <1> QED BY <1>2, <1>3 DEF Made

\* What reading such a content gives.
LEMMA SnapshotMade == ASSUME NEW c, Made(c) PROVE Made(Snapshot(c))
  <1>1. CASE c.kind = "torn"
    BY <1>1, PlainMade DEF Snapshot
  <1> QED BY <1>1 DEF Snapshot

\* None is no state and no dictionary.
LEMMA TextDictFields ==
    /\ TextDict # None /\ hash(TextDict) # None
    /\ TextDict.predictor = "NeuralSsm" /\ TextDict.state.predictor = "NeuralSsm"
  <1>1. TextDict = [predictor |-> "NeuralSsm", state |-> TextDict.state]
    BY DEF TextDict, Dictionary
  <1>2. TextDict.state = [predictor |-> "NeuralSsm", stream |-> "bwt", corpus |-> None]
    BY DEF TextDict, Dictionary
  <1>3. DOMAIN TextDict = {"predictor", "state"}
    BY <1>1
  <1>4. DOMAIN TextDict.state = {"predictor", "stream", "corpus"}
    BY <1>2
  <1>5. DOMAIN None = {"none"}
    BY DEF None
  <1> QED BY <1>1, <1>2, <1>3, <1>4, <1>5 DEF hash

\* An archive is opened with the dictionary that was given for compressing,
\* or without one when none was given.
LEMMA ArchiveExtracts ==
    ASSUME NEW a, NEW names, NEW predictor, NEW given, NEW password,
           a.predictor = predictor, a.password = password,
           a.hash = (IF with_dictionary(predictor, given) = None THEN None
                     ELSE hash(with_dictionary(predictor, given))),
           a.baseline = encode_baseline(predictor, with_dictionary(predictor, given)).val,
           encode_baseline(predictor, with_dictionary(predictor, given)).ok
    PROVE  CliExtracts(a, names, given, "auto", password)
  <1>1. resolve_predictor("auto", a) = predictor /\ Opens(a, password)
    BY DEF resolve_predictor, Opens
  <1>2. CASE given # None
    <2>1. with_dictionary(predictor, given) = given /\ build_decompressor(given, a) = given
      BY <1>2 DEF with_dictionary, build_decompressor
    <2>2. a.hash = hash(given) /\ a.baseline = set_coding_baseline(predictor, given)
          /\ apply(given, predictor)
      BY <1>2, <2>1 DEF encode_baseline
    <2>3. validate_dictionary(a.hash, given)
      BY <1>2, <2>2 DEF validate_dictionary
    <2>4. Decodes(a, names, given, predictor)
      BY <1>2, <2>2 DEF Decodes, decode_baseline_for
    <2> QED BY <1>1, <2>1, <2>3, <2>4 DEF CliExtracts, CoreExtracts
  <1>3. CASE given = None /\ predictor = "NeuralSsm"
    <2>1. with_dictionary(predictor, given) = TextDict
      BY <1>3 DEF with_dictionary, default_dictionary, for_content_type
    <2>2. a.hash = hash(TextDict) /\ a.baseline = set_coding_baseline(predictor, TextDict)
          /\ apply(TextDict, predictor)
      BY <2>1, TextDictFields DEF encode_baseline
    <2>3. build_decompressor(given, a) = TextDict
      BY <1>3, <2>2, TextDictFields DEF build_decompressor, archive_uses_dictionary, for_content_type
    <2>4. validate_dictionary(a.hash, TextDict)
      BY <2>2, TextDictFields DEF validate_dictionary
    <2>5. Decodes(a, names, TextDict, predictor)
      BY <2>2, TextDictFields DEF Decodes, decode_baseline_for
    <2> QED BY <1>1, <2>3, <2>4, <2>5 DEF CliExtracts, CoreExtracts
  <1>4. CASE given = None /\ predictor # "NeuralSsm"
    <2>1. with_dictionary(predictor, given) = None
      BY <1>4 DEF with_dictionary, default_dictionary
    <2>2. a.hash = None /\ a.baseline = None
      BY <2>1 DEF encode_baseline
    <2>3. build_decompressor(given, a) = None
      BY <1>4, <2>2 DEF build_decompressor, archive_uses_dictionary
    <2>4. validate_dictionary(a.hash, None)
      BY <2>2 DEF validate_dictionary
    <2>5. Decodes(a, names, None, predictor)
      BY <2>2 DEF Decodes, decode_baseline_for
    <2> QED BY <1>1, <2>3, <2>4, <2>5 DEF CliExtracts, CoreExtracts
  <1> QED BY <1>2, <1>3, <1>4

\* What verify has passed, extract opens, if a block needs its dictionary: the
\* only one verify ever attaches is the built-in one, and such a block decodes
\* with it only in an archive that names it.
LEMMA VerifiedExtracts ==
    ASSUME NEW a, Made(a), a.kind = "archive", NEW predictor, NEW password,
           CoreVerifies(a, build_decompressor(None, a), resolve_predictor(predictor, a), password)
    PROVE  Verified(a, predictor, password)
  <1> SUFFICES ASSUME a.coded # {} \/ a.hash \in {None, hash(TextDict)}
               PROVE  CliExtracts(a, Names(a), None, predictor, password)
    BY DEF Verified
  <1> DEFINE dict == build_decompressor(None, a)
             name == resolve_predictor(predictor, a)
  <1>1. Opens(a, password) /\ Decodes(a, Names(a), dict, name)
    BY DEF CoreVerifies
  <1>2. dict = IF a.hash # None THEN TextDict ELSE None
    BY DEF build_decompressor, archive_uses_dictionary, for_content_type
  <1>3. validate_dictionary(a.hash, dict)
    <2>1. CASE a.hash = None
      BY <2>1 DEF validate_dictionary
    <2>2. CASE a.hash # None /\ a.hash = hash(TextDict)
      BY <1>2, <2>2, TextDictFields DEF validate_dictionary
    <2>3. CASE a.hash # None /\ a.coded # {}
      <3>1. dict = TextDict
        BY <1>2, <2>3
      <3>2. a.coded \cap Names(a) # {}
        BY <2>3, MadeArchive DEF Names
      <3> HIDE DEF dict, name
      <3>3. apply(TextDict, name) /\ set_coding_baseline(name, TextDict) = a.baseline
        BY <1>1, <3>1, <3>2, TextDictFields DEF Decodes, decode_baseline_for
      <3>4. name = "NeuralSsm"
        BY <3>3, TextDictFields DEF apply
      <3>5. a.baseline = hash(TextDict)
        BY <3>3, <3>4 DEF set_coding_baseline, hash
      <3>6. a.baseline \in {None, a.hash}
        BY MadeArchive
      <3>7. a.hash = hash(TextDict)
        BY <3>5, <3>6, TextDictFields
      <3> QED BY <3>1, <3>7, TextDictFields DEF validate_dictionary
    <2> QED BY <2>1, <2>2, <2>3
  <1> QED BY <1>1, <1>3 DEF CliExtracts, CoreExtracts

\* A compression that is not refused keeps its promise.
LEMMA CompressedOk ==
    ASSUME NEW entries, DOMAIN entries # {}, \A n \in DOMAIN entries : Made(entries[n]),
           NEW predictor, NEW given, NEW password, NEW coded,
           NEW plan, plan = Compressed(entries, predictor, given, password, coded), plan.ok
    PROVE  /\ PlanShape(plan) /\ Made(plan.content) /\ plan.given = given
           /\ plan.content.kind = "archive" /\ plan.content.entries = plan.entries
           /\ CliExtracts(plan.content, Names(plan.content), given, "auto", password)
  <1> DEFINE dict == with_dictionary(predictor, given)
             baseline == encode_baseline(predictor, dict)
             a == Archive(entries, predictor, dict, baseline.val, password, coded)
  <1>1. plan = IF baseline.ok THEN [ok |-> TRUE, entries |-> entries, given |-> given, content |-> a]
               ELSE Refused(TRUE)
    BY DEF Compressed
  <1>2. /\ a.kind = "archive" /\ a.entries = entries /\ a.predictor = predictor
        /\ a.password = password /\ a.baseline = baseline.val
        /\ a.hash = IF dict = None THEN None ELSE hash(dict)
        /\ a.coded \subseteq DOMAIN entries
    BY DEF Archive
  <1>3. a.baseline \in {None, a.hash}
    <2> HIDE DEF a, dict
    <2> QED BY <1>2 DEF encode_baseline, set_coding_baseline, hash
  <1> HIDE DEF a
  <1>4. Made(a)
    BY <1>2, <1>3, ArchiveMade
  <1>5. baseline.ok
    BY <1>1 DEF Refused
  <1>6. CliExtracts(a, Names(a), given, "auto", password)
    BY <1>2, <1>5, ArchiveExtracts
  <1> HIDE DEF baseline
  <1>7. plan = [ok |-> TRUE, entries |-> entries, given |-> given, content |-> a]
    BY <1>1, <1>5
  <1> QED BY <1>2, <1>4, <1>6, <1>7 DEF PlanShape

\* What a directory holds when it is read.
LEMMA ReadAllMade ==
    ASSUME CInv, NEW job
    PROVE  LET files == collect_files(job)
               all == ReadAll(files)
           IN  /\ files # {} => DOMAIN all # {}
               /\ \A n \in DOMAIN all : Made(all[n])
  <1> DEFINE files == collect_files(job)
             all == ReadAll(files)
             P(n) == CHOOSE p \in files : p[2] = n
  <1>1. files \subseteq Path
    BY DEF collect_files
  <1> HIDE DEF files
  <1>2. all = [n \in {p[2] : p \in files} |-> Snapshot(fs[P(n)])]
    BY DEF ReadAll
  <1>3. \A n \in {p[2] : p \in files} : P(n) \in files
    OBVIOUS
  <1> HIDE DEF all, P
  <1>4. \A n \in DOMAIN all : Made(all[n])
    BY <1>1, <1>2, <1>3, SnapshotMade DEF CInv
  <1>5. files # {} => DOMAIN all # {}
    BY <1>2
  <1> QED BY <1>4, <1>5 DEF all, files

\* Every plan that is not refused.
LEMMA PlanOk ==
    ASSUME CInv, NEW job \in Jobs, job.cmd \in Writers, NEW first, NEW coded,
           NEW plan, plan = Plan(job, first, coded), plan.ok
    PROVE  PlanShape(plan) /\ Made(plan.content) /\ Promised(job, plan)
  <1>0. \A x : ~Refused(x).ok
    BY DEF Refused
  <1>1. CASE job.cmd = "compress"
    <2> DEFINE files == collect_files(job)
               all == ReadAll(files)
    <2>1. plan = compress_plan(job, first, coded)
      BY <1>1 DEF Plan
    <2>2. /\ files # {} => DOMAIN all # {}
          /\ \A n \in DOMAIN all : Made(all[n])
      BY ReadAllMade
    <2>3. CASE AutoDict(job)
      <3>1. \/ /\ plan = Compressed(all, "NeuralSsm", None, NoPassword, coded)
               /\ job.password = NoPassword /\ files # {}
            \/ /\ plan = Compressed(all, job.predictor, LoadDict(job.dict), job.password, coded)
               /\ files # {}
        BY <1>0, <2>1, <2>3 DEF compress_plan
      <3> HIDE DEF files, all
      <3> QED BY <2>2, <3>1, CompressedOk DEF Promised
    <2>4. CASE ~AutoDict(job)
      <3>1. plan = Compressed(all, job.predictor, LoadDict(job.dict), job.password, coded) /\ files # {}
        BY <1>0, <2>1, <2>4 DEF compress_plan
      <3> HIDE DEF files, all
      <3> QED BY <2>2, <3>1, CompressedOk DEF Promised
    <2> QED BY <2>3, <2>4
  <1>2. CASE job.cmd = "train"
    <2>1. plan = train_plan(job)
      BY <1>2 DEF Plan
    <2>2. PICK dict : plan = [ok |-> TRUE, entries |-> None, given |-> None, content |-> DictFile(dict)]
      BY <1>0, <2>1 DEF train_plan
    <2>3. DictFile(dict).kind = "dict"
      BY DEF DictFile
    <2> QED BY <1>2, <2>2, <2>3, PlainMade DEF PlanShape, Promised
  <1>3. CASE job.cmd = "migrate"
    <2> DEFINE source == fs[job.source]
    <2>1. plan = migrate_plan(job, coded)
      BY <1>3 DEF Plan
    <2>2. Made(source)
      BY <1>3, CommandsAssumption DEF CInv
    <2>3. source.kind = "archive"
      BY <1>0, <2>1 DEF migrate_plan
    <2> HIDE DEF source
    <2>4. DOMAIN source.entries # {} /\ \A n \in DOMAIN source.entries : Made(source.entries[n])
      BY <2>2, <2>3, MadeArchive
    <2>5. plan = Compressed(source.entries, resolve_predictor(job.predictor, source),
                            LoadDict(job.dict), job.password, coded)
      BY <1>0, <2>1, <2>4 DEF migrate_plan, source
    <2> QED BY <2>4, <2>5, CompressedOk DEF Promised
  <1>4. CASE job.cmd = "extract_file"
    <2> DEFINE source == fs[job.source]
    <2>1. plan = extract_file_plan(job)
      BY <1>4 DEF Plan
    <2>2. Made(source)
      BY <1>4, CommandsAssumption DEF CInv
    <2>3. /\ source.kind = "archive" /\ job.output[2] \in DOMAIN source.entries
          /\ plan = [ok |-> TRUE, entries |-> None, given |-> None,
                     content |-> source.entries[job.output[2]]]
      BY <1>0, <2>1 DEF extract_file_plan
    <2> HIDE DEF source
    <2>4. Made(source.entries[job.output[2]])
      BY <2>2, <2>3, MadeArchive
    <2> QED BY <1>4, <2>3, <2>4 DEF PlanShape, Promised
  <1> QED BY <1>1, <1>2, <1>3, <1>4 DEF Writers

------------------------------------------------------------------------------
(* The other processes.                                                    *)

\* What is left of a process by the step of another one: if the file it
\* writes was changed, it is not alone any more.
Kept(q) ==
    LET r == proc[q]
        s == proc'[q]
    IN  /\ Shape(s)
        /\ s.pc = r.pc /\ s.job = r.job /\ s.plan = r.plan /\ s.exit = r.exit /\ s.fresh = r.fresh
        /\ s.alone => /\ r.alone /\ s.holds = r.holds
                      /\ r.pc \notin {"idle", "started"} /\ r.job.output \in Path =>
                            fs'[r.job.output] = fs[r.job.output]

\* The step of another process keeps what is known of this one.
LEMMA KeptOk ==
    ASSUME NEW q \in Process, ProcOk(q, proc[q], fs), Kept(q)
    PROVE  ProcOk(q, proc'[q], fs')
  <1>1. WriterOk(q, proc'[q], fs')
    <2> SUFFICES ASSUME proc'[q].pc \in {"created", "planned", "writing"}
                 PROVE  WriterOk(q, proc'[q], fs')
      BY DEF WriterOk
    <2>1. proc[q].pc \in {"created", "planned", "writing"} /\ proc[q].job \in Jobs
      BY DEF Kept, ProcOk
    <2>2. proc[q].job.cmd \in Writers
      BY <2>1 DEF ProcOk, WriterOk
    <2>3. proc[q].job.output \in Path
      BY <2>1, <2>2, CommandsAssumption DEF Writers
    <2> QED BY <2>1, <2>3 DEF Kept, ProcOk, WriterOk
  <1>2. DoneOk(proc'[q], fs')
    <2> SUFFICES ASSUME proc'[q].pc = "done", proc'[q].exit = 0 PROVE DoneOk(proc'[q], fs')
      BY DEF DoneOk
    <2>1. proc[q].pc = "done" /\ proc[q].exit = 0 /\ proc[q].job \in Jobs
      BY DEF Kept, ProcOk
    <2>2. proc[q].job.cmd \in {"compress", "migrate"} => proc[q].job.output \in Path
      BY <2>1, CommandsAssumption
    <2> QED BY <2>1, <2>2 DEF Kept, ProcOk, DoneOk
  <1> QED BY <1>1, <1>2 DEF ProcOk, Kept

\* Touched takes note of a change of the file at path.
LEMMA TouchedKept ==
    ASSUME CInv, NEW p \in Process, NEW procs, NEW path, NEW renamed \in BOOLEAN,
           \A q \in Process \ {p} : procs[q] = proc[q],
           proc' = Touched(procs, p, path, renamed),
           \A x \in Path \ {path} : fs'[x] = fs[x]
    PROVE  /\ DOMAIN proc' = Process /\ proc'[p] = procs[p]
           /\ \A q \in Process \ {p} : Kept(q)
  <1> DEFINE Hit(q) == /\ q # p /\ procs[q].pc \notin {"idle", "started"}
                       /\ procs[q].job.output = path
  <1>1. proc' = [q \in Process |->
           IF Hit(q) THEN [procs[q] EXCEPT !.alone = FALSE, !.holds = @ /\ ~renamed] ELSE procs[q]]
    BY DEF Touched
  <1>2. DOMAIN proc' = Process /\ proc'[p] = procs[p]
    BY <1>1
  <1>3. ASSUME NEW q \in Process \ {p} PROVE Kept(q)
    <2> DEFINE r == proc[q]
    <2>1. procs[q] = r /\ Shape(r)
      BY DEF CInv, ProcOk
    <2>2. CASE Hit(q)
      <3>1. proc'[q] = [r EXCEPT !.alone = FALSE, !.holds = r.holds /\ ~renamed]
        BY <1>1, <2>1, <2>2, ZenonT(60)
      <3> HIDE DEF r
      <3>2. proc'[q] = [pc |-> r.pc, job |-> r.job, plan |-> r.plan, exit |-> r.exit,
                        fresh |-> r.fresh, holds |-> r.holds /\ ~renamed, alone |-> FALSE]
        BY <2>1, <3>1 DEF Shape
      <3> QED BY <3>2 DEF Kept, Shape, r
    <2>3. CASE ~Hit(q)
      <3>1. proc'[q] = r
        BY <1>1, <2>1, <2>3
      <3>2. r.pc \notin {"idle", "started"} => r.job.output # path
        BY <2>1, <2>3
      <3> QED BY <2>1, <3>1, <3>2 DEF Kept
    <2> QED BY <2>2, <2>3
  <1> QED BY <1>2, <1>3

------------------------------------------------------------------------------
(* Steps of the commands.                                                  *)

\* A complete file is changed only by a process that may.
OverwriteOk ==
    \A path \in Path :
       Complete(fs[path]) /\ fs'[path] # fs[path] =>
          \E p \in Process :
             /\ proc'[p] # proc[p]
             /\ \/ /\ proc[p].job.output = path
                   /\ proc[p].job.force \/ proc[p].fresh
                \/ proc[p].pc = "extracting" /\ path[1] = proc[p].job.into

CommandStep == CInv' /\ OverwriteOk

\* A step that changes no file.
LEMMA QuietStep ==
    ASSUME CInv, NEW p \in Process, NEW r, fs' = fs, proc' = [proc EXCEPT ![p] = r],
           ProcOk(p, r, fs)
    PROVE  CommandStep
  <1>1. /\ DOMAIN proc' = Process /\ proc'[p] = r
        /\ \A q \in Process \ {p} : proc'[q] = proc[q]
    BY DEF CInv
  <1>2. \A q \in Process : ProcOk(q, proc'[q], fs')
    BY <1>1 DEF CInv
  <1>3. DOMAIN fs' = Path /\ \A path \in Path : Made(fs'[path])
    BY DEF CInv
  <1>4. CInv'
    BY <1>1, <1>2, <1>3 DEF CInv
  <1> QED BY <1>4 DEF CommandStep, OverwriteOk

\* A step that changes the file at path.
LEMMA FileStep ==
    ASSUME CInv, NEW p \in Process, NEW procs, NEW path, NEW x, NEW c, NEW renamed \in BOOLEAN,
           \A q \in Process \ {p} : procs[q] = proc[q],
           proc' = Touched(procs, p, path, renamed),
           fs' = [fs EXCEPT ![x] = c], x = path \/ (x \in Path => c = fs[x]),
           x \in Path => Made(c),
           ProcOk(p, procs[p], fs'), procs[p] # proc[p],
           \/ proc[p].job.output = path /\ (proc[p].job.force \/ proc[p].fresh)
           \/ x \in Path => c = fs[x] \/ ~Complete(fs[x])
           \/ proc[p].pc = "extracting" /\ path[1] = proc[p].job.into
    PROVE  CommandStep
  <1>1. DOMAIN fs = Path /\ \A y \in Path : Made(fs[y])
    BY DEF CInv
  <1>2. /\ DOMAIN fs' = Path /\ \A y \in Path \ {x} : fs'[y] = fs[y]
        /\ x \in Path => fs'[x] = c
    BY <1>1
  <1>3. \A y \in Path \ {path} : fs'[y] = fs[y]
    BY <1>2
  <1>4. /\ DOMAIN proc' = Process /\ proc'[p] = procs[p]
        /\ \A q \in Process \ {p} : Kept(q)
    BY <1>3, TouchedKept
  <1>5. \A q \in Process : ProcOk(q, proc'[q], fs')
    <2>1. \A q \in Process : ProcOk(q, proc[q], fs)
      BY DEF CInv
    <2> QED BY <1>4, <2>1, KeptOk
  <1>6. \A y \in Path : Made(fs'[y])
    BY <1>1, <1>2
  <1>7. CInv'
    BY <1>2, <1>4, <1>5, <1>6 DEF CInv
  <1>8. OverwriteOk
    BY <1>2, <1>3, <1>4 DEF OverwriteOk
  <1> QED BY <1>7, <1>8 DEF CommandStep

\* The fields of a process are set one by one.
LEMMA Updates ==
    ASSUME NEW r, Shape(r), NEW x
    PROVE  /\ [r EXCEPT !.pc = x] =
                [pc |-> x, job |-> r.job, plan |-> r.plan, exit |-> r.exit,
                 fresh |-> r.fresh, holds |-> r.holds, alone |-> r.alone]
           /\ [r EXCEPT !.job = x] =
                [pc |-> r.pc, job |-> x, plan |-> r.plan, exit |-> r.exit,
                 fresh |-> r.fresh, holds |-> r.holds, alone |-> r.alone]
           /\ [r EXCEPT !.plan = x] =
                [pc |-> r.pc, job |-> r.job, plan |-> x, exit |-> r.exit,
                 fresh |-> r.fresh, holds |-> r.holds, alone |-> r.alone]
           /\ [r EXCEPT !.exit = x] =
                [pc |-> r.pc, job |-> r.job, plan |-> r.plan, exit |-> x,
                 fresh |-> r.fresh, holds |-> r.holds, alone |-> r.alone]
           /\ [r EXCEPT !.fresh = x] =
                [pc |-> r.pc, job |-> r.job, plan |-> r.plan, exit |-> r.exit,
                 fresh |-> x, holds |-> r.holds, alone |-> r.alone]
           /\ [r EXCEPT !.holds = x] =
                [pc |-> r.pc, job |-> r.job, plan |-> r.plan, exit |-> r.exit,
                 fresh |-> r.fresh, holds |-> x, alone |-> r.alone]
           /\ [r EXCEPT !.alone = x] =
                [pc |-> r.pc, job |-> r.job, plan |-> r.plan, exit |-> r.exit,
                 fresh |-> r.fresh, holds |-> r.holds, alone |-> x]
  BY DEF Shape

\* The record of a process that has ended, and the step.
ExitOf(r, code) ==
    [pc |-> "done", job |-> r.job, plan |-> r.plan, exit |-> code,
     fresh |-> r.fresh, holds |-> r.holds, alone |-> r.alone]

\* A process ends.
LEMMA ExitIs ==
    ASSUME CInv, NEW p \in Process, NEW code
    PROVE  /\ Exit(p, code) = [proc EXCEPT ![p] = ExitOf(proc[p], code)]
           /\ Exit(p, code)[p] = ExitOf(proc[p], code)
           /\ \A q \in Process \ {p} : Exit(p, code)[q] = proc[q]
  <1> DEFINE r == proc[p]
             s == [[r EXCEPT !.pc = "done"] EXCEPT !.exit = code]
  <1>1. Shape(r) /\ DOMAIN proc = Process
    BY DEF CInv, ProcOk
  <1>2. Exit(p, code) = [proc EXCEPT ![p] = s]
    BY <1>1 DEF Exit
  <1> HIDE DEF r
  <1>3. s = ExitOf(r, code)
    <2> DEFINE a == [r EXCEPT !.pc = "done"]
    <2>1. a = [pc |-> "done", job |-> r.job, plan |-> r.plan, exit |-> r.exit,
               fresh |-> r.fresh, holds |-> r.holds, alone |-> r.alone]
      BY <1>1, Updates
    <2>2. s = [a EXCEPT !.exit = code]
      OBVIOUS
    <2> HIDE DEF a, s
    <2>3. Shape(a)
      BY <2>1 DEF Shape
    <2> QED BY <2>1, <2>2, <2>3, Updates DEF ExitOf
  <1> HIDE DEF s
  <1> QED BY <1>1, <1>2, <1>3 DEF r

\* A process that fails has promised nothing.
LEMMA FailedOk ==
    ASSUME NEW p, NEW r, NEW F, NEW G, ProcOk(p, r, F), r.pc # "idle"
    PROVE  ProcOk(p, ExitOf(r, 1), G)
  <1> DEFINE s == ExitOf(r, 1)
  <1>1. /\ s.pc = "done" /\ s.exit = 1 /\ s.job = r.job /\ s.plan = r.plan
        /\ Shape(s)
    BY DEF ExitOf, Shape
  <1> HIDE DEF s
  <1>2. ProcOk(p, s, G)
    BY <1>1 DEF ProcOk, WriterOk, DoneOk
  <1> QED BY <1>2 DEF s

\* A command is started.
LEMMA StartOk == ASSUME CInv, NEW p \in Process, NEW job \in Jobs, Start(p, job) PROVE CommandStep
  <1> DEFINE r == [pc |-> "started", job |-> job, plan |-> NoPlan, exit |-> 0,
                   fresh |-> FALSE, holds |-> FALSE, alone |-> FALSE]
  <1>1. fs' = fs /\ proc' = [proc EXCEPT ![p] = r]
    <2> DEFINE a == [IdleProcess EXCEPT !.pc = "started"]
               b == [a EXCEPT !.job = job]
    <2>1. Shape(IdleProcess)
      BY DEF Shape, IdleProcess
    <2>2. a = [pc |-> "started", job |-> None, plan |-> NoPlan, exit |-> 0,
               fresh |-> FALSE, holds |-> FALSE, alone |-> FALSE]
      <3> DEFINE i == IdleProcess
      <3>1. /\ i.job = None /\ i.plan = NoPlan /\ i.exit = 0
            /\ i.fresh = FALSE /\ i.holds = FALSE /\ i.alone = FALSE
        BY DEF IdleProcess
      <3> HIDE DEF i
      <3>2. [i EXCEPT !.pc = "started"] =
              [pc |-> "started", job |-> i.job, plan |-> i.plan, exit |-> i.exit,
               fresh |-> i.fresh, holds |-> i.holds, alone |-> i.alone]
        BY <2>1, Updates DEF i
      <3> QED BY <3>1, <3>2 DEF i
    <2>3. Shape(a)
      <3> HIDE DEF a
      <3> QED BY <2>2 DEF Shape
    <2>4. b = r
      <3> HIDE DEF a
      <3>1. b = [pc |-> a.pc, job |-> job, plan |-> a.plan, exit |-> a.exit,
                 fresh |-> a.fresh, holds |-> a.holds, alone |-> a.alone]
        BY <2>3, Updates
      <3>2. /\ a.pc = "started" /\ a.plan = NoPlan /\ a.exit = 0
            /\ a.fresh = FALSE /\ a.holds = FALSE /\ a.alone = FALSE
        BY <2>2
      <3> HIDE DEF b
      <3> QED BY <3>1, <3>2
    <2>5. fs' = fs /\ proc' = [proc EXCEPT ![p] = b]
      BY DEF Start
    <2> QED BY <2>4, <2>5
  <1>2. ProcOk(p, r, fs)
    <2>1. r.pc = "started" /\ r.job = job /\ r.plan = NoPlan /\ Shape(r) /\ PlanShape(NoPlan)
      BY DEF Shape, PlanShape, NoPlan
    <2> HIDE DEF r
    <2> QED BY <2>1 DEF ProcOk, WriterOk, DoneOk
  <1> HIDE DEF r
  <1> QED BY <1>1, <1>2, QuietStep

\* The record of a process that has just opened its output.
OpenOf(r, f, a) ==
    [pc |-> "created", job |-> r.job, plan |-> r.plan, exit |-> r.exit,
     fresh |-> f, holds |-> TRUE, alone |-> a]

\* It is the result of four assignments.
LEMMA OpenIs ==
    ASSUME NEW r, Shape(r), NEW f, NEW a
    PROVE  [r EXCEPT !.pc = "created", !.holds = TRUE, !.fresh = f, !.alone = a] = OpenOf(r, f, a)
  <1> DEFINE r1 == [r EXCEPT !.pc = "created"]
             r2 == [r1 EXCEPT !.holds = TRUE]
             r3 == [r2 EXCEPT !.fresh = f]
             r4 == [r3 EXCEPT !.alone = a]
  <1>0. [r EXCEPT !.pc = "created", !.holds = TRUE, !.fresh = f, !.alone = a] = r4
    OBVIOUS
  <1>1. r1 = [pc |-> "created", job |-> r.job, plan |-> r.plan, exit |-> r.exit,
              fresh |-> r.fresh, holds |-> r.holds, alone |-> r.alone]
    BY Updates
  <1> HIDE DEF r1
  <1>2. Shape(r1)
    BY <1>1 DEF Shape
  <1>3. r2 = [pc |-> r1.pc, job |-> r1.job, plan |-> r1.plan, exit |-> r1.exit,
              fresh |-> r1.fresh, holds |-> TRUE, alone |-> r1.alone]
    BY <1>2, Updates
  <1> HIDE DEF r2
  <1>4. Shape(r2)
    BY <1>3 DEF Shape
  <1>5. r3 = [pc |-> r2.pc, job |-> r2.job, plan |-> r2.plan, exit |-> r2.exit,
              fresh |-> f, holds |-> r2.holds, alone |-> r2.alone]
    BY <1>4, Updates
  <1> HIDE DEF r3
  <1>6. Shape(r3)
    BY <1>5 DEF Shape
  <1>7. r4 = [pc |-> r3.pc, job |-> r3.job, plan |-> r3.plan, exit |-> r3.exit,
              fresh |-> r3.fresh, holds |-> r3.holds, alone |-> a]
    BY <1>6, Updates
  <1> HIDE DEF r4
  <1>8. r1.pc = "created" /\ r1.job = r.job /\ r1.plan = r.plan /\ r1.exit = r.exit
    BY <1>1
  <1>9. r2.pc = r1.pc /\ r2.job = r1.job /\ r2.plan = r1.plan /\ r2.exit = r1.exit /\ r2.holds = TRUE
    BY <1>3
  <1>10. /\ r3.pc = r2.pc /\ r3.job = r2.job /\ r3.plan = r2.plan /\ r3.exit = r2.exit
         /\ r3.holds = r2.holds /\ r3.fresh = f
    BY <1>5
  <1> QED BY <1>0, <1>7, <1>8, <1>9, <1>10 DEF OpenOf

\* The output is created, or truncated, or it is there and must not be touched.
LEMMA CreateOk == ASSUME CInv, NEW p \in Process, create_output_file(p) PROVE CommandStep
  <1> DEFINE r == proc[p]
             out == r.job.output
             f == fs[out] = Absent
             a == ~OthersHold(p, out)
             s == OpenOf(r, f, a)
  <1>1. /\ ProcOk(p, r, fs) /\ DOMAIN fs = Path /\ DOMAIN proc = Process
    BY DEF CInv
  <1>2. Shape(r) /\ r.job \in Jobs /\ r.job.cmd \in Writers /\ r.pc \in {"started", "opened"}
    BY <1>1 DEF create_output_file, ProcOk, Writers
  <1>3. out \in Path
    BY <1>2, CommandsAssumption DEF Writers
  <1>4. CASE ~CanCreate(r.job)
    <2>1. proc' = Exit(p, 1) /\ fs' = fs
      BY <1>4 DEF create_output_file
    <2>2. ProcOk(p, ExitOf(r, 1), fs)
      BY <1>1, <1>2, FailedOk
    <2> QED BY <2>1, <2>2, ExitIs, QuietStep
  <1>5. CASE CanCreate(r.job)
    <2> DEFINE procs == [proc EXCEPT ![p] = s]
    <2>1. fs' = [fs EXCEPT ![out] = Empty] /\ proc' = Touched(procs, p, out, FALSE)
      <3>1. [proc EXCEPT ![p].pc = "created", ![p].holds = TRUE, ![p].fresh = f, ![p].alone = a]
              = [proc EXCEPT ![p] =
                   [r EXCEPT !.pc = "created", !.holds = TRUE, !.fresh = f, !.alone = a]]
        BY <1>1
      <3>2. [r EXCEPT !.pc = "created", !.holds = TRUE, !.fresh = f, !.alone = a] = s
        <4> HIDE DEF f, a
        <4> QED BY <1>2, OpenIs
      <3> QED BY <1>5, <3>1, <3>2 DEF create_output_file
    <2>2. procs[p] = s /\ \A q \in Process \ {p} : procs[q] = proc[q]
      BY <1>1
    <2>3. /\ s.pc = "created" /\ s.job = r.job /\ s.plan = r.plan /\ s.holds = TRUE
          /\ s.fresh = f /\ Shape(s)
      BY DEF OpenOf, Shape
    <2>4. r.job.force \/ s.fresh
      BY <1>5, <2>3 DEF CanCreate
    <2>5. fs'[out] = Empty
      BY <1>1, <1>3, <2>1
    <2>6. ProcOk(p, s, fs')
      <3> HIDE DEF s
      <3> QED BY <1>1, <1>2, <2>3, <2>4, <2>5 DEF ProcOk, WriterOk, DoneOk
    <2>7. Made(Empty)
      BY PlainMade DEF Empty
    <2>8. s # r
      <3> HIDE DEF s
      <3> QED BY <1>2, <2>3
    <2>9. \/ r.job.force
          \/ ~Complete(fs[out])
      BY <1>5 DEF CanCreate, Complete, Absent
    <2> HIDE DEF procs, s
    <2> QED BY <1>3, <2>1, <2>2, <2>6, <2>7, <2>8, <2>9, FileStep
  <1> QED BY <1>4, <1>5

\* A process with its output open.
LEMMA WriterFacts ==
    ASSUME CInv, NEW p \in Process, proc[p].pc \in {"created", "planned", "writing"}
    PROVE  /\ ProcOk(p, proc[p], fs) /\ Shape(proc[p]) /\ PlanShape(proc[p].plan)
           /\ proc[p].job \in Jobs /\ proc[p].job.cmd \in Writers /\ proc[p].job.output \in Path
           /\ proc[p].job.force \/ proc[p].fresh
           /\ DOMAIN fs = Path /\ DOMAIN proc = Process
  <1>1. ProcOk(p, proc[p], fs) /\ DOMAIN fs = Path /\ DOMAIN proc = Process
    BY DEF CInv
  <1>2. proc[p].job \in Jobs /\ proc[p].job.cmd \in Writers
    BY <1>1 DEF ProcOk, WriterOk
  <1>3. proc[p].job.output \in Path
    BY <1>2, CommandsAssumption DEF Writers
  <1> QED BY <1>1, <1>2, <1>3 DEF ProcOk, WriterOk

\* What is written to makes no archive.
LEMMA DirtiedMade == ASSUME NEW p, NEW c, Made(c) PROVE Made(Dirtied(p, c))
  <1>1. \A x : Made(Torn(x))
    BY PlainMade DEF Torn
  <1> QED BY <1>1 DEF Dirtied, Mixed

\* The command has decided what to write, or gives up.
LEMMA PrepareOk == ASSUME CInv, NEW p \in Process, Prepare(p) PROVE CommandStep
  <1> DEFINE r == proc[p]
             out == r.job.output
  <1>1. r.pc = "created"
    BY DEF Prepare
  <1>2. /\ ProcOk(p, r, fs) /\ Shape(r) /\ r.job \in Jobs /\ r.job.cmd \in Writers /\ out \in Path
        /\ r.job.force \/ r.fresh
        /\ DOMAIN fs = Path /\ DOMAIN proc = Process
    BY <1>1, WriterFacts
  <1>3. PICK first \in Firsts(r.job), coded \in Codings(r.job) :
          LET plan == Plan(r.job, first, coded) IN
          IF plan.ok
          THEN /\ proc' = [proc EXCEPT ![p].pc = "planned", ![p].plan = plan]
               /\ UNCHANGED fs
          ELSE /\ fs' = [fs EXCEPT ![out] = IF plan.torn THEN Dirtied(p, @) ELSE @]
               /\ proc' = Touched(Exit(p, 1), p, IF plan.torn THEN out ELSE NoPath, FALSE)
    BY DEF Prepare
  <1> DEFINE plan == Plan(r.job, first, coded)
  <1>4. CASE plan.ok
    <2> DEFINE a == [r EXCEPT !.pc = "planned"]
               s == [a EXCEPT !.plan = plan]
    <2>1. proc' = [proc EXCEPT ![p] = s] /\ fs' = fs
      BY <1>2, <1>3, <1>4
    <2>2. PlanShape(plan) /\ Made(plan.content) /\ Promised(r.job, plan)
      BY <1>2, <1>4, PlanOk
    <2> HIDE DEF plan
    <2>3. a = [pc |-> "planned", job |-> r.job, plan |-> r.plan, exit |-> r.exit,
               fresh |-> r.fresh, holds |-> r.holds, alone |-> r.alone]
      BY <1>2, Updates
    <2>4. Shape(a)
      <3> HIDE DEF a
      <3> QED BY <2>3 DEF Shape
    <2>5. s = [pc |-> a.pc, job |-> a.job, plan |-> plan, exit |-> a.exit,
               fresh |-> a.fresh, holds |-> a.holds, alone |-> a.alone]
      BY <2>4, Updates
    <2> HIDE DEF a, s
    <2>6. /\ s.pc = "planned" /\ s.job = r.job /\ s.plan = plan /\ s.fresh = r.fresh
          /\ s.holds = r.holds /\ s.alone = r.alone /\ Shape(s)
      BY <2>3, <2>5 DEF Shape
    <2>7. WriterOk(p, r, fs)
      BY <1>2 DEF ProcOk
    <2>8. ProcOk(p, s, fs)
      BY <1>1, <1>2, <2>2, <2>6, <2>7 DEF ProcOk, WriterOk, DoneOk
    <2> QED BY <2>1, <2>8, QuietStep
  <1>5. CASE ~plan.ok
    <2> DEFINE x == IF plan.torn THEN out ELSE NoPath
               c == IF plan.torn THEN Dirtied(p, fs[out]) ELSE fs[out]
               procs == Exit(p, 1)
    <2>1. fs' = [fs EXCEPT ![out] = c] /\ proc' = Touched(procs, p, x, FALSE)
      BY <1>2, <1>3, <1>5
    <2>2. procs[p] = ExitOf(r, 1) /\ \A q \in Process \ {p} : procs[q] = proc[q]
      BY ExitIs
    <2>3. ProcOk(p, ExitOf(r, 1), fs')
      BY <1>1, <1>2, FailedOk
    <2>4. ExitOf(r, 1) # r
      BY <1>1 DEF ExitOf
    <2>5. Made(fs[out])
      BY <1>2 DEF CInv
    <2>6. Made(c)
      BY <2>5, DirtiedMade
    <2>7. out = x \/ c = fs[out]
      OBVIOUS
    <2>8. \/ out = x /\ (r.job.force \/ r.fresh)
          \/ c = fs[out]
      BY <1>2, <2>7
    <2> HIDE DEF plan, c, procs, x
    <2> QED BY <1>2, <2>1, <2>2, <2>3, <2>4, <2>6, <2>7, <2>8, FileStep
  <1> QED BY <1>4, <1>5

\* The first write.
LEMMA BeginWriteOk == ASSUME CInv, NEW p \in Process, BeginWrite(p) PROVE CommandStep
  <1> DEFINE r == proc[p]
             out == r.job.output
             s == [r EXCEPT !.pc = "writing"]
             procs == [proc EXCEPT ![p] = s]
             c == Dirtied(p, fs[out])
  <1>1. r.pc = "planned"
    BY DEF BeginWrite
  <1>2. /\ ProcOk(p, r, fs) /\ Shape(r) /\ r.job \in Jobs /\ r.job.cmd \in Writers /\ out \in Path
        /\ r.job.force \/ r.fresh
        /\ DOMAIN fs = Path /\ DOMAIN proc = Process
    BY <1>1, WriterFacts
  <1>3. fs' = [fs EXCEPT ![out] = c] /\ proc' = Touched(procs, p, out, FALSE)
    BY <1>2 DEF BeginWrite
  <1>4. s = [pc |-> "writing", job |-> r.job, plan |-> r.plan, exit |-> r.exit,
             fresh |-> r.fresh, holds |-> r.holds, alone |-> r.alone]
    BY <1>2, Updates
  <1>5. procs[p] = s /\ \A q \in Process \ {p} : procs[q] = proc[q]
    BY <1>2
  <1> HIDE DEF s, procs
  <1>6. /\ s.pc = "writing" /\ s.job = r.job /\ s.plan = r.plan /\ s.fresh = r.fresh
        /\ s.holds = r.holds /\ s.alone = r.alone /\ Shape(s) /\ s # r
    BY <1>1, <1>4 DEF Shape
  <1>7. WriterOk(p, r, fs)
    BY <1>2 DEF ProcOk
  <1>8. r.alone => r.holds /\ fs'[out] = Torn(p)
    <2>1. r.alone => r.holds /\ fs[out] = Empty
      BY <1>1, <1>7 DEF WriterOk
    <2>2. r.alone => c = Torn(p)
      BY <1>1, <2>1 DEF Dirtied
    <2> QED BY <1>2, <1>3, <2>1, <2>2
  <1>9. ProcOk(p, s, fs')
    BY <1>1, <1>2, <1>6, <1>7, <1>8 DEF ProcOk, WriterOk, DoneOk
  <1>10. Made(c)
    BY <1>2, DirtiedMade DEF CInv
  <1> HIDE DEF c
  <1> QED BY <1>2, <1>3, <1>5, <1>6, <1>9, <1>10, FileStep

\* The last write.
LEMMA EndWriteOk == ASSUME CInv, NEW p \in Process, EndWrite(p) PROVE CommandStep
  <1> DEFINE r == proc[p]
             out == r.job.output
             s == ExitOf(r, 0)
             procs == Exit(p, 0)
             c == IF r.holds /\ fs[out] = Torn(p) THEN r.plan.content ELSE Dirtied(p, fs[out])
  <1>1. r.pc = "writing"
    BY DEF EndWrite
  <1>2. /\ ProcOk(p, r, fs) /\ Shape(r) /\ r.job \in Jobs /\ r.job.cmd \in Writers /\ out \in Path
        /\ r.job.force \/ r.fresh
        /\ DOMAIN fs = Path /\ DOMAIN proc = Process
    BY <1>1, WriterFacts
  <1>3. fs' = [fs EXCEPT ![out] = c] /\ proc' = Touched(procs, p, out, FALSE)
    BY <1>2 DEF EndWrite
  <1>4. procs[p] = s /\ \A q \in Process \ {p} : procs[q] = proc[q]
    BY ExitIs
  <1>5. /\ s.pc = "done" /\ s.job = r.job /\ s.plan = r.plan /\ s.alone = r.alone
        /\ Shape(s) /\ s # r
    BY <1>1 DEF Shape, ExitOf
  <1> HIDE DEF s, procs
  <1>6. WriterOk(p, r, fs)
    BY <1>2 DEF ProcOk
  <1>7. r.alone => fs'[out] = r.plan.content
    <2>1. r.alone => r.holds /\ fs[out] = Torn(p)
      BY <1>1, <1>6 DEF WriterOk
    <2> QED BY <1>2, <1>3, <2>1
  <1>8. Made(r.plan.content) /\ Promised(r.job, r.plan)
    BY <1>1, <1>6 DEF WriterOk
  <1>9. r.job.cmd # "verify"
    BY <1>2 DEF Writers
  <1>10. ProcOk(p, s, fs')
    BY <1>1, <1>2, <1>5, <1>7, <1>8, <1>9 DEF ProcOk, WriterOk, DoneOk
  <1>11. Made(c)
    BY <1>2, <1>8, DirtiedMade DEF CInv
  <1> HIDE DEF c
  <1> QED BY <1>2, <1>3, <1>4, <1>5, <1>10, <1>11, FileStep

\* A write that fails.
LEMMA FailWriteOk == ASSUME CInv, NEW p \in Process, FailWrite(p) PROVE CommandStep
  <1> DEFINE r == proc[p]
             out == r.job.output
             procs == Exit(p, 1)
             c == Dirtied(p, fs[out])
  <1>1. r.pc = "writing"
    BY DEF FailWrite
  <1>2. /\ ProcOk(p, r, fs) /\ Shape(r) /\ r.job \in Jobs /\ r.job.cmd \in Writers /\ out \in Path
        /\ r.job.force \/ r.fresh
        /\ DOMAIN fs = Path /\ DOMAIN proc = Process
    BY <1>1, WriterFacts
  <1>3. fs' = [fs EXCEPT ![out] = c] /\ proc' = Touched(procs, p, out, FALSE)
    BY <1>2 DEF FailWrite
  <1>4. procs[p] = ExitOf(r, 1) /\ \A q \in Process \ {p} : procs[q] = proc[q]
    BY ExitIs
  <1>5. ExitOf(r, 1) # r
    BY <1>1 DEF ExitOf
  <1>6. ProcOk(p, ExitOf(r, 1), fs')
    BY <1>1, <1>2, FailedOk
  <1>7. Made(c)
    BY <1>2, DirtiedMade DEF CInv
  <1> HIDE DEF c, procs
  <1> QED BY <1>2, <1>3, <1>4, <1>5, <1>6, <1>7, FileStep

\* A step of a command that ends it with an error and changes no file.
LEMMA GivesUp ==
    ASSUME CInv, NEW p \in Process, proc[p].pc # "idle", fs' = fs, proc' = Exit(p, 1)
    PROVE  CommandStep
  <1>1. ProcOk(p, ExitOf(proc[p], 1), fs)
    BY FailedOk DEF CInv
  <1> QED BY <1>1, ExitIs, QuietStep

\* extract --file opens the archive.
LEMMA OpenForOneOk == ASSUME CInv, NEW p \in Process, OpenForOne(p) PROVE CommandStep
  <1> DEFINE r == proc[p]
             s == [r EXCEPT !.pc = "opened"]
  <1>1. r.pc = "started" /\ r.job.cmd = "extract_file" /\ fs' = fs
    BY DEF OpenForOne, ReadCommand
  <1>2. CASE proc' = Exit(p, 1)
    BY <1>1, <1>2, GivesUp
  <1>3. CASE proc' = [proc EXCEPT ![p].pc = "opened"]
    <2>1. ProcOk(p, r, fs) /\ Shape(r) /\ DOMAIN proc = Process
      BY DEF CInv, ProcOk
    <2>2. proc' = [proc EXCEPT ![p] = s]
      BY <1>3, <2>1
    <2>3. s = [pc |-> "opened", job |-> r.job, plan |-> r.plan, exit |-> r.exit,
               fresh |-> r.fresh, holds |-> r.holds, alone |-> r.alone]
      BY <2>1, Updates
    <2> HIDE DEF s
    <2>4. s.pc = "opened" /\ s.job = r.job /\ s.plan = r.plan /\ Shape(s)
      BY <2>3 DEF Shape
    <2>5. ProcOk(p, s, fs)
      BY <1>1, <2>1, <2>4 DEF ProcOk, WriterOk, DoneOk
    <2> QED BY <1>1, <2>2, <2>5, QuietStep
  <1> QED BY <1>2, <1>3 DEF OpenForOne

\* A plan with other entries or another content.
LEMMA PlanUpdates ==
    ASSUME NEW q, PlanShape(q), NEW x
    PROVE  /\ [q EXCEPT !.entries = x] =
                [ok |-> q.ok, entries |-> x, given |-> q.given, content |-> q.content]
           /\ [q EXCEPT !.content = x] =
                [ok |-> q.ok, entries |-> q.entries, given |-> q.given, content |-> x]
  BY DEF PlanShape

\* extract has decoded the archive.
LEMMA ExtractAllOk == ASSUME CInv, NEW p \in Process, extract_all(p) PROVE CommandStep
  <1> DEFINE r == proc[p]
             source == fs[r.job.source]
             a == [r EXCEPT !.pc = "extracting"]
             q == [r.plan EXCEPT !.entries = source.entries]
             s == [a EXCEPT !.plan = q]
  <1>1. r.pc = "started" /\ r.job.cmd = "extract" /\ fs' = fs
    BY DEF extract_all, ReadCommand
  <1>2. CASE proc' = Exit(p, 1)
    BY <1>1, <1>2, GivesUp
  <1>3. CASE /\ source.kind = "archive"
             /\ proc' = [proc EXCEPT ![p].pc = "extracting", ![p].plan.entries = source.entries]
    <2>1. /\ ProcOk(p, r, fs) /\ Shape(r) /\ PlanShape(r.plan) /\ DOMAIN proc = Process
          /\ r.job \in Jobs
      BY <1>1 DEF CInv, ProcOk
    <2>2. a = [pc |-> "extracting", job |-> r.job, plan |-> r.plan, exit |-> r.exit,
               fresh |-> r.fresh, holds |-> r.holds, alone |-> r.alone]
      BY <2>1, Updates
    <2>3. a.plan = r.plan
      <3> HIDE DEF a
      <3> QED BY <2>2
    <2>4. proc' = [proc EXCEPT ![p] = [a EXCEPT !.plan = [a.plan EXCEPT !.entries = source.entries]]]
      BY <1>3, <2>1
    <2>5. proc' = [proc EXCEPT ![p] = s]
      <3> HIDE DEF a
      <3> QED BY <2>3, <2>4
    <2>6. Shape(a)
      <3> HIDE DEF a
      <3> QED BY <2>2 DEF Shape
    <2>7. Made(source)
      BY <1>1, <2>1, CommandsAssumption DEF CInv
    <2> HIDE DEF source
    <2>8. q = [ok |-> r.plan.ok, entries |-> source.entries, given |-> r.plan.given,
               content |-> r.plan.content]
      BY <2>1, PlanUpdates
    <2> HIDE DEF q
    <2>9. PlanShape(q) /\ q.entries = source.entries
      BY <2>8 DEF PlanShape
    <2>10. s = [pc |-> a.pc, job |-> a.job, plan |-> q, exit |-> a.exit,
                fresh |-> a.fresh, holds |-> a.holds, alone |-> a.alone]
      BY <2>6, Updates
    <2> HIDE DEF a, s
    <2>11. s.pc = "extracting" /\ s.job = r.job /\ s.plan = q /\ Shape(s)
      BY <2>2, <2>10 DEF Shape
    <2>12. \A n \in DOMAIN source.entries : Made(source.entries[n])
      BY <1>3, <2>7, MadeArchive DEF source
    <2>13. ProcOk(p, s, fs)
      BY <1>1, <2>1, <2>9, <2>11, <2>12 DEF ProcOk, WriterOk, DoneOk
    <2> QED BY <1>1, <2>5, <2>13, QuietStep
  <1> QED BY <1>2, <1>3 DEF extract_all

\* extract has renamed a file into place.
LEMMA WriteEntryOk == ASSUME CInv, NEW p \in Process, NEW name, WriteEntry(p, name) PROVE CommandStep
  <1> DEFINE r == proc[p]
             path == <<r.job.into, name>>
             old == r.plan.entries
             rest == [n \in DOMAIN old \ {name} |-> old[n]]
             q == [r.plan EXCEPT !.entries = rest]
             s == [r EXCEPT !.plan = q]
             procs == [proc EXCEPT ![p] = s]
  <1>1. r.pc = "extracting" /\ name \in DOMAIN old
    BY DEF WriteEntry
  <1>2. /\ ProcOk(p, r, fs) /\ Shape(r) /\ PlanShape(r.plan)
        /\ DOMAIN fs = Path /\ DOMAIN proc = Process
    BY DEF CInv, ProcOk
  <1>3. r.job.cmd = "extract" /\ \A n \in DOMAIN old : Made(old[n])
    BY <1>1, <1>2 DEF ProcOk
  <1>4. fs' = [fs EXCEPT ![path] = old[name]] /\ proc' = Touched(procs, p, path, TRUE)
    BY <1>2 DEF WriteEntry
  <1>5. procs[p] = s /\ \A x \in Process \ {p} : procs[x] = proc[x]
    BY <1>2
  <1>6. DOMAIN rest = DOMAIN old \ {name} /\ \A n \in DOMAIN rest : Made(rest[n])
    BY <1>3
  <1> HIDE DEF rest
  <1>7. q = [ok |-> r.plan.ok, entries |-> rest, given |-> r.plan.given, content |-> r.plan.content]
    BY <1>2, PlanUpdates
  <1> HIDE DEF q
  <1>8. PlanShape(q) /\ q.entries = rest
    BY <1>7 DEF PlanShape
  <1>9. s = [pc |-> r.pc, job |-> r.job, plan |-> q, exit |-> r.exit,
             fresh |-> r.fresh, holds |-> r.holds, alone |-> r.alone]
    BY <1>2, Updates
  <1> HIDE DEF s, procs
  <1>10. s.pc = r.pc /\ s.job = r.job /\ s.plan = q /\ Shape(s)
    BY <1>9 DEF Shape
  <1>11. s # r
    <2>1. DOMAIN rest # DOMAIN old
      BY <1>1, <1>6
    <2> QED BY <1>8, <1>10, <2>1
  <1>12. ProcOk(p, s, fs')
    BY <1>1, <1>2, <1>6, <1>8, <1>10 DEF ProcOk, WriterOk, DoneOk
  <1>13. path[1] = r.job.into /\ Made(old[name])
    BY <1>1, <1>3
  <1> HIDE DEF path
  <1> QED BY <1>1, <1>4, <1>5, <1>11, <1>12, <1>13, FileStep

\* Commands that end without a promise about an archive.
LEMMA QuietExit ==
    ASSUME CInv, NEW p \in Process, NEW code, proc[p].pc # "idle", fs' = fs, proc' = Exit(p, code),
           proc[p].job.cmd \notin {"compress", "migrate", "verify"}
    PROVE  CommandStep
  <1> DEFINE r == proc[p]
             s == ExitOf(r, code)
  <1>1. ProcOk(p, r, fs)
    BY DEF CInv
  <1>2. s.pc = "done" /\ s.job = r.job /\ s.plan = r.plan /\ Shape(s)
    BY DEF ExitOf, Shape
  <1> HIDE DEF s
  <1>3. ProcOk(p, s, fs)
    BY <1>1, <1>2 DEF ProcOk, WriterOk, DoneOk
  <1>4. proc' = [proc EXCEPT ![p] = s]
    BY ExitIs DEF s
  <1> QED BY <1>3, <1>4, QuietStep

\* The end of extract.
LEMMA EndExtractOk ==
    ASSUME CInv, NEW p \in Process, NEW code, EndExtract(p, code) PROVE CommandStep
  <1>1. proc[p].pc = "extracting" /\ fs' = fs /\ proc' = Exit(p, code)
    BY DEF EndExtract
  <1>2. proc[p].job.cmd = "extract"
    BY <1>1 DEF CInv, ProcOk
  <1> QED BY <1>1, <1>2, QuietExit

\* list.
LEMMA ListOk == ASSUME CInv, NEW p \in Process, List(p) PROVE CommandStep
  <1>1. proc[p].pc = "started" /\ fs' = fs /\ proc[p].job.cmd = "list"
    BY DEF List, ReadCommand
  <1>2. PICK code : proc' = Exit(p, code)
    BY DEF List
  <1> QED BY <1>1, <1>2, QuietExit

\* verify: what it passes is kept, to say what extract makes of it.
LEMMA VerifyOk == ASSUME CInv, NEW p \in Process, Verify(p) PROVE CommandStep
  <1> DEFINE r == proc[p]
             source == fs[r.job.source]
             e == ExitOf(r, 0)
             q == [r.plan EXCEPT !.content = source]
             s == [e EXCEPT !.plan = q]
  <1>1. r.pc = "started" /\ r.job.cmd = "verify" /\ fs' = fs
    BY DEF Verify, ReadCommand
  <1>2. CASE proc' = Exit(p, 1)
    BY <1>1, <1>2, GivesUp
  <1>3. CASE /\ source.kind = "archive"
             /\ CoreVerifies(source, build_decompressor(None, source),
                             resolve_predictor(r.job.predictor, source), r.job.password)
             /\ proc' = [Exit(p, 0) EXCEPT ![p].plan.content = source]
    <2>1. /\ ProcOk(p, r, fs) /\ Shape(r) /\ PlanShape(r.plan) /\ DOMAIN proc = Process
          /\ r.job \in Jobs
      BY <1>1 DEF CInv, ProcOk
    <2>2. Made(source)
      BY <1>1, <2>1, CommandsAssumption DEF CInv
    <2>3. Verified(source, r.job.predictor, r.job.password)
      BY <1>3, <2>2, VerifiedExtracts
    <2>4. Exit(p, 0) = [proc EXCEPT ![p] = e]
      BY ExitIs
    <2>5. e.plan = r.plan /\ Shape(e) /\ e.pc = "done" /\ e.job = r.job /\ e.exit = 0
      BY DEF ExitOf, Shape
    <2>6. proc' = [proc EXCEPT ![p] = [e EXCEPT !.plan = [e.plan EXCEPT !.content = source]]]
      <3> HIDE DEF e, source
      <3> QED BY <1>3, <2>1, <2>4
    <2>7. proc' = [proc EXCEPT ![p] = s]
      <3> HIDE DEF e, source
      <3> QED BY <2>5, <2>6
    <2> HIDE DEF source, e
    <2>8. q = [ok |-> r.plan.ok, entries |-> r.plan.entries, given |-> r.plan.given,
               content |-> source]
      BY <2>1, PlanUpdates
    <2> HIDE DEF q
    <2>9. PlanShape(q) /\ q.content = source
      BY <2>8 DEF PlanShape
    <2>10. s = [pc |-> e.pc, job |-> e.job, plan |-> q, exit |-> e.exit,
                fresh |-> e.fresh, holds |-> e.holds, alone |-> e.alone]
      BY <2>5, Updates
    <2> HIDE DEF s
    <2>11. s.pc = "done" /\ s.job = r.job /\ s.plan = q /\ Shape(s)
      BY <2>5, <2>10 DEF Shape
    <2>12. ProcOk(p, s, fs)
      BY <1>1, <2>1, <2>3, <2>9, <2>11 DEF ProcOk, WriterOk, DoneOk
    <2> QED BY <1>1, <2>7, <2>12, QuietStep
  <1> QED BY <1>2, <1>3 DEF Verify

------------------------------------------------------------------------------
(* What is shown of the commands.                                          *)

\* Every step of every command keeps the invariant and overwrites only what
\* it may.
LEMMA CommandsNextOk == ASSUME CInv, CommandsNext PROVE CommandStep
  BY StartOk, CreateOk, PrepareOk, BeginWriteOk, EndWriteOk, FailWriteOk, OpenForOneOk,
     ExtractAllOk, WriteEntryOk, EndExtractOk, VerifyOk, ListOk DEF CommandsNext

\* So does standing still.
LEMMA CommandsStutter == ASSUME CInv, UNCHANGED commandVars PROVE CInv'
  BY DEF CInv, commandVars

\* No command has started.
LEMMA CommandsInitOk == ASSUME CommandsInit PROVE CInv
  <1>1. DOMAIN fs = Path /\ DOMAIN proc = Process
    BY CommandsAssumption DEF CommandsInit
  <1>2. \A path \in Path : Made(fs[path])
    BY PlainMade, CommandsAssumption DEF CommandsInit
  <1>3. ASSUME NEW p \in Process PROVE ProcOk(p, proc[p], fs)
    <2> DEFINE r == IdleProcess
    <2>1. proc[p] = r
      BY DEF CommandsInit
    <2>2. r.pc = "idle" /\ r.plan = NoPlan /\ Shape(r) /\ PlanShape(NoPlan)
      BY DEF IdleProcess, Shape, PlanShape, NoPlan
    <2> HIDE DEF r
    <2> QED BY <2>1, <2>2 DEF ProcOk, WriterOk, DoneOk
  <1> QED BY <1>1, <1>2, <1>3 DEF CInv

\* The invariant of the commands, whatever they are and however they are
\* interleaved.
THEOREM CommandsInvariance == CommandsSpec => []CInv
  <1>1. CInv /\ [CommandsNext]_commandVars => CInv'
    BY CommandsNextOk, CommandsStutter DEF CommandStep
  <1> QED BY <1>1, CommandsInitOk, PTL DEF CommandsSpec

\* No command, whatever runs at the same time, changes a complete file that it
\* was not told to overwrite and has not created itself.
THEOREM FilesKept == CommandsSpec => CompleteFilesKept
  <1>1. CInv /\ [CommandsNext]_commandVars => [OverwriteOk]_fs
    <2> SUFFICES ASSUME CInv, [CommandsNext]_commandVars PROVE [OverwriteOk]_fs
      OBVIOUS
    <2>1. CASE CommandsNext
      BY <2>1, CommandsNextOk DEF CommandStep
    <2>2. CASE UNCHANGED commandVars
      BY <2>2 DEF commandVars
    <2> QED BY <2>1, <2>2
  <1>2. CompleteFilesKept <=> [][OverwriteOk]_fs
    BY DEF CompleteFilesKept, OverwriteOk
  <1> QED BY <1>1, <1>2, CommandsInvariance, PTL DEF CommandsSpec

\* An archive that compress or migrate reports as written, and nobody has
\* touched, is opened by extract with the same password and dictionary; and
\* what verify passes, extract opens, unless the archive names a user's
\* dictionary that none of its blocks needs.
THEOREM SuccessMeansReadable == CommandsSpec => []SuccessReadable
  <1>1. CInv => SuccessReadable
    <2> SUFFICES ASSUME CInv, NEW p \in Process, proc[p].pc = "done", proc[p].exit = 0
                 PROVE  LET job == proc[p].job
                            plan == proc[p].plan
                        IN  /\ job.cmd \in {"compress", "migrate"} /\ proc[p].alone =>
                                  /\ fs[job.output].kind = "archive"
                                  /\ fs[job.output].entries = plan.entries
                                  /\ CliExtracts(fs[job.output], Names(fs[job.output]), plan.given,
                                                 "auto", job.password)
                            /\ /\ job.cmd = "verify"
                               /\ \/ plan.content.coded # {}
                                  \/ plan.content.hash \in {None, hash(TextDict)}
                               => CliExtracts(plan.content, Names(plan.content), None,
                                              job.predictor, job.password)
      BY DEF SuccessReadable
    <2>1. DoneOk(proc[p], fs)
      BY DEF CInv, ProcOk
    <2> QED BY <2>1 DEF DoneOk, Promised, Verified
  <1> QED BY <1>1, CommandsInvariance, PTL


------------------------------------------------------------------------------
(* Part 2: the C interface.  Every allocation belongs to the tree of one   *)
(* slot: a caller's variable or a thread's last error.                     *)

\* The allocations reached from a pointer: at most a list, its array and its
\* strings.
Reach(h, p) == {p} \cup Children(h[p]) \cup UNION {Children(h[c]) : c \in Children(h[p])}
Owned(h, p) == IF p = Null THEN {} ELSE Reach(h, p)

\* The array e of a list r, with n strings of its own.
InfosOk(h, r, e, n) ==
    /\ e \in DOMAIN h /\ e # r
    /\ h[e].kind = "infos"
    /\ h[e].paths \subseteq DOMAIN h
    /\ IsFiniteSet(h[e].paths) /\ Cardinality(h[e].paths) = n
    /\ r \notin h[e].paths /\ e \notin h[e].paths
    /\ \A c \in h[e].paths : h[c].kind = "cstring"

ListTree(h, r) ==
    /\ h[r].kind = "list"
    /\ h[r].count \in Nat
    /\ h[r].count = 0 => h[r].entries = Null
    /\ h[r].count # 0 => InfosOk(h, r, h[r].entries, h[r].count)

\* What a slot of this name points to.
TreeOk(h, field, r) ==
    /\ r \in DOMAIN h
    /\ field = "list" => ListTree(h, r)
    /\ field # "list" => h[r].kind \notin {"list", "infos"}

Pointers(h) == IsFiniteSet(DOMAIN h) /\ DOMAIN h \subseteq Nat \ {0}

\* P gives the pointer in each slot.
HeapOk(h, P) ==
    /\ Pointers(h)
    /\ DOMAIN P = Slots
    /\ \A s \in Slots : P[s] # Null => TreeOk(h, s[2], P[s])
    /\ \A s, u \in Slots : s # u => Owned(h, P[s]) \cap Owned(h, P[u]) = {}
    /\ \A p \in DOMAIN h : \E s \in Slots : p \in Owned(h, P[s])

\* A list, its array and its strings, or a single allocation.
LEMMA TreeIs ==
    ASSUME NEW h, NEW field, NEW r, Pointers(h), TreeOk(h, field, r)
    PROVE  /\ r # Null /\ Owned(h, r) \subseteq DOMAIN h
           /\ \/ field # "list" /\ Children(h[r]) = {} /\ Owned(h, r) = {r}
              \/ /\ field = "list" /\ h[r].kind = "list" /\ h[r].count = 0
                 /\ Children(h[r]) = {} /\ Owned(h, r) = {r}
              \/ /\ field = "list" /\ h[r].kind = "list" /\ h[r].count # 0
                 /\ h[r].entries # Null
                 /\ InfosOk(h, r, h[r].entries, h[r].count)
                 /\ Children(h[r]) = {h[r].entries}
                 /\ Children(h[h[r].entries]) = h[h[r].entries].paths
                 /\ \A c \in h[h[r].entries].paths : Children(h[c]) = {}
                 /\ Owned(h, r) = {r, h[r].entries} \cup h[h[r].entries].paths
  <1>1. r # Null /\ r \in DOMAIN h
    BY DEF TreeOk, Pointers, Null
  <1>2. Owned(h, r) = {r} \cup Children(h[r]) \cup UNION {Children(h[c]) : c \in Children(h[r])}
    BY <1>1 DEF Owned, Reach
  <1>3. CASE field # "list"
    <2>1. Children(h[r]) = {}
      BY <1>3 DEF TreeOk, Children
    <2> QED BY <1>1, <1>2, <1>3, <2>1
  <1>4. CASE field = "list" /\ h[r].count = 0
    <2>1. h[r].kind = "list" /\ h[r].entries = Null
      BY <1>4 DEF TreeOk, ListTree
    <2>2. Children(h[r]) = {}
      BY <2>1 DEF Children
    <2> QED BY <1>1, <1>2, <1>4, <2>1, <2>2
  <1>5. CASE field = "list" /\ h[r].count # 0
    <2> DEFINE e == h[r].entries
    <2>1. h[r].kind = "list" /\ InfosOk(h, r, e, h[r].count)
      BY <1>5 DEF TreeOk, ListTree
    <2>2. e # Null /\ e \in DOMAIN h /\ h[e].kind = "infos" /\ h[e].paths \subseteq DOMAIN h
      BY <2>1 DEF InfosOk, Pointers, Null
    <2>3. Children(h[r]) = {e}
      BY <2>1, <2>2 DEF Children
    <2>4. Children(h[e]) = h[e].paths
      BY <2>2 DEF Children
    <2>5. \A c \in h[e].paths : Children(h[c]) = {}
      BY <2>1 DEF InfosOk, Children
    <2>6. Owned(h, r) = {r, e} \cup h[e].paths
      BY <1>2, <2>3, <2>4
    <2> HIDE DEF e
    <2>7. Owned(h, r) \subseteq DOMAIN h
      BY <1>1, <2>2, <2>6
    <2> QED BY <1>1, <1>5, <2>1, <2>2, <2>3, <2>4, <2>5, <2>6, <2>7 DEF e
  <1> QED BY <1>3, <1>4, <1>5

\* A heap that agrees with another one on a tree has the same tree.
LEMMA TreeKept ==
    ASSUME NEW h, NEW g, NEW field, NEW r, Pointers(h), TreeOk(h, field, r),
           \A p \in Owned(h, r) : p \in DOMAIN g /\ g[p] = h[p]
    PROVE  TreeOk(g, field, r) /\ Owned(g, r) = Owned(h, r)
  <1>1. r # Null /\ r \in Owned(h, r)
    BY TreeIs DEF Owned, Reach
  <1>2. r \in DOMAIN g /\ g[r] = h[r]
    BY <1>1
  <1>3. Owned(g, r) = {r} \cup Children(h[r]) \cup UNION {Children(g[c]) : c \in Children(h[r])}
    BY <1>1, <1>2 DEF Owned, Reach
  <1>4. \A c \in Children(h[r]) : c \in Owned(h, r) /\ g[c] = h[c]
    BY <1>1 DEF Owned, Reach
  <1>5. Owned(g, r) = Owned(h, r)
    BY <1>1, <1>3, <1>4 DEF Owned, Reach
  <1>6. CASE field # "list"
    BY <1>2, <1>5, <1>6 DEF TreeOk
  <1>7. CASE field = "list" /\ h[r].count = 0
    BY <1>2, <1>5, <1>7 DEF TreeOk, ListTree
  <1>8. CASE field = "list" /\ h[r].count # 0
    <2> DEFINE e == h[r].entries
    <2>1. Owned(h, r) = {r, e} \cup h[e].paths /\ InfosOk(h, r, e, h[r].count)
      BY <1>8, TreeIs
    <2>2. e \in DOMAIN g /\ g[e] = h[e]
      BY <2>1
    <2>3. \A c \in h[e].paths : c \in DOMAIN g /\ g[c] = h[c]
      BY <2>1
    <2>4. InfosOk(g, r, e, h[r].count)
      BY <2>1, <2>2, <2>3 DEF InfosOk
    <2> QED BY <1>2, <1>5, <1>8, <2>4 DEF TreeOk, ListTree
  <1> QED BY <1>6, <1>7, <1>8

\* Where a slot has a pointer, its tree.
LEMMA SlotTree ==
    ASSUME NEW h, NEW P, HeapOk(h, P), NEW s \in Slots
    PROVE  /\ Owned(h, P[s]) \subseteq DOMAIN h
           /\ P[s] # Null => TreeOk(h, s[2], P[s]) /\ P[s] \in Owned(h, P[s])
  <1>1. CASE P[s] = Null
    BY <1>1 DEF Owned
  <1>2. CASE P[s] # Null
    <2>1. TreeOk(h, s[2], P[s]) /\ Pointers(h)
      BY <1>2 DEF HeapOk
    <2>2. Owned(h, P[s]) \subseteq DOMAIN h
      BY <2>1, TreeIs
    <2>3. P[s] \in Owned(h, P[s])
      BY <1>2 DEF Owned, Reach
    <2> QED BY <2>1, <2>2, <2>3
  <1> QED BY <1>1, <1>2

\* A heap that agrees with another one on what a slot owns.
LEMMA SlotKept ==
    ASSUME NEW h, NEW g, NEW P, HeapOk(h, P), NEW s \in Slots,
           \A p \in Owned(h, P[s]) : p \in DOMAIN g /\ g[p] = h[p]
    PROVE  /\ Owned(g, P[s]) = Owned(h, P[s])
           /\ P[s] # Null => TreeOk(g, s[2], P[s])
  <1>1. CASE P[s] = Null
    BY <1>1 DEF Owned
  <1>2. CASE P[s] # Null
    <2>1. TreeOk(h, s[2], P[s]) /\ Pointers(h)
      BY <1>2 DEF HeapOk
    <2> QED BY <2>1, TreeKept
  <1> QED BY <1>1, <1>2

\* An allocation that a call gives to an empty slot, together with what it
\* allocates behind it.
LEMMA GrowOk ==
    ASSUME NEW h, NEW g, NEW P, NEW Q, HeapOk(h, P), NEW s \in Slots, P[s] = Null,
           DOMAIN Q = Slots, \A u \in Slots : u # s => Q[u] = P[u],
           Pointers(g), DOMAIN h \subseteq DOMAIN g, \A p \in DOMAIN h : g[p] = h[p],
           TreeOk(g, s[2], Q[s]), Owned(g, Q[s]) = DOMAIN g \ DOMAIN h
    PROVE  HeapOk(g, Q)
  <1>1. \A u \in Slots : u # s =>
           /\ Owned(g, Q[u]) = Owned(h, P[u]) /\ Owned(h, P[u]) \subseteq DOMAIN h
           /\ Q[u] # Null => TreeOk(g, u[2], Q[u])
    <2> SUFFICES ASSUME NEW u \in Slots, u # s
                 PROVE  /\ Owned(g, Q[u]) = Owned(h, P[u]) /\ Owned(h, P[u]) \subseteq DOMAIN h
                        /\ Q[u] # Null => TreeOk(g, u[2], Q[u])
      OBVIOUS
    <2>1. Owned(h, P[u]) \subseteq DOMAIN h
      BY SlotTree
    <2>2. \A p \in Owned(h, P[u]) : p \in DOMAIN g /\ g[p] = h[p]
      BY <2>1
    <2>3. Owned(g, P[u]) = Owned(h, P[u]) /\ (P[u] # Null => TreeOk(g, u[2], P[u]))
      BY <2>2, SlotKept
    <2> QED BY <2>1, <2>3
  <1>2. \A u \in Slots : Q[u] # Null => TreeOk(g, u[2], Q[u])
    BY <1>1
  <1>3. ASSUME NEW u \in Slots, NEW v \in Slots, u # v
        PROVE  Owned(g, Q[u]) \cap Owned(g, Q[v]) = {}
    <2>1. CASE u # s /\ v # s
      <3>1. Owned(h, P[u]) \cap Owned(h, P[v]) = {}
        BY <1>3 DEF HeapOk
      <3> QED BY <1>1, <2>1, <3>1
    <2>2. CASE u = s
      <3>1. Owned(g, Q[v]) \subseteq DOMAIN h
        BY <1>1, <1>3, <2>2
      <3> QED BY <2>2, <3>1
    <2>3. CASE v = s
      <3>1. Owned(g, Q[u]) \subseteq DOMAIN h
        BY <1>1, <1>3, <2>3
      <3> QED BY <2>3, <3>1
    <2> QED BY <2>1, <2>2, <2>3
  <1>4. ASSUME NEW p \in DOMAIN g PROVE \E u \in Slots : p \in Owned(g, Q[u])
    <2>1. CASE p \in DOMAIN h
      <3>1. PICK u \in Slots : p \in Owned(h, P[u])
        BY <2>1 DEF HeapOk
      <3>2. u # s
        BY <3>1 DEF Owned
      <3> QED BY <1>1, <3>1, <3>2
    <2>2. CASE p \notin DOMAIN h
      BY <2>2
    <2> QED BY <2>1, <2>2
  <1> QED BY <1>2, <1>3, <1>4 DEF HeapOk

\* A slot that is emptied, and all it owned freed: nothing is left behind
\* and nothing of another slot is gone.
LEMMA FreeOk ==
    ASSUME NEW h, NEW P, NEW Q, HeapOk(h, P), NEW s \in Slots,
           DOMAIN Q = Slots, \A u \in Slots : u # s => Q[u] = P[u], Q[s] = Null
    PROVE  HeapOk(Free(h, Owned(h, P[s])), Q)
  <1> DEFINE O == Owned(h, P[s])
             g == Free(h, O)
  <1>1. DOMAIN g = DOMAIN h \ O /\ \A p \in DOMAIN g : g[p] = h[p]
    BY DEF Free
  <1>2. Pointers(g)
    <2>1. IsFiniteSet(DOMAIN h) /\ DOMAIN h \subseteq Nat \ {0}
      BY DEF HeapOk, Pointers
    <2>2. IsFiniteSet(DOMAIN g)
      <3> HIDE DEF g, O
      <3> QED BY <1>1, <2>1, FS_Subset
    <2> HIDE DEF g, O
    <2> QED BY <1>1, <2>1, <2>2 DEF Pointers
  <1>3. \A u \in Slots : u # s => O \cap Owned(h, P[u]) = {}
    BY DEF HeapOk
  <1> HIDE DEF g, O
  <1>4. \A u \in Slots : u # s =>
           /\ Owned(g, Q[u]) = Owned(h, P[u])
           /\ Q[u] # Null => TreeOk(g, u[2], Q[u])
    <2> SUFFICES ASSUME NEW u \in Slots, u # s
                 PROVE  /\ Owned(g, Q[u]) = Owned(h, P[u])
                        /\ Q[u] # Null => TreeOk(g, u[2], Q[u])
      OBVIOUS
    <2>1. Owned(h, P[u]) \subseteq DOMAIN h
      BY SlotTree
    <2>2. \A p \in Owned(h, P[u]) : p \in DOMAIN g /\ g[p] = h[p]
      BY <1>1, <1>3, <2>1
    <2>3. Owned(g, P[u]) = Owned(h, P[u]) /\ (P[u] # Null => TreeOk(g, u[2], P[u]))
      BY <2>2, SlotKept
    <2> QED BY <2>3
  <1>5. Owned(g, Q[s]) = {}
    BY DEF Owned
  <1>6. ASSUME NEW u \in Slots, NEW v \in Slots, u # v
        PROVE  Owned(g, Q[u]) \cap Owned(g, Q[v]) = {}
    <2>1. Owned(h, P[u]) \cap Owned(h, P[v]) = {}
      BY <1>6 DEF HeapOk
    <2> QED BY <1>4, <1>5, <1>6, <2>1
  <1>7. ASSUME NEW p \in DOMAIN g PROVE \E u \in Slots : p \in Owned(g, Q[u])
    <2>1. PICK u \in Slots : p \in Owned(h, P[u])
      BY <1>1 DEF HeapOk
    <2>2. u # s
      BY <1>1, <2>1 DEF O
    <2> QED BY <1>4, <2>1, <2>2
  <1>8. \A u \in Slots : Q[u] # Null => TreeOk(g, u[2], Q[u])
    BY <1>4
  <1>9. HeapOk(g, Q)
    BY <1>2, <1>6, <1>7, <1>8 DEF HeapOk
  <1> QED BY <1>9 DEF g, O

\* The loop of aether_list over the entries: after n of them there are n
\* strings more, and nothing else has changed.
AddString(old, h, path) == Alloc(h, CStr(path))
StringsAdded(old, entries, n, h) ==
    /\ Pointers(h)
    /\ DOMAIN old \subseteq DOMAIN h
    /\ \A p \in DOMAIN old : h[p] = old[p]
    /\ \A p \in DOMAIN h \ DOMAIN old : h[p].kind = "cstring"
    /\ Cardinality(DOMAIN h \ DOMAIN old) = n

OverEntries == INSTANCE FoldInduction WITH Step <- AddString, Good <- StringsAdded

\* The allocator gives a pointer that is not in use.
LEMMA Fresh ==
    ASSUME NEW h, Pointers(h)
    PROVE  FreshPtr(h) \in Nat \ {0} /\ FreshPtr(h) \notin DOMAIN h
  <1> DEFINE n == Cardinality(DOMAIN h)
             T == (1 .. n + 1) \ DOMAIN h
  <1>1. n \in Nat
    BY FS_CardinalityType DEF Pointers
  <1>2. T # {}
    <2> SUFFICES ASSUME (1 .. n + 1) \subseteq DOMAIN h PROVE FALSE
      OBVIOUS
    <2>1. Cardinality(1 .. n + 1) <= n
      BY FS_Subset DEF Pointers
    <2>2. Cardinality(1 .. n + 1) = n + 1
      <3> HIDE DEF n
      <3>1. 1 \in Int /\ n + 1 \in Int
        BY <1>1
      <3>2. \A b \in Int : b >= 1 => Cardinality(1 .. b) = b - 1 + 1
        BY FS_Interval
      <3>3. \A b \in Int : b - 1 + 1 = b
        OBVIOUS
      <3>4. n + 1 >= 1
        BY <1>1
      <3> QED BY <3>1, <3>2, <3>3, <3>4
    <2> HIDE DEF n
    <2> QED BY <1>1, <2>1, <2>2
  <1>3. T \subseteq Nat
    <2> HIDE DEF n
    <2> QED BY <1>1
  <1>4. PICK m \in T : \A k \in T : m <= k
    <2> HIDE DEF T
    <2> QED BY <1>2, <1>3, OverEntries!LeastNat
  <1>5. Min(T) \in T
    <2> HIDE DEF T
    <2> QED BY <1>4 DEF Min
  <1>6. FreshPtr(h) = Min(T)
    BY DEF FreshPtr
  <1>7. Min(T) \in Nat \ {0} /\ Min(T) \notin DOMAIN h
    <2> HIDE DEF n
    <2> QED BY <1>1, <1>5
  <1> QED BY <1>6, <1>7

\* An allocation changes nothing that is there.
LEMMA AllocIs ==
    ASSUME NEW h, NEW value, Pointers(h)
    PROVE  /\ Pointers(Alloc(h, value))
           /\ DOMAIN Alloc(h, value) = DOMAIN h \cup {FreshPtr(h)}
           /\ Alloc(h, value)[FreshPtr(h)] = value
           /\ \A p \in DOMAIN h : Alloc(h, value)[p] = h[p]
  <1>1. FreshPtr(h) \in Nat \ {0} /\ FreshPtr(h) \notin DOMAIN h
    BY Fresh
  <1>2. /\ DOMAIN Alloc(h, value) = DOMAIN h \cup {FreshPtr(h)}
        /\ Alloc(h, value)[FreshPtr(h)] = value
        /\ \A p \in DOMAIN h : Alloc(h, value)[p] = h[p]
    BY <1>1 DEF Alloc
  <1>3. IsFiniteSet(DOMAIN h \cup {FreshPtr(h)})
    BY FS_AddElement DEF Pointers
  <1>4. DOMAIN h \subseteq Nat \ {0}
    BY DEF Pointers
  <1>5. Pointers(Alloc(h, value))
    BY <1>1, <1>2, <1>3, <1>4 DEF Pointers
  <1> QED BY <1>2, <1>5

\* One string more.
LEMMA AddStringOk ==
    ASSUME NEW old, NEW q, NEW n \in Nat, NEW h, NEW path, n >= 1, StringsAdded(old, q, n - 1, h)
    PROVE  StringsAdded(old, q, n, AddString(old, h, path))
  <1> DEFINE g == Alloc(h, CStr(path))
             f == FreshPtr(h)
  <1>0. /\ Pointers(h) /\ DOMAIN old \subseteq DOMAIN h
        /\ \A p \in DOMAIN old : h[p] = old[p]
        /\ \A p \in DOMAIN h \ DOMAIN old : h[p].kind = "cstring"
        /\ Cardinality(DOMAIN h \ DOMAIN old) = n - 1
    BY DEF StringsAdded
  <1>1. f \notin DOMAIN h
    BY <1>0, Fresh
  <1>2. /\ Pointers(g) /\ DOMAIN g = DOMAIN h \cup {f}
        /\ g[f] = CStr(path) /\ \A p \in DOMAIN h : g[p] = h[p]
    <2>1. Pointers(h)
      BY <1>0
    <2> DEFINE v == CStr(path)
    <2> HIDE DEF v
    <2>2. /\ Pointers(Alloc(h, v))
          /\ DOMAIN Alloc(h, v) = DOMAIN h \cup {FreshPtr(h)}
          /\ Alloc(h, v)[FreshPtr(h)] = v
          /\ \A p \in DOMAIN h : Alloc(h, v)[p] = h[p]
      BY ONLY <2>1, AllocIs
    <2> QED BY <2>2 DEF v
  <1>3. CStr(path).kind = "cstring"
    BY DEF CStr
  <1> HIDE DEF f, g
  <1>4. DOMAIN g \ DOMAIN old = (DOMAIN h \ DOMAIN old) \cup {f}
    BY <1>0, <1>1, <1>2
  <1>5. Cardinality(DOMAIN g \ DOMAIN old) = n
    <2> DEFINE S == DOMAIN h \ DOMAIN old
    <2>1. IsFiniteSet(S)
      BY <1>0, FS_Subset DEF Pointers
    <2>2. f \notin S
      BY <1>1
    <2>3. Cardinality(S) = n - 1
      BY <1>0
    <2>4. DOMAIN g \ DOMAIN old = S \cup {f}
      BY <1>4
    <2> HIDE DEF S
    <2>5. Cardinality(S \cup {f}) = Cardinality(S) + 1
      BY <2>1, <2>2, FS_AddElement
    <2> QED BY <2>3, <2>4, <2>5
  <1>6. DOMAIN old \subseteq DOMAIN g /\ \A p \in DOMAIN old : g[p] = old[p]
    BY <1>0, <1>2
  <1>7. \A p \in DOMAIN g \ DOMAIN old : g[p].kind = "cstring"
    BY <1>0, <1>2, <1>3, <1>4
  <1>8. StringsAdded(old, q, n, g)
    BY <1>2, <1>5, <1>6, <1>7 DEF StringsAdded
  <1> QED BY <1>8 DEF g, AddString

\* The strings aether_list makes for the entries of an archive.
LEMMA StringsOk ==
    ASSUME NEW h, Pointers(h), NEW q \in Seq(EntryKinds)
    PROVE  StringsAdded(h, q, Len(q), FoldLeft(LAMBDA g, path : Alloc(g, CStr(path)), h, q))
  <1>1. Len(q) \in Nat /\ DOMAIN q = 1 .. Len(q)
    OBVIOUS
  <1>2. StringsAdded(h, q, 0, h)
    <2>1. DOMAIN h \ DOMAIN h = {}
      OBVIOUS
    <2>2. Cardinality(DOMAIN h \ DOMAIN h) = 0
      BY <2>1, FS_EmptySet
    <2> QED BY <2>1, <2>2 DEF StringsAdded
  <1>3. \A n \in 1 .. Len(q) : \A g :
           StringsAdded(h, q, n - 1, g) => StringsAdded(h, q, n, AddString(h, g, q[n]))
    BY <1>1, AddStringOk
  <1>4. StringsAdded(h, q, Len(q), OverEntries!Loop(h, h, q))
    BY <1>1, <1>2, <1>3, OverEntries!LoopInvariant
  <1>5. FoldLeft(LAMBDA g, path : Alloc(g, CStr(path)), h, q) = OverEntries!Loop(h, h, q)
    BY DEF AddString, OverEntries!Loop, FoldLeft, MapThenFoldSet, Max,
           OverEntries!FoldLeft, OverEntries!MapThenFoldSet, OverEntries!Max
  <1> QED BY <1>4, <1>5

\* A single allocation for an empty slot.
LEMMA AllocOk ==
    ASSUME NEW h, NEW P, NEW Q, HeapOk(h, P), NEW s \in Slots, P[s] = Null, s[2] # "list",
           DOMAIN Q = Slots, \A u \in Slots : u # s => Q[u] = P[u],
           NEW value, value.kind \notin {"list", "infos"}, Q[s] = FreshPtr(h)
    PROVE  HeapOk(Alloc(h, value), Q)
  <1> DEFINE g == Alloc(h, value)
             f == FreshPtr(h)
  <1>1. Pointers(h)
    BY DEF HeapOk
  <1>2. /\ Pointers(g) /\ DOMAIN g = DOMAIN h \cup {f} /\ f \notin DOMAIN h
        /\ g[f] = value /\ \A p \in DOMAIN h : g[p] = h[p]
    BY <1>1, AllocIs, Fresh
  <1>3. f = Q[s]
    OBVIOUS
  <1> HIDE DEF f, g
  <1>4. TreeOk(g, s[2], f)
    BY <1>2 DEF TreeOk
  <1>5. Owned(g, f) = {f}
    BY <1>2, <1>4, TreeIs
  <1>6. Owned(g, Q[s]) = DOMAIN g \ DOMAIN h
    BY <1>2, <1>3, <1>5
  <1>7. HeapOk(g, Q)
    BY <1>2, <1>3, <1>4, <1>6, GrowOk
  <1> QED BY <1>7 DEF g

\* A slot other than a list owns one allocation or none.
LEMMA FreeOneOk ==
    ASSUME NEW h, NEW P, NEW Q, HeapOk(h, P), NEW s \in Slots, s[2] # "list",
           DOMAIN Q = Slots, \A u \in Slots : u # s => Q[u] = P[u], Q[s] = Null
    PROVE  HeapOk(Free(h, {P[s]}), Q)
  <1>1. Pointers(h)
    BY DEF HeapOk
  <1>2. Free(h, {P[s]}) = Free(h, Owned(h, P[s]))
    <2>1. CASE P[s] = Null
      <3>1. DOMAIN h \ {P[s]} = DOMAIN h \ Owned(h, P[s])
        BY <1>1, <2>1 DEF Pointers, Owned, Null
      <3> QED BY <3>1 DEF Free
    <2>2. CASE P[s] # Null
      <3>1. Owned(h, P[s]) = {P[s]}
        BY <1>1, <2>2, SlotTree, TreeIs
      <3> QED BY <3>1
    <2> QED BY <2>1, <2>2
  <1> QED BY <1>2, FreeOk

------------------------------------------------------------------------------
Fields == {"compressor", "decompressor", "list", "message"}

\* The pointer in each slot, from the last errors and the callers' variables.
PtrsOf(errs, vs) ==
    [s \in Slots |-> IF s[2] = "last_error" THEN errs[s[1]] ELSE vs[s[1]][s[2]]]

ArchiveOk(a) == Lists(a) => a.entries \in Seq(EntryKinds)

\* The message of a call that failed, where the last errors point to.
Reported(h, err, outcome) ==
    outcome.reason # "OK" =>
       /\ err # Null /\ h[err] = CStr(outcome.reason)
       /\ outcome.reason \in Refusals => ~outcome.wrote

FInv ==
    /\ DOMAIN last_error = Thread /\ DOMAIN last = Thread /\ DOMAIN var = Thread
    /\ \A t \in Thread : DOMAIN var[t] = Fields
    /\ DOMAIN archives = ArchivePath
    /\ \A a \in ArchivePath : ArchiveOk(archives[a])
    /\ HeapOk(heap, PtrsOf(last_error, var))
    /\ \A t \in Thread : Reported(heap, last_error[t], last[t])

\* The slots of a caller's variable and of a last error.
LEMMA SlotOf ==
    ASSUME NEW t \in Thread
    PROVE  /\ \A f \in Fields : <<t, f>> \in Slots /\ <<t, f>>[2] = f /\ f # "last_error"
           /\ <<t, "last_error">> \in Slots /\ <<t, "last_error">>[2] = "last_error"
  BY DEF Slots, Fields

\* Setting a caller's variable sets one slot.
LEMMA VarSlot ==
    ASSUME FInv, NEW t \in Thread, NEW f \in Fields, NEW value,
           var' = [var EXCEPT ![t][f] = value]
    PROVE  /\ DOMAIN PtrsOf(last_error, var') = Slots
           /\ \A u \in Slots : u # <<t, f>> =>
                 PtrsOf(last_error, var')[u] = PtrsOf(last_error, var)[u]
           /\ PtrsOf(last_error, var')[<<t, f>>] = value
           /\ DOMAIN var' = Thread /\ \A u \in Thread : DOMAIN var'[u] = Fields
  <1>1. DOMAIN var = Thread /\ \A u \in Thread : DOMAIN var[u] = Fields
    BY DEF FInv
  <1>2. /\ DOMAIN var' = Thread
        /\ \A u \in Thread : u # t => var'[u] = var[u]
        /\ var'[t] = [var[t] EXCEPT ![f] = value]
    BY <1>1
  <1>3. /\ DOMAIN var'[t] = Fields /\ var'[t][f] = value
        /\ \A k \in Fields : k # f => var'[t][k] = var[t][k]
    BY <1>1, <1>2
  <1>4. \A u \in Slots : /\ u[1] \in Thread /\ u = <<u[1], u[2]>>
                         /\ u[2] # "last_error" => u[2] \in Fields
    BY DEF Slots, Fields
  <1>5. ASSUME NEW u \in Slots, u # <<t, f>>
        PROVE  PtrsOf(last_error, var')[u] = PtrsOf(last_error, var)[u]
    <2>1. CASE u[2] = "last_error"
      BY <2>1 DEF PtrsOf
    <2>2. CASE u[2] # "last_error"
      <3>1. var'[u[1]][u[2]] = var[u[1]][u[2]]
        BY <1>2, <1>3, <1>4, <1>5, <2>2
      <3> QED BY <2>2, <3>1 DEF PtrsOf
    <2> QED BY <2>1, <2>2
  <1>6. PtrsOf(last_error, var')[<<t, f>>] = value
    BY <1>3, SlotOf DEF PtrsOf
  <1>7. DOMAIN PtrsOf(last_error, var') = Slots
    BY DEF PtrsOf
  <1>8. \A u \in Thread : DOMAIN var'[u] = Fields
    BY <1>1, <1>2, <1>3
  <1> QED BY <1>2, <1>5, <1>6, <1>7, <1>8

\* Two slots never hold the same pointer.
LEMMA PtrsDiffer ==
    ASSUME NEW h, NEW P, HeapOk(h, P), NEW s \in Slots, NEW u \in Slots, s # u, P[u] # Null
    PROVE  P[u] \in DOMAIN h /\ P[u] \notin Owned(h, P[s])
  <1>1. P[u] \in Owned(h, P[u]) /\ Owned(h, P[u]) \subseteq DOMAIN h
    BY SlotTree
  <1>2. Owned(h, P[s]) \cap Owned(h, P[u]) = {}
    BY DEF HeapOk
  <1> QED BY <1>1, <1>2

\* The last error of a thread, as a slot.
LEMMA ErrorSlot ==
    ASSUME NEW errs, NEW vs, NEW t \in Thread
    PROVE  PtrsOf(errs, vs)[<<t, "last_error">>] = errs[t]
  BY SlotOf DEF PtrsOf

\* Where the messages are, a change of the heap that leaves them alone
\* leaves what they say.
LEMMA ReportedKept ==
    ASSUME FInv, NEW h, NEW t \in Thread,
           last_error[t] # Null => h[last_error[t]] = heap[last_error[t]]
    PROVE  Reported(h, last_error[t], last[t])
  BY DEF FInv, Reported

\* A failed call replaces the message of its own thread and no other.
LEMMA SetErrorOk ==
    ASSUME FInv, NEW t \in Thread, NEW msg, set_last_error(t, msg), UNCHANGED var
    PROVE  /\ HeapOk(heap', PtrsOf(last_error', var'))
           /\ DOMAIN last_error' = Thread
           /\ last_error'[t] # Null /\ heap'[last_error'[t]] = CStr(msg)
           /\ \A u \in Thread : u # t =>
                 /\ last_error'[u] = last_error[u]
                 /\ last_error[u] # Null => heap'[last_error[u]] = heap[last_error[u]]
  <1> DEFINE P == PtrsOf(last_error, var)
             s == <<t, "last_error">>
             R == [P EXCEPT ![s] = Null]
             h == Free(heap, {last_error[t]})
             Q == PtrsOf(last_error', var')
  <1>1. HeapOk(heap, P) /\ DOMAIN last_error = Thread
    BY DEF FInv
  <1>2. s \in Slots /\ s[2] = "last_error" /\ P[s] = last_error[t]
    BY SlotOf, ErrorSlot
  <1>3. DOMAIN P = Slots /\ DOMAIN Q = Slots
    BY DEF PtrsOf
  <1>4. /\ heap' = Alloc(h, CStr(msg))
        /\ last_error' = [last_error EXCEPT ![t] = FreshPtr(h)]
    BY DEF set_last_error
  <1>5. DOMAIN last_error' = Thread /\ last_error'[t] = FreshPtr(h)
        /\ \A u \in Thread : u # t => last_error'[u] = last_error[u]
    <2> HIDE DEF h
    <2> QED BY <1>1, <1>4
  <1>6. Q[s] = FreshPtr(h)
    BY <1>2, <1>5 DEF PtrsOf
  <1>7. \A u \in Slots : u # s => Q[u] = P[u]
    <2>1. \A u \in Slots : u[1] \in Thread /\ u = <<u[1], u[2]>>
      BY DEF Slots
    <2> SUFFICES ASSUME NEW u \in Slots, u # s PROVE Q[u] = P[u]
      OBVIOUS
    <2>2. CASE u[2] = "last_error"
      <3>1. u[1] # t
        BY <2>1, <2>2
      <3> QED BY <1>5, <2>1, <2>2, <3>1 DEF PtrsOf
    <2>3. CASE u[2] # "last_error"
      BY <2>3 DEF PtrsOf
    <2> QED BY <2>2, <2>3
  <1> HIDE DEF P, Q
  <1>8. DOMAIN R = Slots /\ R[s] = Null /\ \A u \in Slots : u # s => R[u] = P[u] /\ Q[u] = R[u]
    BY <1>2, <1>3, <1>7
  <1> HIDE DEF R
  <1>9. HeapOk(h, R)
    <2>1. s[2] # "list"
      OBVIOUS
    <2>2. HeapOk(Free(heap, {P[s]}), R)
      <3> HIDE DEF s
      <3> QED BY <1>1, <1>2, <1>8, <2>1, FreeOneOk
    <2> QED BY <1>2, <2>2
  <1>10. CStr(msg).kind \notin {"list", "infos"}
    BY DEF CStr
  <1>11. HeapOk(Alloc(h, CStr(msg)), Q)
    <2>1. s[2] # "list"
      OBVIOUS
    <2> HIDE DEF s, h
    <2> QED BY <1>2, <1>3, <1>6, <1>8, <1>9, <1>10, <2>1, AllocOk
  <1>12. Pointers(h)
    BY <1>9 DEF HeapOk
  <1>13. FreshPtr(h) # Null /\ Alloc(h, CStr(msg))[FreshPtr(h)] = CStr(msg)
    <2> HIDE DEF h
    <2> QED BY <1>12, AllocIs, Fresh DEF Null
  <1>14. ASSUME NEW u \in Thread, u # t, last_error[u] # Null
         PROVE  heap'[last_error[u]] = heap[last_error[u]]
    <2>1. <<u, "last_error">> \in Slots /\ P[<<u, "last_error">>] = last_error[u]
          /\ s # <<u, "last_error">>
      BY <1>14, SlotOf, ErrorSlot DEF P
    <2>2. last_error[u] \in DOMAIN heap /\ last_error[u] \notin Owned(heap, P[s])
      <3> HIDE DEF s
      <3> QED BY <1>1, <1>2, <1>14, <2>1, PtrsDiffer
    <2>3. last_error[u] # last_error[t]
      <3>1. CASE last_error[t] = Null
        BY <1>14, <3>1
      <3>2. CASE last_error[t] # Null
        <4>1. P[s] \in Owned(heap, P[s])
          BY <1>1, <1>2, <3>2, SlotTree
        <4> QED BY <1>2, <2>2, <4>1
      <3> QED BY <3>1, <3>2
    <2>4. last_error[u] \in DOMAIN h /\ h[last_error[u]] = heap[last_error[u]]
      BY <2>2, <2>3 DEF Free
    <2> HIDE DEF h
    <2>5. \A p \in DOMAIN h : Alloc(h, CStr(msg))[p] = h[p]
      BY <1>12, AllocIs, ZenonT(60)
    <2>6. Alloc(h, CStr(msg))[last_error[u]] = h[last_error[u]]
      BY <2>4, <2>5
    <2> QED BY <1>4, <2>4, <2>6
  <1> HIDE DEF h
  <1> QED BY <1>4, <1>5, <1>11, <1>13, <1>14 DEF Q

\* The archives stay readable as they were, or become what a call wrote.
ArchivesStep == DOMAIN archives' = ArchivePath /\ \A a \in ArchivePath : ArchiveOk(archives'[a])

\* A call that fails preserves the invariant, if it may have written only
\* where that is no refusal.
LEMMA FailOk ==
    ASSUME FInv, NEW t \in Thread, NEW reason, NEW wrote, reason \in Refusals => ~wrote,
           ArchivesStep, UNCHANGED var, set_last_error(t, reason), Returns(t, reason, wrote)
    PROVE  FInv'
  <1>1. /\ HeapOk(heap', PtrsOf(last_error', var'))
        /\ DOMAIN last_error' = Thread
        /\ last_error'[t] # Null /\ heap'[last_error'[t]] = CStr(reason)
        /\ \A u \in Thread : u # t =>
              /\ last_error'[u] = last_error[u]
              /\ last_error[u] # Null => heap'[last_error[u]] = heap[last_error[u]]
    BY SetErrorOk
  <1>2. /\ DOMAIN last' = Thread /\ last'[t] = [reason |-> reason, wrote |-> wrote]
        /\ \A u \in Thread : u # t => last'[u] = last[u]
    BY DEF FInv, Returns
  <1>3. ASSUME NEW u \in Thread PROVE Reported(heap', last_error'[u], last'[u])
    <2>1. CASE u = t
      <3>1. last'[t].reason = reason /\ last'[t].wrote = wrote
        BY <1>2
      <3> QED BY <1>1, <2>1, <3>1 DEF Reported
    <2>2. CASE u # t
      <3>1. Reported(heap', last_error[u], last[u])
        BY <1>1, <2>2, ReportedKept
      <3> QED BY <1>1, <1>2, <2>2, <3>1
    <2> QED BY <2>1, <2>2
  <1>4. DOMAIN var' = Thread /\ \A u \in Thread : DOMAIN var'[u] = Fields
    BY DEF FInv
  <1> QED BY <1>1, <1>2, <1>3, <1>4 DEF FInv, ArchivesStep

\* Outcomes other than a failure.
NoFailure(t) == last' = last \/ Returns(t, "OK", FALSE)

\* A call that leaves the last errors alone, and what they say.
LEMMA KeepsErrors ==
    ASSUME FInv, NEW t \in Thread, NoFailure(t), ArchivesStep, UNCHANGED last_error,
           DOMAIN var' = Thread, \A u \in Thread : DOMAIN var'[u] = Fields,
           HeapOk(heap', PtrsOf(last_error, var')),
           \A u \in Thread : last_error[u] # Null => heap'[last_error[u]] = heap[last_error[u]]
    PROVE  FInv'
  <1>1. DOMAIN last = Thread /\ DOMAIN last_error = Thread
    BY DEF FInv
  <1>2. DOMAIN last' = Thread /\ \A u \in Thread : last'[u] = last[u] \/ last'[u].reason = "OK"
    BY <1>1 DEF NoFailure, Returns
  <1>3. ASSUME NEW u \in Thread PROVE Reported(heap', last_error'[u], last'[u])
    <2>1. Reported(heap', last_error[u], last[u])
      BY ReportedKept
    <2> QED BY <1>2, <2>1 DEF Reported
  <1> QED BY <1>1, <1>2, <1>3 DEF FInv, ArchivesStep

\* A call that only reads.
LEMMA QuietOk ==
    ASSUME FInv, NEW t \in Thread, NoFailure(t), ArchivesStep, UNCHANGED <<heap, var, last_error>>
    PROVE  FInv'
  <1>1. /\ DOMAIN var' = Thread /\ \A u \in Thread : DOMAIN var'[u] = Fields
        /\ HeapOk(heap', PtrsOf(last_error, var'))
    BY DEF FInv
  <1> QED BY <1>1, KeepsErrors

\* A call that gives the caller an allocation and what it allocates behind
\* it.
LEMMA GiveOk ==
    ASSUME FInv, NEW t \in Thread, NEW f \in Fields, var[t][f] = Null, NoFailure(t),
           ArchivesStep, UNCHANGED last_error, NEW r, var' = [var EXCEPT ![t][f] = r],
           Pointers(heap'), DOMAIN heap \subseteq DOMAIN heap',
           \A p \in DOMAIN heap : heap'[p] = heap[p],
           TreeOk(heap', f, r), Owned(heap', r) = DOMAIN heap' \ DOMAIN heap
    PROVE  FInv'
  <1> DEFINE s == <<t, f>>
             P == PtrsOf(last_error, var)
             Q == PtrsOf(last_error, var')
  <1>1. /\ DOMAIN Q = Slots /\ (\A u \in Slots : u # s => Q[u] = P[u]) /\ Q[s] = r
        /\ DOMAIN var' = Thread /\ \A u \in Thread : DOMAIN var'[u] = Fields
    BY VarSlot, ZenonT(120)
  <1>2. s \in Slots /\ s[2] = f /\ f # "last_error"
    BY SlotOf
  <1>3. P[s] = Null /\ HeapOk(heap, P)
    BY <1>2 DEF PtrsOf, FInv
  <1> HIDE DEF P, Q, s
  <1>4. TreeOk(heap', s[2], Q[s]) /\ Owned(heap', Q[s]) = DOMAIN heap' \ DOMAIN heap
    BY <1>1, <1>2
  <1>5. HeapOk(heap', Q)
    BY <1>1, <1>2, <1>3, <1>4, GrowOk
  <1>6. ASSUME NEW u \in Thread, last_error[u] # Null
        PROVE  heap'[last_error[u]] = heap[last_error[u]]
    <2>1. <<u, "last_error">> \in Slots /\ P[<<u, "last_error">>] = last_error[u]
      BY SlotOf, ErrorSlot DEF P
    <2>2. Owned(heap, P[<<u, "last_error">>]) \subseteq DOMAIN heap
          /\ P[<<u, "last_error">>] \in Owned(heap, P[<<u, "last_error">>])
      BY <1>3, <1>6, <2>1, SlotTree
    <2> QED BY <2>1, <2>2
  <1> QED BY <1>1, <1>5, <1>6, KeepsErrors DEF Q

\* A single allocation given to the caller.
LEMMA GiveOneOk ==
    ASSUME FInv, NEW t \in Thread, NEW f \in Fields, f # "list", var[t][f] = Null, NoFailure(t),
           ArchivesStep, UNCHANGED last_error, NEW value, value.kind \notin {"list", "infos"},
           heap' = Alloc(heap, value), var' = [var EXCEPT ![t][f] = FreshPtr(heap)]
    PROVE  FInv'
  <1> DEFINE r == FreshPtr(heap)
  <1>1. Pointers(heap)
    BY DEF FInv, HeapOk
  <1>2. /\ Pointers(heap') /\ DOMAIN heap' = DOMAIN heap \cup {r} /\ r \notin DOMAIN heap
        /\ heap'[r] = value /\ \A p \in DOMAIN heap : heap'[p] = heap[p]
    BY <1>1, AllocIs, Fresh
  <1> HIDE DEF r
  <1>3. TreeOk(heap', f, r)
    BY <1>2 DEF TreeOk
  <1>4. Owned(heap', r) = {r}
    BY <1>2, <1>3, TreeIs
  <1>5. Owned(heap', r) = DOMAIN heap' \ DOMAIN heap /\ DOMAIN heap \subseteq DOMAIN heap'
    BY <1>2, <1>4
  <1>6. var' = [var EXCEPT ![t][f] = r]
    BY DEF r
  <1> QED BY <1>2, <1>3, <1>5, <1>6, GiveOk

\* A caller's variable is cleared, and what it owned is freed.
LEMMA TakeOk ==
    ASSUME FInv, NEW t \in Thread, NEW f \in Fields, NoFailure(t), ArchivesStep,
           UNCHANGED last_error, var' = [var EXCEPT ![t][f] = Null],
           heap' = Free(heap, Owned(heap, var[t][f]))
    PROVE  FInv'
  <1> DEFINE s == <<t, f>>
             P == PtrsOf(last_error, var)
             Q == PtrsOf(last_error, var')
  <1>1. /\ DOMAIN Q = Slots /\ (\A u \in Slots : u # s => Q[u] = P[u]) /\ Q[s] = Null
        /\ DOMAIN var' = Thread /\ \A u \in Thread : DOMAIN var'[u] = Fields
    BY VarSlot
  <1>2. s \in Slots /\ s[2] = f /\ f # "last_error"
    BY SlotOf
  <1>3. P[s] = var[t][f] /\ HeapOk(heap, P)
    BY <1>2 DEF PtrsOf, FInv
  <1>4. \A u \in Thread : <<u, "last_error">> # s
    BY <1>2
  <1> HIDE DEF P, Q, s
  <1>5. HeapOk(heap', Q)
    BY <1>1, <1>2, <1>3, FreeOk
  <1>6. ASSUME NEW u \in Thread, last_error[u] # Null
        PROVE  heap'[last_error[u]] = heap[last_error[u]]
    <2>1. <<u, "last_error">> \in Slots /\ P[<<u, "last_error">>] = last_error[u]
      BY SlotOf, ErrorSlot DEF P
    <2>2. last_error[u] \in DOMAIN heap /\ last_error[u] \notin Owned(heap, P[s])
      BY <1>2, <1>3, <1>4, <1>6, <2>1, PtrsDiffer
    <2> QED BY <1>3, <2>2 DEF Free
  <1> QED BY <1>1, <1>5, <1>6, KeepsErrors DEF Q

\* The handles and messages are single allocations, and freeing NULL does
\* nothing.
LEMMA TakeOneOk ==
    ASSUME FInv, NEW t \in Thread, NEW f \in Fields, f # "list",
           heap' = Free(heap, {var[t][f]}), var' = [var EXCEPT ![t][f] = Null],
           UNCHANGED <<last_error, initialized, last, archives>>
    PROVE  FInv'
  <1> DEFINE P == PtrsOf(last_error, var)
             s == <<t, f>>
  <1>1. s \in Slots /\ s[2] = f /\ P[s] = var[t][f] /\ HeapOk(heap, P) /\ Pointers(heap)
    BY SlotOf DEF PtrsOf, FInv, HeapOk
  <1>2. Free(heap, {var[t][f]}) = Free(heap, Owned(heap, var[t][f]))
    <2> HIDE DEF P, s
    <2>1. CASE P[s] = Null
      <3>1. DOMAIN heap \ {P[s]} = DOMAIN heap \ Owned(heap, P[s])
        BY <1>1, <2>1 DEF Pointers, Owned, Null
      <3> QED BY <1>1, <3>1 DEF Free
    <2>2. CASE P[s] # Null
      <3>1. Owned(heap, P[s]) = {P[s]}
        BY <1>1, <2>2, SlotTree, TreeIs
      <3> QED BY <1>1, <3>1
    <2> QED BY <2>1, <2>2
  <1>3. NoFailure(t) /\ ArchivesStep
    BY DEF NoFailure, ArchivesStep, FInv
  <1> HIDE DEF P, s
  <1> QED BY <1>2, <1>3, TakeOk

\* The heaps of aether_list: with the strings, with the array, and with the
\* list.
ListHeaps(h, strings, n, infos, g) ==
    LET paths == DOMAIN strings \ DOMAIN h
        entries == IF paths = {} THEN Null ELSE FreshPtr(strings)
    IN  /\ infos = IF paths = {} THEN strings
                   ELSE Alloc(strings, [kind |-> "infos", paths |-> paths])
        /\ g = Alloc(infos, [kind |-> "list", entries |-> entries, count |-> n])

\* The allocations of aether_list: the strings, the array unless there are
\* none, and the list.
LEMMA ListMade ==
    ASSUME NEW h, Pointers(h), NEW strings, NEW n \in Nat, NEW q, StringsAdded(h, q, n, strings),
           NEW infos, NEW g, ListHeaps(h, strings, n, infos, g)
    PROVE  /\ Pointers(g) /\ DOMAIN h \subseteq DOMAIN g
           /\ \A p \in DOMAIN h : g[p] = h[p]
           /\ TreeOk(g, "list", FreshPtr(infos))
           /\ Owned(g, FreshPtr(infos)) = DOMAIN g \ DOMAIN h
  <1> DEFINE r == FreshPtr(infos)
             e == FreshPtr(strings)
             paths == DOMAIN strings \ DOMAIN h
             entries == IF paths = {} THEN Null ELSE e
             ListBlock == [kind |-> "list", entries |-> entries, count |-> n]
             InfosBlock == [kind |-> "infos", paths |-> paths]
  <1>0. ListBlock.kind = "list" /\ ListBlock.entries = entries /\ ListBlock.count = n
        /\ InfosBlock.kind = "infos" /\ InfosBlock.paths = paths
    OBVIOUS
  <1>1. /\ Pointers(strings) /\ DOMAIN h \subseteq DOMAIN strings
        /\ \A p \in DOMAIN h : strings[p] = h[p]
        /\ \A p \in paths : strings[p].kind = "cstring"
        /\ Cardinality(paths) = n
    BY DEF StringsAdded
  <1>2. IsFiniteSet(paths) /\ paths \subseteq DOMAIN strings
    BY <1>1, FS_Subset DEF Pointers
  <1>3. paths = {} <=> n = 0
    BY <1>1, <1>2, FS_EmptySet
  <1>4. DOMAIN strings = DOMAIN h \cup paths /\ DOMAIN h \cap paths = {}
    BY <1>1
  <1>5. e # Null /\ e \notin DOMAIN strings
    BY <1>1, Fresh DEF Null
  <1>11. entries = IF paths = {} THEN Null ELSE e
    OBVIOUS
  <1>12. infos = IF paths = {} THEN strings ELSE Alloc(strings, InfosBlock)
    BY DEF ListHeaps
  <1>13. g = Alloc(infos, ListBlock)
    BY DEF ListHeaps
  <1> HIDE DEF e, InfosBlock, ListBlock, paths, entries
  <1>6. /\ Pointers(infos) /\ DOMAIN infos = DOMAIN strings \cup (IF paths = {} THEN {} ELSE {e})
        /\ \A p \in DOMAIN strings : infos[p] = strings[p]
        /\ paths # {} => infos[e] = InfosBlock
    <2>1. CASE paths = {}
      BY <1>1, <1>12, <2>1
    <2>2. CASE paths # {}
      <3>1. infos = Alloc(strings, InfosBlock)
        BY <1>12, <2>2
      <3>2. /\ Pointers(Alloc(strings, InfosBlock))
            /\ DOMAIN Alloc(strings, InfosBlock) = DOMAIN strings \cup {e}
            /\ Alloc(strings, InfosBlock)[e] = InfosBlock
            /\ \A p \in DOMAIN strings : Alloc(strings, InfosBlock)[p] = strings[p]
        <4> USE DEF e
        <4>1. Pointers(strings)
          BY <1>1
        <4> QED BY <4>1, AllocIs, ZenonT(60)
      <3> QED BY <2>2, <3>1, <3>2
    <2> QED BY <2>1, <2>2
  <1>7. /\ Pointers(g) /\ DOMAIN g = DOMAIN infos \cup {r} /\ r # Null /\ r \notin DOMAIN infos
        /\ g[r] = ListBlock /\ \A p \in DOMAIN infos : g[p] = infos[p]
    <2>1. /\ Pointers(Alloc(infos, ListBlock))
          /\ DOMAIN Alloc(infos, ListBlock) = DOMAIN infos \cup {r}
          /\ Alloc(infos, ListBlock)[r] = ListBlock
          /\ \A p \in DOMAIN infos : Alloc(infos, ListBlock)[p] = infos[p]
      <3> USE DEF r
      <3>1. Pointers(infos)
        BY <1>6
      <3> QED BY <3>1, AllocIs, ZenonT(60)
    <2>2. r # Null /\ r \notin DOMAIN infos
      BY <1>6, Fresh DEF Null
    <2> QED BY <1>13, <2>1, <2>2
  <1> HIDE DEF r
  <1>8. DOMAIN h \subseteq DOMAIN g /\ \A p \in DOMAIN h : g[p] = h[p]
    BY <1>1, <1>6, <1>7
  <1>9. CASE n = 0
    <2>1. paths = {} /\ entries = Null /\ DOMAIN g \ DOMAIN h = {r}
      BY <1>3, <1>4, <1>6, <1>7, <1>9, <1>11
    <2>2. TreeOk(g, "list", r)
      BY <1>0, <1>7, <1>9, <2>1 DEF TreeOk, ListTree
    <2>3. g[r].count = 0
      BY <1>0, <1>7, <1>9
    <2>4. Owned(g, r) = {r}
      BY <1>7, <2>2, <2>3, TreeIs
    <2> QED BY <1>7, <1>8, <2>1, <2>2, <2>4 DEF r
  <1>10. CASE n # 0
    <2>1. paths # {} /\ entries = e
      BY <1>3, <1>10, <1>11
    <2>2. /\ e \in DOMAIN g /\ g[e] = InfosBlock /\ e # r
          /\ \A c \in paths : c \in DOMAIN g /\ g[c] = strings[c] /\ c # r /\ c # e
      BY <1>2, <1>5, <1>6, <1>7, <2>1
    <2>3. InfosOk(g, r, e, n)
      BY <1>0, <1>1, <1>2, <2>2 DEF InfosOk
    <2>4. g[r].kind = "list" /\ g[r].entries = e /\ g[r].count = n
      BY <1>0, <1>7, <2>1
    <2>5. TreeOk(g, "list", r)
      BY <1>7, <1>10, <2>3, <2>4 DEF TreeOk, ListTree
    <2>6. Owned(g, r) = {r, e} \cup g[e].paths
      BY <1>7, <1>10, <2>4, <2>5, TreeIs
    <2>7. Owned(g, r) = {r, e} \cup paths
      BY <1>0, <2>2, <2>6
    <2>8. DOMAIN g \ DOMAIN h = {r, e} \cup paths
      <3>1. DOMAIN infos = DOMAIN strings \cup {e}
        BY <1>6, <2>1
      <3>2. r \notin DOMAIN h /\ e \notin DOMAIN h
        BY <1>1, <1>5, <1>7, <3>1
      <3> QED BY <1>4, <1>7, <3>1, <3>2
    <2> QED BY <1>7, <1>8, <2>5, <2>7, <2>8 DEF r
  <1> QED BY <1>9, <1>10

------------------------------------------------------------------------------
(* One lemma for each call. *)

\* A call refused or failing without having written.
LEMMA FailCleanOk == ASSUME FInv, NEW t \in Thread, NEW reason, FailClean(t, reason) PROVE FInv'
  <1>1. ArchivesStep
    BY DEF FailClean, ArchivesStep, FInv
  <1>2. set_last_error(t, reason) /\ Returns(t, reason, FALSE) /\ UNCHANGED var
    BY DEF FailClean, Fail
  <1> QED BY <1>1, <1>2, FailOk

\* A call that fails for a reason that is no refusal may have written.
LEMMA FailLateOk ==
    ASSUME FInv, NEW t \in Thread, NEW reason, NEW wrote, Fail(t, reason, wrote),
           reason \notin Refusals, ArchivesStep
    PROVE  FInv'
  BY FailOk DEF Fail

\* A call that only reads and succeeds.
LEMMA ReadOk ==
    ASSUME FInv, NEW t \in Thread, UNCHANGED <<heap, var, archives>>, Succeed(t)
    PROVE  FInv'
  <1>1. ArchivesStep
    BY DEF ArchivesStep, FInv
  <1>2. NoFailure(t) /\ UNCHANGED last_error
    BY DEF NoFailure, Succeed
  <1> QED BY <1>1, <1>2, QuietOk

\* A handle is created, or the call fails.
LEMMA CreatesOk ==
    ASSUME FInv, NEW t \in Thread, NEW f \in Fields, f # "list", NEW ok,
           NEW value, value.kind \notin {"list", "infos"}, Creates(t, f, ok, value)
    PROVE  FInv'
  <1>1. ArchivesStep
    BY DEF Creates, ArchivesStep, FInv
  <1>2. var[t][f] = Null
    BY DEF Creates
  <1>3. CASE ok
    <2>1. /\ heap' = Alloc(heap, value) /\ var' = [var EXCEPT ![t][f] = FreshPtr(heap)]
          /\ UNCHANGED last_error /\ Returns(t, "OK", FALSE)
      BY <1>3 DEF Creates
    <2>2. NoFailure(t)
      BY <2>1 DEF NoFailure
    <2> QED BY <1>1, <1>2, <2>1, <2>2, GiveOneOk
  <1>4. CASE ~ok
    <2>1. set_last_error(t, "NULL") /\ Returns(t, "NULL", FALSE) /\ UNCHANGED var
      BY <1>4 DEF Creates
    <2> QED BY <1>1, <2>1, FailOk
  <1> QED BY <1>3, <1>4

\* The three ways to make a handle.
LEMMA NewHandleOk ==
    ASSUME FInv, NEW t \in Thread, NEW arg,
           \/ compressor_new(t, arg) \/ decompressor_new(t, arg) \/ decompressor_auto(t, arg)
    PROVE  FInv'
  <1>1. \A f : f \in {"compressor", "decompressor"} => f \in Fields /\ f # "list"
    BY DEF Fields
  <1>2. \A k, id : k \in {"compressor", "decompressor"} =>
           [kind |-> k, predictor |-> id].kind \notin {"list", "infos"}
    OBVIOUS
  <1>3. CASE compressor_new(t, arg)
    <2>1. Creates(t, "compressor", validated_predictor_id(arg) /\ make_factory(arg),
                  [kind |-> "compressor", predictor |-> arg])
      BY <1>3 DEF compressor_new
    <2> QED BY <1>1, <1>2, <2>1, CreatesOk
  <1>4. CASE decompressor_new(t, arg)
    <2>1. Creates(t, "decompressor", validated_predictor_id(arg) /\ make_factory(arg),
                  [kind |-> "decompressor", predictor |-> arg])
      BY <1>4 DEF decompressor_new
    <2> QED BY <1>1, <1>2, <2>1, CreatesOk
  <1>5. CASE decompressor_auto(t, arg)
    <2>1. PICK id : Creates(t, "decompressor", make_factory(id),
                            [kind |-> "decompressor", predictor |-> id])
      BY <1>5 DEF decompressor_auto
    <2> QED BY <1>1, <1>2, <2>1, CreatesOk
  <1> QED BY <1>3, <1>4, <1>5

\* The handles and the message are freed.
LEMMA FreesOk ==
    ASSUME FInv, NEW t \in Thread,
           compressor_free(t) \/ decompressor_free(t) \/ aether_error_free(t)
    PROVE  FInv'
  <1>1. \A f : f \in {"compressor", "decompressor", "message"} => f \in Fields /\ f # "list"
    BY DEF Fields
  <1>2. PICK f \in {"compressor", "decompressor", "message"} :
           /\ heap' = Free(heap, {var[t][f]}) /\ var' = [var EXCEPT ![t][f] = Null]
           /\ UNCHANGED <<last_error, initialized, last, archives>>
    BY DEF compressor_free, decompressor_free, aether_error_free, FreeHandle
  <1> QED BY <1>1, <1>2, TakeOneOk

\* A list is freed with its array and its strings.
LEMMA FileListFreeOk == ASSUME FInv, NEW t \in Thread, aether_file_list_free(t) PROVE FInv'
  <1>1. NoFailure(t) /\ ArchivesStep /\ UNCHANGED last_error
    BY DEF aether_file_list_free, NoFailure, ArchivesStep, FInv
  <1>2. "list" \in Fields
    BY DEF Fields
  <1>3. var' = [var EXCEPT ![t]["list"] = Null]
    BY DEF aether_file_list_free
  <1>4. CASE var[t]["list"] = Null
    <2>1. UNCHANGED heap
      BY <1>4 DEF aether_file_list_free
    <2>2. /\ \A u \in Slots : u # <<t, "list">> =>
                PtrsOf(last_error, var')[u] = PtrsOf(last_error, var)[u]
          /\ PtrsOf(last_error, var')[<<t, "list">>] = Null
          /\ DOMAIN var' = Thread /\ \A u \in Thread : DOMAIN var'[u] = Fields
      BY <1>2, <1>3, VarSlot
    <2>3. PtrsOf(last_error, var)[<<t, "list">>] = Null
      BY <1>2, <1>4, SlotOf DEF PtrsOf
    <2>4. PtrsOf(last_error, var') = PtrsOf(last_error, var)
      <3>1. \A u \in Slots : PtrsOf(last_error, var')[u] = PtrsOf(last_error, var)[u]
        BY <2>2, <2>3
      <3> QED BY <3>1 DEF PtrsOf
    <2>5. HeapOk(heap', PtrsOf(last_error, var'))
      BY <2>1, <2>4 DEF FInv
    <2> QED BY <1>1, <2>1, <2>2, <2>5, KeepsErrors
  <1>5. CASE var[t]["list"] # Null
    <2>1. heap' = Free(heap, OwnedBy(var[t]["list"]))
      BY <1>5 DEF aether_file_list_free
    <2>2. OwnedBy(var[t]["list"]) = Owned(heap, var[t]["list"])
      BY <1>5 DEF OwnedBy, Owned, Reach
    <2>3. heap' = Free(heap, Owned(heap, var[t]["list"]))
      BY <2>1, <2>2
    <2> QED BY <1>1, <1>2, <1>3, <2>3, TakeOk
  <1> QED BY <1>4, <1>5

\* The least element of a set of natural numbers is in it.
LEMMA MinIn == ASSUME NEW S, S \subseteq Nat, S # {} PROVE Min(S) \in S
  <1>1. PICK m \in S : \A k \in S : m <= k
    BY OverEntries!LeastNat
  <1> QED BY <1>1 DEF Min

\* Calls whose path arguments are good have a good one in first place.
LEMMA FirstGood ==
    ASSUME NEW args, NEW n \in Nat, DOMAIN args = 1 .. n, n >= 1, FirstBad(args) = "OK"
    PROVE  args[1] \notin BadPath
  <1> DEFINE bad == {i \in DOMAIN args : args[i] \in BadPath}
  <1> SUFFICES ASSUME bad # {} PROVE FALSE
    OBVIOUS
  <1>1. Min(bad) \in bad
    <2>1. bad \subseteq Nat
      OBVIOUS
    <2> HIDE DEF bad
    <2> QED BY <2>1, MinIn
  <1>2. FirstBad(args) = bounded_cstr(args[Min(bad)])
    BY DEF FirstBad
  <1>3. args[Min(bad)] \in BadPath
    BY <1>1
  <1> HIDE DEF bad
  <1> QED BY <1>2, <1>3 DEF BadPath, bounded_cstr

\* The archive a call reads is one of those on disk.
LEMMA ReadsOne ==
    ASSUME FInv, NEW arg \in ArchiveArg, NEW args, NEW n \in Nat, DOMAIN args = 1 .. n, n >= 1,
           args[1] = arg, FirstBad(args) = "OK"
    PROVE  ArchiveOk(archives[arg])
  <1>1. arg \in ArchivePath
    BY FirstGood DEF ArchiveArg
  <1> QED BY <1>1 DEF FInv

\* Arguments of the calls that read an archive.
LEMMA Arguments ==
    ASSUME NEW x, NEW y, NEW z
    PROVE  /\ DOMAIN (<<x>> \o << >>) = 1 .. 1 /\ (<<x>> \o << >>)[1] = x
           /\ DOMAIN (<<x>> \o <<y>>) = 1 .. 2 /\ (<<x>> \o <<y>>)[1] = x
           /\ DOMAIN (<<x>> \o <<y, z>>) = 1 .. 3 /\ (<<x>> \o <<y, z>>)[1] = x
  OBVIOUS

\* Limits on threads are set on a handle.
LEMMA SetMaxThreadsOk == ASSUME FInv, NEW t \in Thread, set_max_threads(t) PROVE FInv'
  <1>1. CASE var[t].compressor = Null
    BY <1>1, FailCleanOk DEF set_max_threads
  <1>2. CASE var[t].compressor # Null
    BY <1>2, ReadOk DEF set_max_threads
  <1> QED BY <1>1, <1>2

\* A compression leaves the archive it wrote, a torn one, or what was there.
LEMMA CompressOk ==
    ASSUME FInv, NEW t \in Thread, NEW base, NEW out, NEW count \in Nat, NEW name,
           aether_compress(t, base, out, count, name)
    PROVE  FInv'
  <1> DEFINE made == [kind |-> "archive", decodes |-> TRUE, entries |-> [i \in 1 .. count |-> "file"],
                      predictor |-> heap[var[t].compressor].predictor]
  <1>1. ArchiveOk(made) /\ ArchiveOk(TornArchive)
    <2>1. \A i \in 1 .. count : "file" \in EntryKinds
      BY DEF EntryKinds
    <2>2. [i \in 1 .. count |-> "file"] \in Seq(EntryKinds)
      BY <2>1
    <2>3. made.entries = [i \in 1 .. count |-> "file"]
      OBVIOUS
    <2> HIDE DEF made
    <2> QED BY <2>2, <2>3 DEF ArchiveOk, TornArchive, Lists
  <1> HIDE DEF made
  <1>2. ASSUME NEW x, ArchiveOk(x), archives' = [archives EXCEPT ![out] = x] PROVE ArchivesStep
    BY <1>2 DEF ArchivesStep, FInv
  <1>3. (\E reason : FailClean(t, reason)) \/ CoreCompress(t, out, count)
    BY DEF aether_compress
  <1>4. CASE \E reason : FailClean(t, reason)
    BY <1>4, FailCleanOk
  <1>5. CASE CoreCompress(t, out, count)
    <2>1. \/ FailClean(t, "IO")
          \/ archives' = [archives EXCEPT ![out] = TornArchive] /\ Fail(t, "COMPRESSION", TRUE)
          \/ /\ \E written \in {made, TornArchive} : archives' = [archives EXCEPT ![out] = written]
             /\ UNCHANGED <<heap, var>> /\ Succeed(t)
      BY <1>5 DEF CoreCompress, made
    <2>2. CASE FailClean(t, "IO")
      BY <2>2, FailCleanOk
    <2>3. CASE archives' = [archives EXCEPT ![out] = TornArchive] /\ Fail(t, "COMPRESSION", TRUE)
      <3>1. "COMPRESSION" \notin Refusals
        BY DEF Refusals
      <3>2. ArchivesStep
        BY <1>1, <1>2, <2>3
      <3> QED BY <2>3, <3>1, <3>2, FailLateOk
    <2>4. CASE /\ \E written \in {made, TornArchive} : archives' = [archives EXCEPT ![out] = written]
               /\ UNCHANGED <<heap, var>> /\ Succeed(t)
      <3>1. ArchivesStep
        BY <1>1, <1>2, <2>4
      <3>2. NoFailure(t) /\ UNCHANGED last_error
        BY <2>4 DEF NoFailure, Succeed
      <3> QED BY <2>4, <3>1, <3>2, QuietOk
    <2> QED BY <2>1, <2>2, <2>3, <2>4
  <1> QED BY <1>3, <1>4, <1>5

\* Corruption is a result.
LEMMA FfiVerifyOk ==
    ASSUME FInv, NEW t \in Thread, NEW arg, aether_verify(t, arg)
    PROVE  FInv'
  <1>1. \/ \E reason : FailClean(t, reason)
        \/ UNCHANGED <<heap, var, archives>> /\ Succeed(t)
    BY DEF aether_verify, ReadsArchive
  <1> QED BY <1>1, FailCleanOk, ReadOk

\* One file is extracted: the output may have been written before the archive
\* turned out to be bad.
LEMMA ExtractFileOk ==
    ASSUME FInv, NEW t \in Thread, NEW arg, NEW name, NEW outdir,
           aether_extract_file(t, arg, name, outdir)
    PROVE  FInv'
  <1>1. \/ \E reason : FailClean(t, reason)
        \/ UNCHANGED archives /\ Fail(t, "ARCHIVE", TRUE)
        \/ UNCHANGED <<heap, var, archives>> /\ Succeed(t)
    BY DEF aether_extract_file, ReadsArchive
  <1>2. CASE UNCHANGED archives /\ Fail(t, "ARCHIVE", TRUE)
    <2>1. "ARCHIVE" \notin Refusals /\ ArchivesStep
      BY <1>2 DEF Refusals, ArchivesStep, FInv
    <2> QED BY <1>2, <2>1, FailLateOk
  <1> QED BY <1>1, <1>2, FailCleanOk, ReadOk

\* All files are extracted: none of the entries left when writing starts is
\* refused as a traversal.
LEMMA FfiExtractAllOk ==
    ASSUME FInv, NEW t \in Thread, NEW arg \in ArchiveArg, NEW outdir,
           aether_extract_all(t, arg, outdir)
    PROVE  FInv'
  <1> DEFINE a == archives[arg]
             refused == {i \in DOMAIN a.entries : a.entries[i] # "file"}
  <1>1. \/ \E reason : FailClean(t, reason)
        \/ /\ FirstBad(<<arg>> \o <<outdir>>) = "OK"
           /\ Lists(a) /\ prevalidate(a) /\ CoreExtract(t, a)
    BY DEF aether_extract_all, ReadsArchive
  <1>2. CASE FirstBad(<<arg>> \o <<outdir>>) = "OK" /\ Lists(a) /\ prevalidate(a) /\ CoreExtract(t, a)
    <2>1. a.entries \in Seq(EntryKinds)
      <3> DEFINE args == <<arg>> \o <<outdir>>
      <3>1. DOMAIN args = 1 .. 2 /\ args[1] = arg /\ FirstBad(args) = "OK"
        BY <1>2, Arguments
      <3>2. ArchiveOk(archives[arg])
        <4> HIDE DEF args
        <4>1. 2 \in Nat /\ 2 >= 1
          OBVIOUS
        <4> QED BY <3>1, <4>1, ReadsOne
      <3> QED BY <1>2, <3>2 DEF ArchiveOk
    <2>2. \/ FailClean(t, "ARCHIVE")
          \/ UNCHANGED <<heap, var, archives>> /\ Succeed(t)
          \/ /\ refused # {} /\ UNCHANGED archives
             /\ Fail(t, IF a.entries[Min(refused)] = "escaping" THEN "PATH_TRAVERSAL"
                        ELSE "ARCHIVE", Min(refused) - 1 > 0)
          \/ UNCHANGED archives /\ \E n : Fail(t, "ARCHIVE", n > 0)
      BY <1>2 DEF CoreExtract
    <2>3. refused # {} => a.entries[Min(refused)] # "escaping"
      <3> SUFFICES ASSUME refused # {} PROVE a.entries[Min(refused)] # "escaping"
        OBVIOUS
      <3>1. refused \subseteq DOMAIN a.entries /\ refused \subseteq Nat
        BY <2>1
      <3>2. \A i \in DOMAIN a.entries : a.entries[i] # "escaping"
        BY <1>2 DEF prevalidate, validate_no_path_traversal
      <3> HIDE DEF refused, a
      <3>3. Min(refused) \in refused
        BY <3>1, MinIn
      <3> QED BY <3>1, <3>2, <3>3
    <2> HIDE DEF refused, a
    <2>4. \/ FailClean(t, "ARCHIVE")
          \/ UNCHANGED <<heap, var, archives>> /\ Succeed(t)
          \/ UNCHANGED archives /\ \E wrote : Fail(t, "ARCHIVE", wrote)
      BY <2>2, <2>3
    <2>5. CASE UNCHANGED archives /\ \E wrote : Fail(t, "ARCHIVE", wrote)
      <3>1. "ARCHIVE" \notin Refusals /\ ArchivesStep
        BY <2>5 DEF Refusals, ArchivesStep, FInv
      <3> QED BY <2>5, <3>1, FailLateOk
    <2> QED BY <2>4, <2>5, FailCleanOk, ReadOk
  <1> QED BY <1>1, <1>2, FailCleanOk

\* The entries of an archive are listed.
LEMMA FfiListOk == ASSUME FInv, NEW t \in Thread, NEW arg \in ArchiveArg, aether_list(t, arg) PROVE FInv'
  <1> DEFINE a == archives[arg]
             strings == FoldLeft(LAMBDA h, path : Alloc(h, CStr(path)), heap, a.entries)
             paths == DOMAIN strings \ DOMAIN heap
             infos == IF paths = {} THEN strings
                      ELSE Alloc(strings, [kind |-> "infos", paths |-> paths])
             entries == IF paths = {} THEN Null ELSE FreshPtr(strings)
  <1>1. \/ \E reason : FailClean(t, reason)
        \/ /\ FirstBad(<<arg>> \o << >>) = "OK" /\ Lists(a)
           /\ heap' = Alloc(infos, [kind |-> "list", entries |-> entries, count |-> Len(a.entries)])
           /\ var' = [var EXCEPT ![t].list = FreshPtr(infos)]
           /\ UNCHANGED archives
           /\ Succeed(t)
    BY DEF aether_list, ReadsArchive
  <1>2. var[t]["list"] = Null
    BY DEF aether_list
  <1>3. CASE /\ FirstBad(<<arg>> \o << >>) = "OK" /\ Lists(a)
             /\ heap' = Alloc(infos, [kind |-> "list", entries |-> entries, count |-> Len(a.entries)])
             /\ var' = [var EXCEPT ![t].list = FreshPtr(infos)]
             /\ UNCHANGED archives
             /\ Succeed(t)
    <2>1. a.entries \in Seq(EntryKinds)
      <3> DEFINE args == <<arg>> \o << >>
      <3>1. DOMAIN args = 1 .. 1 /\ args[1] = arg /\ FirstBad(args) = "OK"
        BY <1>3, Arguments
      <3>2. ArchiveOk(archives[arg])
        <4> HIDE DEF args
        <4>1. 1 \in Nat /\ 1 >= 1
          OBVIOUS
        <4> QED BY <3>1, <4>1, ReadsOne
      <3> QED BY <1>3, <3>2 DEF ArchiveOk
    <2>2. Pointers(heap)
      BY DEF FInv, HeapOk
    <2>3. StringsAdded(heap, a.entries, Len(a.entries), strings)
      BY <2>1, <2>2, StringsOk
    <2>4. ListHeaps(heap, strings, Len(a.entries), infos, heap')
      <3> HIDE DEF strings, a
      <3> QED BY <1>3 DEF ListHeaps
    <2>5. Len(a.entries) \in Nat
      BY <2>1
    <2>6. var' = [var EXCEPT ![t]["list"] = FreshPtr(infos)]
      BY <1>3
    <2> DEFINE q == a.entries
               n == Len(q)
    <2> HIDE DEF strings, paths, infos, entries, a, n, q
    <2>7. n \in Nat /\ StringsAdded(heap, q, n, strings) /\ ListHeaps(heap, strings, n, infos, heap')
      BY <2>3, <2>4, <2>5 DEF q, n
    <2>8. /\ Pointers(heap') /\ DOMAIN heap \subseteq DOMAIN heap'
          /\ \A p \in DOMAIN heap : heap'[p] = heap[p]
          /\ TreeOk(heap', "list", FreshPtr(infos))
          /\ Owned(heap', FreshPtr(infos)) = DOMAIN heap' \ DOMAIN heap
      BY <2>2, <2>7, ListMade
    <2>9. NoFailure(t) /\ ArchivesStep /\ UNCHANGED last_error /\ "list" \in Fields
      BY <1>3 DEF NoFailure, ArchivesStep, FInv, Succeed, Fields
    <2> QED BY <1>2, <2>6, <2>8, <2>9, GiveOk
  <1> QED BY <1>1, <1>3, FailCleanOk

\* The caller gets its own copy of the message.
LEMMA LastErrorOk == ASSUME FInv, NEW t \in Thread, aether_last_error(t) PROVE FInv'
  <1>1. NoFailure(t) /\ ArchivesStep /\ UNCHANGED last_error /\ "message" \in Fields
    BY DEF aether_last_error, NoFailure, ArchivesStep, FInv, Fields
  <1>2. CASE last_error[t] = Null
    BY <1>1, <1>2, QuietOk DEF aether_last_error, owned_last_error
  <1>3. CASE last_error[t] # Null
    <2>1. /\ heap' = Alloc(heap, heap[last_error[t]])
          /\ var' = [var EXCEPT ![t]["message"] = FreshPtr(heap)]
          /\ var[t]["message"] = Null
      BY <1>3 DEF aether_last_error, owned_last_error
    <2>2. heap[last_error[t]].kind \notin {"list", "infos"}
      <3> DEFINE P == PtrsOf(last_error, var)
      <3>1. HeapOk(heap, P) /\ <<t, "last_error">> \in Slots /\ P[<<t, "last_error">>] = last_error[t]
        BY SlotOf, ErrorSlot DEF FInv
      <3> HIDE DEF P
      <3>2. TreeOk(heap, <<t, "last_error">>[2], last_error[t])
        BY <1>3, <3>1, SlotTree
      <3> QED BY <3>2 DEF TreeOk
    <2> QED BY <1>1, <2>1, <2>2, GiveOneOk
  <1> QED BY <1>2, <1>3

\* Every call preserves the invariant.
LEMMA FfiNextOk == ASSUME FInv, FfiNext PROVE FInv'
  <1>1. PICK t \in Thread :
           \/ \E arg : compressor_new(t, arg) \/ decompressor_new(t, arg) \/ decompressor_auto(t, arg)
           \/ compressor_free(t) \/ decompressor_free(t) \/ aether_error_free(t)
           \/ aether_file_list_free(t)
           \/ set_max_threads(t)
           \/ aether_last_error(t)
           \/ \E arg \in ArchiveArg :
                 \/ aether_verify(t, arg)
                 \/ aether_list(t, arg)
                 \/ \E base, name : \E n \in Nat : aether_compress(t, base, arg, n, name)
                 \/ \E outdir : aether_extract_all(t, arg, outdir)
                 \/ \E outdir, name : aether_extract_file(t, arg, name, outdir)
    <2>1. \A n : n \in 0 .. MaxFfiFiles + 1 => n \in Nat
      BY CFfiAssumption
    <2> QED BY <2>1 DEF FfiNext
  <1>2. CASE \E arg \in ArchiveArg :
                \/ aether_verify(t, arg)
                \/ aether_list(t, arg)
                \/ \E base, name : \E n \in Nat : aether_compress(t, base, arg, n, name)
                \/ \E outdir : aether_extract_all(t, arg, outdir)
                \/ \E outdir, name : aether_extract_file(t, arg, name, outdir)
    BY <1>2, FfiVerifyOk, FfiListOk, CompressOk, FfiExtractAllOk, ExtractFileOk
  <1> QED BY <1>1, <1>2, NewHandleOk, FreesOk, FileListFreeOk, SetMaxThreadsOk, LastErrorOk

\* Before the first call there is nothing on the heap.
LEMMA FfiInitOk == ASSUME FfiInit PROVE FInv
  <1> DEFINE P == PtrsOf(last_error, var)
  <1>1. DOMAIN heap = {}
    BY DEF FfiInit
  <1>2. Pointers(heap)
    BY <1>1, FS_EmptySet DEF Pointers
  <1>3. DOMAIN var = Thread /\ \A t \in Thread : DOMAIN var[t] = Fields
    BY DEF FfiInit, Fields
  <1>4. \A s \in Slots : P[s] = Null
    <2>1. \A s \in Slots : /\ s[1] \in Thread
                           /\ s[2] # "last_error" => s[2] \in Fields
      BY DEF Slots, Fields
    <2>2. \A t \in Thread : last_error[t] = Null /\ \A f \in Fields : var[t][f] = Null
      BY DEF FfiInit, Fields
    <2> QED BY <2>1, <2>2 DEF PtrsOf
  <1>5. DOMAIN P = Slots
    BY DEF PtrsOf
  <1> HIDE DEF P
  <1>6. HeapOk(heap, P)
    BY <1>1, <1>2, <1>4, <1>5 DEF HeapOk, Owned
  <1>7. DOMAIN archives = ArchivePath /\ \A a \in ArchivePath : ArchiveOk(archives[a])
    BY CFfiAssumption DEF FfiInit, ArchiveOk, Lists
  <1>8. DOMAIN last_error = Thread /\ DOMAIN last = Thread
        /\ \A t \in Thread : Reported(heap, last_error[t], last[t])
    BY DEF FfiInit, Reported
  <1> QED BY <1>3, <1>6, <1>7, <1>8 DEF P, FInv

\* The inductive invariant of the C interface: every allocation is in the
\* tree of exactly one slot, trees have the shape their slot asks for, and
\* each last error says what its thread's last call did.
THEOREM FfiInvariance == FfiSpec => []FInv
  <1>1. FfiInit => FInv
    BY FfiInitOk
  <1>2. FInv /\ [FfiNext]_ffiVars => FInv'
    <2>1. FInv /\ UNCHANGED ffiVars => FInv'
      BY DEF FInv, ffiVars
    <2> QED BY <2>1, FfiNextOk
  <1> QED BY <1>1, <1>2, PTL DEF FfiSpec

\* The message of a failed call is found by its thread whatever the others
\* do, and a call refused for its arguments, or for the path of an entry the
\* library validates itself, has written nothing.
THEOREM FailuresAreReported == FfiSpec => []FailuresReported
  <1>1. ASSUME FInv PROVE FailuresReported
    <2> SUFFICES ASSUME NEW t \in Thread, last[t].reason # "OK"
                 PROVE  /\ last_error[t] \in DOMAIN heap /\ heap[last_error[t]] = CStr(last[t].reason)
                        /\ last[t].reason \in Refusals => ~last[t].wrote
      BY DEF FailuresReported
    <2>1. /\ last_error[t] # Null /\ heap[last_error[t]] = CStr(last[t].reason)
          /\ last[t].reason \in Refusals => ~last[t].wrote
      BY <1>1 DEF FInv, Reported
    <2> DEFINE P == PtrsOf(last_error, var)
    <2>2. HeapOk(heap, P) /\ <<t, "last_error">> \in Slots /\ P[<<t, "last_error">>] = last_error[t]
      BY <1>1, SlotOf, ErrorSlot DEF FInv
    <2> HIDE DEF P
    <2>3. TreeOk(heap, <<t, "last_error">>[2], last_error[t])
      BY <2>1, <2>2, SlotTree
    <2> QED BY <2>1, <2>3 DEF TreeOk
  <1> QED BY <1>1, FfiInvariance, PTL

\* In a tree, the root has no parent and everything else has exactly one.
LEMMA TreeParents ==
    ASSUME NEW h, NEW field, NEW r, Pointers(h), TreeOk(h, field, r)
    PROVE  /\ \A q \in Owned(h, r) : Children(h[q]) \subseteq Owned(h, r) /\ r \notin Children(h[q])
           /\ \A p \in Owned(h, r) : p # r =>
                 \E q \in Owned(h, r) : \A z \in Owned(h, r) : p \in Children(h[z]) <=> z = q
  <1>1. CASE Owned(h, r) = {r} /\ Children(h[r]) = {}
    BY <1>1
  <1>2. CASE ~(Owned(h, r) = {r} /\ Children(h[r]) = {})
    <2> DEFINE e == h[r].entries
               S == h[e].paths
    <2>1. /\ InfosOk(h, r, e, h[r].count)
          /\ Children(h[r]) = {e} /\ Children(h[e]) = S
          /\ \A c \in S : Children(h[c]) = {}
          /\ Owned(h, r) = {r, e} \cup S
      BY <1>2, TreeIs
    <2>2. e # r /\ r \notin S /\ e \notin S
      BY <2>1 DEF InfosOk
    <2> HIDE DEF e, S
    <2>3. \A q \in Owned(h, r) : Children(h[q]) \subseteq Owned(h, r) /\ r \notin Children(h[q])
      BY <2>1, <2>2
    <2>4. ASSUME NEW p \in Owned(h, r), p # r
          PROVE  \E q \in Owned(h, r) : \A z \in Owned(h, r) : p \in Children(h[z]) <=> z = q
      <3>1. CASE p = e
        <4>1. \A z \in Owned(h, r) : p \in Children(h[z]) <=> z = r
          BY <2>1, <2>2, <3>1
        <4> QED BY <2>1, <4>1
      <3>2. CASE p \in S
        <4>1. \A z \in Owned(h, r) : p \in Children(h[z]) <=> z = e
          BY <2>1, <2>2, <3>2
        <4> QED BY <2>1, <4>1
      <3> QED BY <2>1, <2>4, <3>1, <3>2
    <2> QED BY <2>3, <2>4
  <1> QED BY <1>1, <1>2

\* The slots that hold p, and the allocations that lead to it.
Holders(P, p) == {s \in Slots : P[s] = p}
Parents(h, p) == {q \in DOMAIN h : p \in Children(h[q])}

\* An allocation has one owner: a slot or another allocation.
LEMMA OneOwner ==
    ASSUME NEW h, NEW P, HeapOk(h, P), NEW p \in DOMAIN h
    PROVE  /\ Children(h[p]) \subseteq DOMAIN h
           /\ \/ (\E s : Holders(P, p) = {s}) /\ Parents(h, p) = {}
              \/ Holders(P, p) = {} /\ \E z : Parents(h, p) = {z}
  <1>1. PICK s \in Slots : p \in Owned(h, P[s])
    BY DEF HeapOk
  <1>2. P[s] # Null /\ Pointers(h)
    BY <1>1 DEF Owned, HeapOk
  <1> DEFINE r == P[s]
             O == Owned(h, r)
  <1>3. TreeOk(h, s[2], r) /\ O \subseteq DOMAIN h /\ r \in O
    BY <1>2, SlotTree
  <1>4. /\ \A q \in O : Children(h[q]) \subseteq O /\ r \notin Children(h[q])
        /\ \A x \in O : x # r => \E q \in O : \A z \in O : x \in Children(h[z]) <=> z = q
    BY <1>2, <1>3, TreeParents
  <1>5. \A u \in Slots : u # s => O \cap Owned(h, P[u]) = {}
    BY DEF HeapOk
  <1>6. \A q \in DOMAIN h : p \in Children(h[q]) => q \in O
    <2> SUFFICES ASSUME NEW q \in DOMAIN h, p \in Children(h[q]) PROVE q \in O
      OBVIOUS
    <2>1. PICK u \in Slots : q \in Owned(h, P[u])
      BY DEF HeapOk
    <2>2. P[u] # Null
      BY <2>1 DEF Owned
    <2>3. TreeOk(h, u[2], P[u])
      BY <2>2, SlotTree
    <2>4. Children(h[q]) \subseteq Owned(h, P[u])
      BY <1>2, <2>1, <2>3, TreeParents
    <2>5. u = s
      BY <1>1, <1>5, <2>4
    <2> QED BY <2>1, <2>5
  <1>7. \A u \in Slots : P[u] = p => u = s
    <2> SUFFICES ASSUME NEW u \in Slots, P[u] = p PROVE u = s
      OBVIOUS
    <2>1. p # Null
      BY <1>2 DEF Pointers, Null
    <2>2. p \in Owned(h, P[u])
      BY <2>1, SlotTree
    <2> QED BY <1>1, <1>5, <2>2
  <1>8. p \in O
    BY <1>1
  <1>9. r = P[s]
    OBVIOUS
  <1> HIDE DEF O, r
  <1>10. Children(h[p]) \subseteq DOMAIN h
    BY <1>3, <1>4, <1>8
  <1>11. CASE p = r
    <2>1. {u \in Slots : P[u] = p} = {s}
      BY <1>7, <1>9, <1>11
    <2>2. {q \in DOMAIN h : p \in Children(h[q])} = {}
      BY <1>4, <1>6, <1>11
    <2> QED BY <1>10, <2>1, <2>2 DEF Holders, Parents
  <1>12. CASE p # r
    <2>1. {u \in Slots : P[u] = p} = {}
      BY <1>7, <1>9, <1>12
    <2>2. PICK z \in O : \A q \in O : p \in Children(h[q]) <=> q = z
      BY <1>4, <1>8, <1>12
    <2>3. {q \in DOMAIN h : p \in Children(h[q])} = {z}
      BY <1>3, <1>6, <2>2
    <2> QED BY <1>10, <2>1, <2>3 DEF Holders, Parents
  <1> QED BY <1>11, <1>12

\* The size of a list with its array and strings.
LEMMA ListSize ==
    ASSUME NEW h, NEW r, Pointers(h), TreeOk(h, "list", r)
    PROVE  Cardinality(Reach(h, r)) = h[r].count + (IF h[r].count = 0 THEN 1 ELSE 2)
  <1>1. Reach(h, r) = Owned(h, r)
    BY TreeIs DEF Owned
  <1>2. CASE h[r].count = 0
    <2>1. Reach(h, r) = {r}
      BY <1>1, <1>2, TreeIs
    <2>2. Cardinality({r}) = 1
      BY FS_Singleton
    <2> QED BY <1>2, <2>1, <2>2
  <1>3. CASE h[r].count # 0
    <2> DEFINE e == h[r].entries
               S == h[e].paths
               n == h[r].count
    <2>1. Reach(h, r) = {r, e} \cup S /\ InfosOk(h, r, e, n)
      BY <1>1, <1>3, TreeIs
    <2>2. e # r /\ IsFiniteSet(S) /\ Cardinality(S) = n /\ r \notin S /\ e \notin S
      BY <2>1 DEF InfosOk
    <2>3. n \in Nat
      BY DEF TreeOk, ListTree
    <2> HIDE DEF e, S, n
    <2>4. IsFiniteSet(S \cup {e}) /\ Cardinality(S \cup {e}) = n + 1
      BY <2>2, FS_AddElement
    <2>5. Cardinality((S \cup {e}) \cup {r}) = n + 1 + 1
      <3>1. r \notin S \cup {e}
        BY <2>2
      <3> QED BY <2>4, <3>1, FS_AddElement
    <2>6. Reach(h, r) = (S \cup {e}) \cup {r}
      BY <2>1
    <2>7. Cardinality(Reach(h, r)) = n + 2
      BY <2>3, <2>5, <2>6
    <2> QED BY <1>3, <2>7 DEF n
  <1> QED BY <1>2, <1>3

\* Nothing leaks, nothing dangles and nothing has two owners, through any
\* calls, failures and frees of any threads; a list's count is right.
THEOREM HeapIsExact == FfiSpec => []HeapExact
  <1>1. ASSUME FInv PROVE HeapExact
    <2> DEFINE P == PtrsOf(last_error, var)
    <2>1. HeapOk(heap, P) /\ Pointers(heap)
      BY <1>1 DEF FInv, HeapOk
    <2>2. \A s \in Slots : PtrIn(s) = P[s]
      BY DEF PtrIn, PtrsOf
    <2>3. \A t \in Thread : <<t, "list">> \in Slots /\ P[<<t, "list">>] = var[t].list
      BY DEF Slots, PtrsOf
    <2> HIDE DEF P
    <2>4. \A s \in Slots : PtrIn(s) \in DOMAIN heap \cup {Null}
      BY <2>1, <2>2, SlotTree
    <2>5. ASSUME NEW p \in DOMAIN heap
          PROVE  /\ Children(heap[p]) \subseteq DOMAIN heap
                 /\ Cardinality({s \in Slots : PtrIn(s) = p})
                      + Cardinality({q \in DOMAIN heap : p \in Children(heap[q])}) = 1
      <3> DEFINE A == Holders(P, p)
                 B == Parents(heap, p)
      <3>1. /\ {s \in Slots : PtrIn(s) = p} = A
            /\ {q \in DOMAIN heap : p \in Children(heap[q])} = B
        BY <2>2 DEF Holders, Parents
      <3>2. /\ Children(heap[p]) \subseteq DOMAIN heap
            /\ \/ (\E s : A = {s}) /\ B = {}
               \/ A = {} /\ \E z : B = {z}
        BY <2>1, OneOwner
      <3>3. Cardinality({}) = 0
        BY FS_EmptySet
      <3>4. \A z : Cardinality({z}) = 1
        BY FS_Singleton
      <3> HIDE DEF A, B
      <3>5. \/ Cardinality(A) = 1 /\ Cardinality(B) = 0
            \/ Cardinality(A) = 0 /\ Cardinality(B) = 1
        <4>1. CASE (\E s : A = {s}) /\ B = {}
          BY <3>3, <3>4, <4>1
        <4>2. CASE A = {} /\ \E z : B = {z}
          BY <3>3, <3>4, <4>2
        <4> QED BY <3>2, <4>1, <4>2
      <3>6. Cardinality(A) + Cardinality(B) = 1
        BY <3>5
      <3> QED BY <3>1, <3>2, <3>6
    <2>6. ASSUME NEW t \in Thread, var[t].list # Null
          PROVE  Cardinality(OwnedBy(var[t].list))
                   = aether_file_list_count(t) + (IF aether_file_list_count(t) = 0 THEN 1 ELSE 2)
      <3>1. TreeOk(heap, <<t, "list">>[2], var[t].list)
        BY <2>1, <2>3, <2>6, SlotTree
      <3>2. TreeOk(heap, "list", var[t].list)
        BY <3>1
      <3>3. OwnedBy(var[t].list) = Reach(heap, var[t].list)
        BY DEF OwnedBy, Reach
      <3>4. aether_file_list_count(t) = heap[var[t].list].count
        BY <2>6 DEF aether_file_list_count
      <3> QED BY <2>1, <3>2, <3>3, <3>4, ListSize
    <2> QED BY <2>4, <2>5, <2>6 DEF HeapExact
  <1> QED BY <1>1, FfiInvariance, PTL

------------------------------------------------------------------------------
(* Part 3: encryption.                                                     *)

Keys == [password : Passwords, salt : {generate_salt(v) : v \in Vaults}, cost : {DefaultCost}]

Headers == [version : {0, 1},
            cipher : CipherId \cup {"none", "unknown"},
            salt : {Nothing} \cup {generate_salt(v) : v \in Vaults},
            cost : {0, DefaultCost} \cup Costs,
            master : {Nothing} \cup {generate_nonce(v) : v \in Vaults},
            tag : {Nothing} \cup {compute_verification_tag(key) : key \in Keys}]

Seal == [password : Passwords, header : Headers, id : 0 .. MaxId, msg : Plaintexts]

\* The key a seal was made with, and the payload that was stored for it.
KeyOf(s) == [password |-> s.password, salt |-> s.header.salt, cost |-> s.header.cost]
PayloadOf(s) == encrypt_block(s.header.cipher, KeyOf(s), s.header.master, s.id, s.msg)

\* Whatever is stored anywhere was sealed by some writer: damage moves
\* payloads, it makes none.
Stored == {NoPayload} \cup {PayloadOf(s) : s \in sealed}

SealTyped ==
    /\ sealed \subseteq Seal
    /\ vault \in [Vaults -> [header : Headers, payload : [0 .. MaxId -> Stored],
                             metadata : Stored]]
    /\ writer \in [Vaults -> {NoWriter} \cup
                             [state : {"open", "failed", "closed"}, header : Headers,
                              key : Keys, next : 0 .. MaxId]]

\* A writer's header is that of its archive and belongs to its key.
Own(v, h, key) == /\ h.version = 1 /\ h.cipher \in CipherId
                  /\ h.salt = generate_salt(v) /\ h.master = generate_nonce(v)
                  /\ h.cost = DefaultCost
                  /\ key = [password |-> key.password, salt |-> h.salt, cost |-> h.cost]
                  /\ h.tag = compute_verification_tag(key)

WritersOwn == \A v \in Vaults : writer[v].state # "new" => Own(v, writer[v].header, writer[v].key)

\* Every seal is of one of the writers, with an id its counter has passed.
SealsCounted ==
    \A s \in sealed : \E v \in Vaults :
       /\ writer[v].state # "new"
       /\ s.header = writer[v].header /\ s.password = writer[v].key.password
       /\ writer[v].state = "open" => s.id < writer[v].next

\* The inductive invariant.
SInv == SealTyped /\ WritersOwn /\ SealsCounted /\ OneMessagePerNonce

------------------------------------------------------------------------------
(* Keys, nonces and payloads.                                              *)

\* The random values drawn for two archives differ.
LEMMA DrawnOnce ==
    ASSUME NEW v, NEW w, generate_salt(v) = generate_salt(w)
    PROVE  v = w
  BY DEF generate_salt

\* A nonce says which archive and which block it is for.
LEMMA NonceInjective ==
    ASSUME NEW m, NEW n, NEW i, NEW j, derive_block_nonce(m, i) = derive_block_nonce(n, j)
    PROVE  m = n /\ i = j
  BY DEF derive_block_nonce

\* So does a sealed text say all that it was sealed with.
LEMMA SealInjective ==
    ASSUME NEW c1, NEW k1, NEW n1, NEW a1, NEW m1, NEW c2, NEW k2, NEW n2, NEW a2, NEW m2,
           AeadSeal(c1, k1, n1, a1, m1) = AeadSeal(c2, k2, n2, a2, m2)
    PROVE  c1 = c2 /\ k1 = k2 /\ n1 = n2 /\ m1 = m2
  BY DEF AeadSeal

\* No block's nonce is the one of a payload that was never written.
LEMMA NothingIsNoNonce == ASSUME NEW m, NEW i PROVE Nothing # derive_block_nonce(m, i)
  <1>1. DOMAIN [nothing |-> 0] = {"nothing"}
    OBVIOUS
  <1>2. DOMAIN [master |-> m, id |-> i] = {"master", "id"}
    OBVIOUS
  <1> QED BY <1>1, <1>2 DEF Nothing, derive_block_nonce

\* decrypt_block accepts a stored payload only if it was sealed with this very
\* cipher, key, nonce and id, and then gives what was sealed.
LEMMA DecryptsSealed ==
    ASSUME NEW cipher, NEW key, NEW master, NEW id, NEW payload \in Stored,
           decrypt_block(cipher, key, master, id, payload).ok
    PROVE  \E s \in sealed :
              /\ s.header.cipher = cipher /\ KeyOf(s) = key
              /\ s.header.master = master /\ s.id = id
              /\ decrypt_block(cipher, key, master, id, payload).val = s.msg
  <1> DEFINE nonce == derive_block_nonce(master, id)
             aad == build_block_aad(cipher, id)
  <1>1. ~Failed.ok /\ \A x : Done(x).val = x
    BY DEF Failed, Done
  <1>2. payload.nonce = nonce
    BY <1>1 DEF decrypt_block
  <1>3. decrypt_block(cipher, key, master, id, payload)
           = AeadOpen(cipher, key, nonce, aad, payload.text)
    BY <1>2 DEF decrypt_block
  <1>4. AeadSeal(cipher, key, nonce, aad, payload.text.msg) = payload.text
    BY <1>1, <1>3 DEF AeadOpen
  <1>5. decrypt_block(cipher, key, master, id, payload).val = payload.text.msg
    BY <1>1, <1>3, <1>4 DEF AeadOpen
  <1>6. payload # NoPayload
    BY <1>2, NothingIsNoNonce DEF NoPayload
  <1>7. PICK s \in sealed : payload = PayloadOf(s)
    BY <1>6 DEF Stored
  <1> DEFINE n == derive_block_nonce(s.header.master, s.id)
             b == build_block_aad(s.header.cipher, s.id)
  <1>8. payload.nonce = n /\ payload.text = AeadSeal(s.header.cipher, KeyOf(s), n, b, s.msg)
    <2>1. PayloadOf(s) = [nonce |-> n, text |-> AeadSeal(s.header.cipher, KeyOf(s), n, b, s.msg)]
      BY DEF PayloadOf, encrypt_block
    <2> HIDE DEF n, b
    <2> QED BY <1>7, <2>1
  <1>9. s.header.master = master /\ s.id = id
    <2>1. derive_block_nonce(s.header.master, s.id) = derive_block_nonce(master, id)
      BY <1>2, <1>8
    <2> QED BY <2>1, NonceInjective
  <1>10. /\ s.header.cipher = cipher /\ KeyOf(s) = key
         /\ s.msg = payload.text.msg
    <2> HIDE DEF n, b, nonce, aad
    <2> QED BY <1>4, <1>8, SealInjective
  <1> QED BY <1>5, <1>9, <1>10

\* A header that accepts a key, and under whose cipher, salt, costs and master
\* nonce something was sealed with this key, is the header it was sealed under:
\* the tag leaves no field open.
LEMMA HeaderDetermined ==
    ASSUME SealTyped, WritersOwn, SealsCounted, NEW s \in sealed, NEW h \in Headers,
           h.version = 1, h.tag = compute_verification_tag(KeyOf(s)),
           s.header.cipher = h.cipher, s.header.salt = h.salt, s.header.cost = h.cost,
           s.header.master = h.master
    PROVE  s.header = h
  <1>1. PICK v \in Vaults : /\ writer[v].state # "new" /\ s.header = writer[v].header
                            /\ s.password = writer[v].key.password
    BY DEF SealsCounted
  <1>2. Own(v, s.header, writer[v].key)
    BY <1>1 DEF WritersOwn
  <1>3. KeyOf(s) = writer[v].key
    BY <1>1, <1>2 DEF Own, KeyOf
  <1>4. s.header.version = 1 /\ s.header.tag = h.tag
    BY <1>2, <1>3 DEF Own
  <1>5. s.header \in Headers
    BY DEF SealTyped, Seal
  <1> QED BY <1>4, <1>5 DEF Headers

\* What a reader derives its key from.
LEMMA DerivedKey ==
    ASSUME NEW h, NEW password, derive_decrypt_key(h, password).ok
    PROVE  /\ h.version = 1
           /\ derive_decrypt_key(h, password).val
                 = [password |-> password, salt |-> h.salt, cost |-> h.cost]
           /\ h.tag = compute_verification_tag(derive_decrypt_key(h, password).val)
  <1>1. ~Failed.ok /\ \A x : Done(x).val = x
    BY DEF Failed, Done
  <1> DEFINE key == derive_key(password, h.salt, h.cost)
  <1>2. read_header(h).ok /\ key.ok /\ verify_password(h, key.val)
    BY <1>1 DEF derive_decrypt_key
  <1>3. derive_decrypt_key(h, password) = key
    BY <1>2 DEF derive_decrypt_key
  <1>4. key.val = [password |-> password, salt |-> h.salt, cost |-> h.cost]
    BY <1>1, <1>2 DEF derive_key
  <1>5. h.version = 1
    BY <1>1, <1>2 DEF read_header
  <1> HIDE DEF key
  <1> QED BY <1>2, <1>3, <1>4, <1>5 DEF verify_password

\* What a reader accepts was sealed at this place: whatever the archives went
\* through, it is enough that they hold stored payloads and headers.
LEMMA ReadsAsSealed ==
    ASSUME SealTyped, WritersOwn, SealsCounted, NEW h \in Headers, NEW password \in Passwords,
           NEW id \in 0 .. MaxId, NEW payload \in Stored,
           NEW key, key = derive_decrypt_key(h, password), key.ok,
           decrypt_block(h.cipher, key.val, h.master, id, payload).ok
    PROVE  [password |-> password, header |-> h, id |-> id,
            msg |-> decrypt_block(h.cipher, key.val, h.master, id, payload).val] \in sealed
  <1> DEFINE r == decrypt_block(h.cipher, key.val, h.master, id, payload)
  <1>1. PICK s \in sealed : /\ s.header.cipher = h.cipher /\ KeyOf(s) = key.val
                            /\ s.header.master = h.master /\ s.id = id /\ r.val = s.msg
    BY DecryptsSealed
  <1>2. /\ h.version = 1 /\ h.tag = compute_verification_tag(key.val)
        /\ key.val = [password |-> password, salt |-> h.salt, cost |-> h.cost]
    BY DerivedKey
  <1>3. s.password = password /\ s.header.salt = h.salt /\ s.header.cost = h.cost
    BY <1>1, <1>2 DEF KeyOf
  <1>4. s.header = h
    BY <1>1, <1>2, <1>3, HeaderDetermined
  <1>5. s \in Seal
    BY DEF SealTyped
  <1> HIDE DEF r
  <1>6. s = [password |-> s.password, header |-> s.header, id |-> s.id, msg |-> s.msg]
    BY <1>5 DEF Seal
  <1>7. s = [password |-> password, header |-> h, id |-> id, msg |-> r.val]
    BY <1>1, <1>3, <1>4, <1>6
  <1> QED BY <1>7 DEF r

\* The invariant implies the second half of SealingSound.
LEMMA InvOpens == SInv => OpensAsSealed
  <1> SUFFICES ASSUME SInv, NEW v \in Vaults, NEW password \in Passwords
               PROVE  /\ \A id \in 0 .. MaxId :
                            Read(vault[v], id, password).ok =>
                              [password |-> password, header |-> vault[v].header, id |-> id,
                               msg |-> Read(vault[v], id, password).val] \in sealed
                      /\ ReadMetadata(vault[v], password).ok =>
                           [password |-> password, header |-> vault[v].header,
                            id |-> EncryptedMetadataBlockId,
                            msg |-> ReadMetadata(vault[v], password).val] \in sealed
    BY DEF OpensAsSealed
  <1> DEFINE h == vault[v].header
             key == derive_decrypt_key(h, password)
  <1>1. /\ h \in Headers /\ vault[v].metadata \in Stored
        /\ \A id \in 0 .. MaxId : vault[v].payload[id] \in Stored
    BY DEF SInv, SealTyped
  <1>2. ~Failed.ok
    BY DEF Failed
  <1>3. ASSUME NEW id \in 0 .. MaxId, Read(vault[v], id, password).ok
        PROVE  [password |-> password, header |-> h, id |-> id,
                msg |-> Read(vault[v], id, password).val] \in sealed
    <2>1. key.ok
      BY <1>2, <1>3 DEF Read
    <2>2. Read(vault[v], id, password)
             = decrypt_block(h.cipher, key.val, h.master, id, vault[v].payload[id])
      BY <2>1 DEF Read
    <2> QED BY <1>1, <1>3, <2>1, <2>2, ReadsAsSealed DEF SInv
  <1>4. ASSUME ReadMetadata(vault[v], password).ok
        PROVE  [password |-> password, header |-> h, id |-> EncryptedMetadataBlockId,
                msg |-> ReadMetadata(vault[v], password).val] \in sealed
    <2>1. key.ok
      BY <1>2, <1>4 DEF ReadMetadata
    <2>2. ReadMetadata(vault[v], password)
             = decrypt_block(h.cipher, key.val, h.master, MaxId, vault[v].metadata)
      BY <2>1
      DEF ReadMetadata, decrypt_metadata, cryptor_decrypt, BlockCryptor, EncryptedMetadataBlockId
    <2>3. MaxId \in 0 .. MaxId
      BY CryptoAssumption
    <2> QED BY <1>1, <1>4, <2>1, <2>2, <2>3, ReadsAsSealed DEF SInv, EncryptedMetadataBlockId
  <1> QED BY <1>3, <1>4

------------------------------------------------------------------------------
(* The invariant.                                                          *)

\* Nothing is written or sealed at first.
LEMMA SealInit == CryptoInit => SInv
  <1> SUFFICES ASSUME CryptoInit PROVE SInv
    OBVIOUS
  <1>1. NoHeader \in Headers
    BY DEF NoHeader, Headers, CipherId
  <1>2. Unwritten \in [header : Headers, payload : [0 .. MaxId -> Stored], metadata : Stored]
    BY <1>1 DEF Unwritten, Stored
  <1>3. SealTyped
    BY <1>2 DEF CryptoInit, SealTyped
  <1>4. WritersOwn /\ SealsCounted /\ OneMessagePerNonce
    BY DEF CryptoInit, WritersOwn, SealsCounted, OneMessagePerNonce, NoWriter
  <1> QED BY <1>3, <1>4 DEF SInv

\* A new archive: its header belongs to its key.
LEMMA BeginInv ==
    ASSUME SInv, NEW v \in Vaults, NEW password \in Passwords, NEW cipher \in CipherId,
           BeginEncrypted(v, password, cipher)
    PROVE  SInv'
  <1> DEFINE key == [password |-> password, salt |-> generate_salt(v), cost |-> DefaultCost]
             h == Header(v, cipher, key)
             w == [state |-> "open", header |-> h, key |-> key, next |-> 0]
  <1>1. /\ writer' = [writer EXCEPT ![v] = w]
        /\ vault' = [vault EXCEPT ![v].header = h]
        /\ writer[v].state = "new" /\ UNCHANGED sealed
    <2>1. derive_key(password, generate_salt(v), DefaultCost) = Done(key)
      BY CryptoAssumption DEF derive_key, validate_argon2_params
    <2>2. Done(key).val = key
      BY DEF Done
    <2> QED BY <2>1, <2>2 DEF BeginEncrypted
  <1>2. key \in Keys
    BY DEF Keys
  <1>3. /\ h.version = 1 /\ h.cipher = cipher /\ h.salt = generate_salt(v)
        /\ h.master = generate_nonce(v) /\ h.cost = DefaultCost
        /\ h.tag = compute_verification_tag(key)
    BY DEF Header
  <1>4. h \in Headers
    BY <1>2 DEF Header, Headers
  <1>5. Own(v, h, key)
    BY <1>3 DEF Own
  <1> HIDE DEF h
  <1>6. w.state = "open" /\ w.header = h /\ w.key = key
    OBVIOUS
  <1>7. w \in [state : {"open", "failed", "closed"}, header : Headers, key : Keys, next : 0 .. MaxId]
    BY <1>2, <1>4, CryptoAssumption
  <1> HIDE DEF key, w
  <1>8. SealTyped'
    BY <1>1, <1>4, <1>7 DEF SInv, SealTyped, Stored
  <1>9. \A u \in Vaults : writer'[u] = IF u = v THEN w ELSE writer[u]
    BY <1>1 DEF SInv, SealTyped
  <1>10. WritersOwn'
    BY <1>5, <1>6, <1>9 DEF SInv, WritersOwn
  <1>11. SealsCounted'
    BY <1>1, <1>9 DEF SInv, SealsCounted
  <1>12. OneMessagePerNonce'
    BY <1>1 DEF SInv, OneMessagePerNonce
  <1> QED BY <1>8, <1>10, <1>11, <1>12 DEF SInv

\* A writer seals one more message with an id none of its seals has and none
\* will get: the counter goes past it, or the writer stops.
LEMMA SealInv ==
    ASSUME SInv, NEW v \in Vaults, NEW plaintext \in Plaintexts, NEW id \in 0 .. MaxId,
           writer[v].state = "open", writer[v].next <= id,
           Seals(v, id, plaintext),
           NEW w, writer' = [writer EXCEPT ![v] = w],
           w \in [state : {"open", "failed", "closed"}, header : Headers, key : Keys,
                  next : 0 .. MaxId],
           w.header = writer[v].header, w.key = writer[v].key,
           w.state = "open" => id < w.next,
           vault' \in [Vaults -> [header : Headers, payload : [0 .. MaxId -> Stored'],
                                  metadata : Stored']]
    PROVE  SInv'
  <1> DEFINE s == [password |-> writer[v].key.password, header |-> writer[v].header,
                   id |-> id, msg |-> plaintext]
  <1>1. sealed' = sealed \cup {s}
    BY DEF Seals
  <1>2. /\ s.password = writer[v].key.password /\ s.header = writer[v].header
        /\ s.id = id
    OBVIOUS
  <1>3. writer[v].key \in Keys /\ writer[v].header \in Headers /\ writer[v].next \in 0 .. MaxId
    BY DEF SInv, SealTyped, NoWriter
  <1>4. s \in Seal
    BY <1>3 DEF Seal, Keys
  <1> HIDE DEF s
  <1>5. SealTyped'
    BY <1>1, <1>4 DEF SInv, SealTyped
  <1>6. \A u \in Vaults : writer'[u] = IF u = v THEN w ELSE writer[u]
    BY DEF SInv, SealTyped
  <1>7. w.state # "new"
    OBVIOUS
  <1>8. WritersOwn'
    BY <1>6, <1>7 DEF SInv, WritersOwn
  <1>9. Own(v, writer[v].header, writer[v].key)
    BY DEF SInv, WritersOwn
  <1>10. ASSUME NEW t \in sealed, t.header.salt = s.header.salt
         PROVE  t.id < writer[v].next
    <2>1. PICK u \in Vaults : /\ writer[u].state # "new" /\ t.header = writer[u].header
                              /\ writer[u].state = "open" => t.id < writer[u].next
      BY DEF SInv, SealsCounted
    <2>2. generate_salt(u) = generate_salt(v)
      BY <1>2, <1>9, <1>10, <2>1 DEF SInv, WritersOwn, Own
    <2>3. u = v
      BY <2>2, DrawnOnce
    <2> QED BY <2>1, <2>3
  <1>11. ASSUME NEW t \in sealed, t.header.salt = s.header.salt
         PROVE  t.id # s.id
    BY <1>2, <1>3, <1>4, <1>10, <1>11, CryptoAssumption DEF SInv, SealTyped, Seal
  <1>12. OneMessagePerNonce'
    <2> SUFFICES ASSUME NEW a \in sealed', NEW b \in sealed',
                        a.password = b.password, a.header.salt = b.header.salt,
                        a.header.cost = b.header.cost,
                        derive_block_nonce(a.header.master, a.id)
                           = derive_block_nonce(b.header.master, b.id)
                 PROVE  a = b
      BY DEF OneMessagePerNonce
    <2>1. a.id = b.id
      BY NonceInjective
    <2>2. CASE a \in sealed /\ b \in sealed
      BY <2>2 DEF SInv, OneMessagePerNonce
    <2> QED BY <1>1, <1>11, <2>1, <2>2
  <1>13. SealsCounted'
    <2> SUFFICES ASSUME NEW t \in sealed'
                 PROVE  \E u \in Vaults :
                           /\ writer'[u].state # "new"
                           /\ t.header = writer'[u].header /\ t.password = writer'[u].key.password
                           /\ writer'[u].state = "open" => t.id < writer'[u].next
      BY DEF SealsCounted
    <2>1. CASE t = s
      BY <1>2, <1>6, <1>7, <2>1
    <2>2. CASE t \in sealed
      <3>1. PICK u \in Vaults :
               /\ writer[u].state # "new"
               /\ t.header = writer[u].header /\ t.password = writer[u].key.password
               /\ writer[u].state = "open" => t.id < writer[u].next
        BY <2>2 DEF SInv, SealsCounted
      <3>2. CASE u # v
        BY <1>6, <3>1, <3>2
      <3>3. CASE u = v
        <4>1. t.id \in 0 .. MaxId /\ t.id < writer[v].next
          BY <2>2, <3>1, <3>3 DEF SInv, SealTyped, Seal
        <4>2. w.state = "open" => t.id < w.next
          BY <1>3, <4>1, CryptoAssumption
        <4> QED BY <1>6, <1>7, <3>1, <3>3, <4>2
      <3> QED BY <3>2, <3>3
    <2> QED BY <1>1, <2>1, <2>2
  <1> QED BY <1>5, <1>8, <1>12, <1>13 DEF SInv

\* What a writer stores is the payload of what it records as sealed.
LEMMA WritesStored ==
    ASSUME SInv, NEW v \in Vaults, NEW id, NEW plaintext, writer[v].state # "new",
           Seals(v, id, plaintext)
    PROVE  /\ encrypt_block(writer[v].header.cipher, writer[v].key, writer[v].header.master,
                            id, plaintext) \in Stored'
           /\ Stored \subseteq Stored'
  <1> DEFINE s == [password |-> writer[v].key.password, header |-> writer[v].header,
                   id |-> id, msg |-> plaintext]
  <1>1. sealed' = sealed \cup {s}
    BY DEF Seals
  <1>2. /\ s.password = writer[v].key.password /\ s.header = writer[v].header
        /\ s.id = id /\ s.msg = plaintext
    OBVIOUS
  <1> HIDE DEF s
  <1>3. KeyOf(s) = writer[v].key
    BY <1>2 DEF SInv, WritersOwn, Own, KeyOf
  <1>4. PayloadOf(s) = encrypt_block(writer[v].header.cipher, writer[v].key,
                                     writer[v].header.master, id, plaintext)
    BY <1>2, <1>3 DEF PayloadOf
  <1> QED BY <1>1, <1>4 DEF Stored

\* SealBlock: the counter is advanced, or the writer fails at u32::MAX.
LEMMA SealBlockInv ==
    ASSUME SInv, NEW v \in Vaults, NEW plaintext \in Plaintexts, SealBlock(v, plaintext)
    PROVE  SInv'
  <1> DEFINE w == writer[v]
             x == encrypt_block(w.header.cipher, w.key, w.header.master, w.next, plaintext)
  <1>1. /\ w.state = "open" /\ Seals(v, w.next, plaintext)
        /\ vault' = [vault EXCEPT ![v].payload[w.next] = x]
        /\ writer' = [writer EXCEPT ![v] = advance_block_id(w)]
    BY DEF SealBlock
  <1>2. /\ w \in [state : {"open", "failed", "closed"}, header : Headers, key : Keys,
                   next : 0 .. MaxId]
        /\ w.next \in 0 .. MaxId
    BY <1>1 DEF SInv, SealTyped, NoWriter
  <1>3. x \in Stored' /\ Stored \subseteq Stored'
    BY <1>1, WritesStored
  <1> HIDE DEF x, w
  <1>4. vault' \in [Vaults -> [header : Headers, payload : [0 .. MaxId -> Stored'],
                               metadata : Stored']]
    <2>1. \A u \in Vaults : vault[u] \in [header : Headers, payload : [0 .. MaxId -> Stored'],
                                          metadata : Stored']
      BY <1>3 DEF SInv, SealTyped
    <2>2. [vault[v].payload EXCEPT ![w.next] = x] \in [0 .. MaxId -> Stored']
      BY <1>2, <1>3, <2>1
    <2>3. [vault[v] EXCEPT !.payload = [vault[v].payload EXCEPT ![w.next] = x]]
             \in [header : Headers, payload : [0 .. MaxId -> Stored'], metadata : Stored']
      BY <2>1, <2>2
    <2>4. vault' = [vault EXCEPT ![v] =
                      [vault[v] EXCEPT !.payload = [vault[v].payload EXCEPT ![w.next] = x]]]
      BY <1>1
    <2>5. vault = [u \in Vaults |-> vault[u]]
      BY DEF SInv, SealTyped
    <2> QED BY <2>1, <2>3, <2>4, <2>5
  <1>5. /\ advance_block_id(w) \in [state : {"open", "failed", "closed"}, header : Headers,
                                     key : Keys, next : 0 .. MaxId]
        /\ advance_block_id(w).header = w.header /\ advance_block_id(w).key = w.key
        /\ advance_block_id(w).state = "open" => w.next < advance_block_id(w).next
    BY <1>2, CryptoAssumption DEF advance_block_id
  <1>6. w.next <= w.next
    BY <1>2, CryptoAssumption
  <1> HIDE DEF SInv
  <1> QED BY <1>1, <1>2, <1>4, <1>5, <1>6, SealInv DEF w

\* SealMetadata: the reserved id is above every id of an open writer.
LEMMA SealMetadataInv ==
    ASSUME SInv, NEW v \in Vaults, NEW plaintext \in Plaintexts, SealMetadata(v, plaintext)
    PROVE  SInv'
  <1> DEFINE w == writer[v]
             x == encrypt_block(w.header.cipher, w.key, w.header.master, MaxId, plaintext)
  <1>1. /\ w.state = "open" /\ Seals(v, MaxId, plaintext)
        /\ vault' = [vault EXCEPT ![v].metadata = x]
        /\ writer' = [writer EXCEPT ![v] = [w EXCEPT !.state = "closed"]]
    BY DEF SealMetadata, encrypt_metadata, cryptor_encrypt, BlockCryptor, EncryptedMetadataBlockId
  <1>2. /\ w \in [state : {"open", "failed", "closed"}, header : Headers, key : Keys,
                   next : 0 .. MaxId]
        /\ w.next <= MaxId /\ MaxId \in 0 .. MaxId
    BY <1>1, CryptoAssumption DEF SInv, SealTyped, NoWriter
  <1>3. x \in Stored' /\ Stored \subseteq Stored'
    BY <1>1, WritesStored
  <1> HIDE DEF x, w
  <1>4. vault' \in [Vaults -> [header : Headers, payload : [0 .. MaxId -> Stored'],
                               metadata : Stored']]
    BY <1>1, <1>3 DEF SInv, SealTyped
  <1>5. /\ [w EXCEPT !.state = "closed"] \in [state : {"open", "failed", "closed"},
                                     header : Headers, key : Keys, next : 0 .. MaxId]
        /\ [w EXCEPT !.state = "closed"].header = w.header
        /\ [w EXCEPT !.state = "closed"].key = w.key
        /\ [w EXCEPT !.state = "closed"].state = "closed"
    BY <1>2
  <1> QED BY <1>1, <1>2, <1>4, <1>5, SealInv DEF w

\* Damage leaves writers and seals alone and stored payloads stored.
LEMMA DamageInv ==
    ASSUME SInv, UNCHANGED <<writer, sealed>>,
           vault' \in [Vaults -> [header : Headers, payload : [0 .. MaxId -> Stored],
                                  metadata : Stored]]
    PROVE  SInv'
  <1>1. SealTyped'
    BY DEF SInv, SealTyped, Stored
  <1>2. WritersOwn' /\ SealsCounted' /\ OneMessagePerNonce'
    BY DEF SInv, WritersOwn, SealsCounted, OneMessagePerNonce
  <1> QED BY <1>1, <1>2 DEF SInv

\* Payloads in the wrong place are still stored payloads.
LEMMA MisplaceInv ==
    ASSUME SInv, NEW v \in Vaults, NEW from \in Vaults,
           MisplaceMetadata(v, from) \/ \E id \in 0 .. MaxId : Misplace(v, id, from)
    PROVE  SInv'
  <1>1. UNCHANGED <<writer, sealed>>
    BY DEF Misplace, MisplaceMetadata, Damage
  <1>2. vault' \in [Vaults -> [header : Headers, payload : [0 .. MaxId -> Stored],
                               metadata : Stored]]
    <2>1. \A i \in 0 .. MaxId : vault[from].payload[i] \in Stored
      BY DEF SInv, SealTyped
    <2>2. vault[from].metadata \in Stored
      BY DEF SInv, SealTyped
    <2>3. ASSUME NEW i \in 0 .. MaxId, NEW x \in Stored, vault' = [vault EXCEPT ![v].payload[i] = x]
          PROVE  vault' \in [Vaults -> [header : Headers, payload : [0 .. MaxId -> Stored],
                                        metadata : Stored]]
      BY <2>3 DEF SInv, SealTyped
    <2>4. ASSUME NEW x \in Stored, vault' = [vault EXCEPT ![v].metadata = x]
          PROVE  vault' \in [Vaults -> [header : Headers, payload : [0 .. MaxId -> Stored],
                                        metadata : Stored]]
      BY <2>4 DEF SInv, SealTyped
    <2>5. CASE MisplaceMetadata(v, from)
      BY <2>1, <2>2, <2>3, <2>4, <2>5 DEF MisplaceMetadata
    <2>6. CASE \E id \in 0 .. MaxId : Misplace(v, id, from)
      BY <2>1, <2>3, <2>6 DEF Misplace
    <2> QED BY <2>5, <2>6
  <1> QED BY <1>1, <1>2, DamageInv

\* A damaged field still has a value of its kind.
LEMMA DamageHeaderInv == ASSUME SInv, NEW v \in Vaults, DamageHeader(v) PROVE SInv'
  <1>1. UNCHANGED <<writer, sealed>>
    BY DEF DamageHeader, Damage
  <1> DEFINE h == vault[v].header
  <1>2. vault[v] \in [header : Headers, payload : [0 .. MaxId -> Stored], metadata : Stored]
    BY DEF SInv, SealTyped
  <1>3. PICK g : vault' = [vault EXCEPT ![v].header = g] /\ g \in Headers
    <2>1. \A u \in Vaults : vault[u].header \in Headers
      BY DEF SInv, SealTyped
    <2>2. CASE \E c \in CipherId \cup {"unknown"} : vault' = [vault EXCEPT ![v].header.cipher = c]
      <3>1. PICK c \in CipherId \cup {"unknown"} :
               vault' = [vault EXCEPT ![v].header = [h EXCEPT !.cipher = c]]
        BY <2>2
      <3>2. [h EXCEPT !.cipher = c] \in Headers
        BY <2>1 DEF Headers
      <3> QED BY <3>1, <3>2
    <2>3. CASE \E c \in Costs : vault' = [vault EXCEPT ![v].header.cost = c]
      <3>1. PICK c \in Costs : vault' = [vault EXCEPT ![v].header = [h EXCEPT !.cost = c]]
        BY <2>3
      <3>2. [h EXCEPT !.cost = c] \in Headers
        BY <2>1 DEF Headers
      <3> QED BY <3>1, <3>2
    <2>4. CASE \E w \in Vaults : vault' = [vault EXCEPT ![v].header.salt = generate_salt(w)]
      <3>1. PICK w \in Vaults :
               vault' = [vault EXCEPT ![v].header = [h EXCEPT !.salt = generate_salt(w)]]
        BY <2>4
      <3>2. [h EXCEPT !.salt = generate_salt(w)] \in Headers
        BY <2>1 DEF Headers
      <3> QED BY <3>1, <3>2
    <2>5. CASE \E w \in Vaults : vault' = [vault EXCEPT ![v].header.master = generate_nonce(w)]
      <3>1. PICK w \in Vaults :
               vault' = [vault EXCEPT ![v].header = [h EXCEPT !.master = generate_nonce(w)]]
        BY <2>5
      <3>2. [h EXCEPT !.master = generate_nonce(w)] \in Headers
        BY <2>1 DEF Headers
      <3> QED BY <3>1, <3>2
    <2>6. CASE \E w \in Vaults : vault' = [vault EXCEPT ![v].header.tag = vault[w].header.tag]
      <3>1. PICK w \in Vaults :
               vault' = [vault EXCEPT ![v].header = [h EXCEPT !.tag = vault[w].header.tag]]
        BY <2>6
      <3>2. [h EXCEPT !.tag = vault[w].header.tag] \in Headers
        BY <2>1 DEF Headers
      <3> QED BY <3>1, <3>2
    <2>7. CASE \E w \in Vaults : vault' = [vault EXCEPT ![v].header = vault[w].header]
      BY <2>1, <2>7
    <2> QED BY <2>2, <2>3, <2>4, <2>5, <2>6, <2>7 DEF DamageHeader
  <1>4. vault' \in [Vaults -> [header : Headers, payload : [0 .. MaxId -> Stored],
                               metadata : Stored]]
    BY <1>3 DEF SInv, SealTyped
  <1> QED BY <1>1, <1>4, DamageInv

\* Every step preserves the invariant.
LEMMA SealNext == SInv /\ [CryptoNext]_cryptoVars => SInv'
  <1> SUFFICES ASSUME SInv, [CryptoNext]_cryptoVars PROVE SInv'
    OBVIOUS
  <1>1. CASE UNCHANGED cryptoVars
    <2>1. UNCHANGED <<writer, sealed>> /\ vault' = vault
      BY <1>1 DEF cryptoVars
    <2> QED BY <2>1, DamageInv DEF SInv, SealTyped
  <1>2. CASE CryptoNext
    BY <1>2, BeginInv, SealBlockInv, SealMetadataInv, MisplaceInv, DamageHeaderInv
    DEF CryptoNext
  <1> QED BY <1>1, <1>2

\* The invariant holds in every reachable state.
THEOREM CryptoInvariance == CryptoSpec => []SInv
  BY SealInit, SealNext, PTL DEF CryptoSpec

\* No nonce is ever used for two messages under one key, and whatever happens
\* to the stored archives, what a reader accepts was sealed at its place under
\* the header it reads.
THEOREM SealingCorrect == CryptoSpec => []SealingSound
  <1>1. SInv => SealingSound
    BY InvOpens DEF SInv, SealingSound
  <1> QED BY <1>1, CryptoInvariance, PTL
==============================================================================
