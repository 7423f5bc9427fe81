----------------------------- MODULE MCFrontends -----------------------------
(***************************************************************************)
(* TLC instance of what surrounds the pipeline: the encryption of archives *)
(* (Crypto), `aet` commands on a shared file system (Commands) and the C   *)
(* interface (CFfi).  They share no state: `part`, fixed in the initial    *)
(* state, is the one that runs.                                            *)
(***************************************************************************)
EXTENDS Crypto, Commands, CFfi, TLC

VARIABLE part

vars == <<part, cryptoVars, commandVars, ffiVars>>

Init ==
    /\ part \in {"crypto", "commands", "ffi"}
    /\ CryptoInit /\ CommandsInit /\ FfiInit
    /\ part # "ffi" => archives = [a \in ArchivePath |-> NoArchive]

Next ==
    /\ UNCHANGED part
    /\ \/ part = "crypto" /\ CryptoNext /\ UNCHANGED <<commandVars, ffiVars>>
       \/ part = "commands" /\ CommandsNext /\ UNCHANGED <<cryptoVars, ffiVars>>
       \/ part = "ffi" /\ FfiNext /\ UNCHANGED <<cryptoVars, commandVars>>

Spec == Init /\ [][Next]_vars

\* No definition tells two archives, processes or threads apart, nor two
\* plaintexts or two good passwords.  The configuration names archives,
\* processes and threads alike, only one kind of which ever moves.
Symmetry == Permutations(Vaults \cup Process \cup Thread)
              \cup Permutations(Plaintexts) \cup Permutations(Passwords \ Weak)

------------------------------------------------------------------------------
(* Files and command lines: an input directory in which archives may also  *)
(* end up, and an output directory.                                        *)

inA == <<"in", "a">>
inX == <<"in", "x">>
outY == <<"out", "y">>
outD == <<"out", "d">>
MCPath == {"in", "out"} \X {"a", "x", "y", "d"}

\* The file is text, which the built-in dictionary is for.
MCInitialFs == [p \in Path |-> IF p = inA THEN Data(TRUE) ELSE Absent]

Compress(output, force, predictor, dict, password, auto) ==
    Job("compress", "in", NoPath, NoPath, output, "", force, predictor, dict, password, auto)
CompressOne(output, force, predictor, dict, password) ==
    Job("compress", "", inA, NoPath, output, "", force, predictor, dict, password, FALSE)
Train(force, predictor) ==
    Job("train", "in", NoPath, NoPath, outD, "", force, predictor, NoPath, NoPassword, FALSE)
Migrate(source, output, force, predictor) ==
    Job("migrate", "", NoPath, source, output, "", force, predictor, NoPath, NoPassword, FALSE)
ExtractOne(source, output) ==
    Job("extract_file", "", NoPath, source, output, "", TRUE, "auto", NoPath, NoPassword, FALSE)
Reading(cmd, source, into, dict) ==
    Job(cmd, "", NoPath, source, NoPath, into, FALSE, "auto", dict, NoPassword, FALSE)

MCJobs ==
    {Compress(inX, FALSE, "ContextMixer", NoPath, NoPassword, FALSE),
     CompressOne(outY, TRUE, "NeuralSsm", NoPath, "good"),
     Compress(outY, FALSE, "Order0", outD, NoPassword, FALSE),
     Compress(outY, FALSE, "NeuralSsm", outD, NoPassword, FALSE),
     Compress(outY, FALSE, "ContextMixer", NoPath, NoPassword, TRUE),
     Compress(outY, TRUE, "ContextMixer", NoPath, "bad", FALSE),
     Train(TRUE, "NeuralSsm"), Train(FALSE, "Lz4Aware"),
     Migrate(outY, outY, TRUE, "auto"), Migrate(outY, inX, FALSE, "Rle"),
     ExtractOne(outY, inA),
     Reading("extract", inX, "in", NoPath), Reading("extract", outY, "out", outD),
     Reading("verify", outY, "", NoPath), Reading("list", inX, "", NoPath)}

------------------------------------------------------------------------------
(* Archives a C program may find *)

Stored(decodes, predictor, entries) ==
    [kind |-> "archive", decodes |-> decodes, predictor |-> predictor, entries |-> entries]

MCArchiveContent ==
    {NoArchive, TornArchive,
     Stored(TRUE, "Order0", << >>),
     Stored(TRUE, "Order0", <<"file", "escaping">>),
     Stored(TRUE, "Order0", <<"file", "reserved">>),
     Stored(FALSE, "Lz4Aware", <<"file">>)}
==============================================================================
