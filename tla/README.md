# A TLA+ model of AetherArch

AetherArch (`aether-core` and the programs around it) is a file archiver: it
groups files, cuts them into chunks, codes every chunk with the best of several
methods and writes one `.aet` archive, which can be extracted at random, as a
stream, from cloud storage, or through a REST server. This directory holds TLA+
specifications of the parts of it in which order, failure and concurrency
matter, and of the algorithms that must be each other's inverse, the TLC models
that check them, and TLAPS proofs.

Paths below are relative to the repository; `pipeline/…`, `cloud/…` and single
file names without a directory are under `aether-core/src/`.

## Inventory

| Component | State it keeps | Operations | Talks to |
|---|---|---|---|
| Compressor (`pipeline/compress.rs`) | file entries, groups, block index, counters; the output file, written in place | `compress_to_archive` | grouper, chunker, router, crypto; a pool of threads |
| Grouper, chunker (`grouper.rs`, `chunker.rs`) | none | `group_files`, `chunk_*_refs` | – |
| Format (`header.rs`, `block.rs`, `format.rs`) | the records of an archive | `read_from`, `write_to`, prefixed paths | – |
| Seekable readers (`pipeline/decompress_seekable.rs`, `decompress.rs`) | metadata, decoded blocks, reference counts | `read_metadata`, `extract_all`, `extract_file`, `verify`, `list_files` | a pool of threads; the file writer |
| Streaming readers (`pipeline/decompress_streaming.rs`) | the same, without index and footer | `*_streaming` | the file writer |
| File writer (`write_validated_file` in `decompress.rs`) | one temporary file per call; the output directory | write one extracted file | other extractions in the same directory |
| Dictionaries (`dictionary.rs`, `builtin_dicts.rs`) | a trained predictor state and its hash | train, save, load, apply, resolve by hash | compressor, readers |
| Encryption (`crypto/mod.rs`) | key, master nonce | derive key, encrypt and decrypt a block | compressor, readers |
| Router (`pipeline/router.rs`) | none | compress a chunk by a cascade of candidates; the inverse | transforms, predictors, range coder |
| Transforms, range coder (`coding/*`) | coder registers | BWT, LZ77, BCJ, byte planes, RLE; encode, decode | predictors |
| Predictors (`entropy/*`) | model tables | `predict`, `update`, `reset`, save and load state | range coder |
| Analyzer (`analyzer.rs`) | none | content type, recommended method | grouper, router |
| Cloud reader (`cloud/mod.rs`) | position, cached size, read-ahead buffer | `new`, `refresh_size`, `read`, `seek` | a storage backend, whose object others replace |
| Cloud backends (`cloud/{s3,gcs,azure}.rs`) | – | range reads, writes | vendor SDKs |
| Migrator (`pipeline/migrate.rs`) | a temporary directory | `migrate`, `migrate_streaming` | extractor, compressor |
| Server (`aether-server/src`) | per request: upload, temporary directory, blocking task; permits | `/compress`, `/extract`, `/verify`, `/list` | all of aether-core |
| Command line (`aether-cli`) | the output file of the command | `compress`, `extract`, `list`, `verify`, `train`, `migrate`, `bench` | all of aether-core; other commands on the same files |
| C interface (`aether-ffi`) | boxes it handed out, a last error per thread | `aether_*` | all of aether-core |
| Python and WebAssembly bindings | none | the calls of aether-core | all of aether-core |

What is hard in this code:

* **Crashes.** `compress_to_archive` writes the final file in place: placeholder
  header, tables, blocks, index, footer, and then patches header and tables. A
  reader may meet the file at any of these moments.
* **Concurrency.** Groups are compressed and blocks decoded by a thread pool;
  several extractions may write to one directory; the handlers of a route of
  the server share permits, and their blocking tasks outlive them.
* **Stale state.** Blocks shared by duplicate files are moved out with their last
  reference; a cloud object changes behind the buffer; a target is checked
  before it is renamed over.
* **Synchrony.** Encoder and decoder of a chunk run the same adaptive model by
  different code: a carry, a rescaling, a shortcut or a choice of predictor that
  differs in one place turns the rest of the block into noise.
* **Partial results.** Commands create and truncate their output before they have
  looked at their input, and more than one may run; the C interface hands out
  memory in the middle of calls that still may fail.
* **Limits.** Counts and sizes are limited by the writer, by both seekable read
  paths and by the streaming path, each in its own code.

`PROJECT.json` lists each hazard at its line, with the properties that cover it.

## Modules

| Module | Models | Checked by |
|---|---|---|
| `Grouper` | `group_files` as a pure function | `MCCompressor`, `Compressor_proofs` |
| `ArchiveReader` | the container and all readers as functions of an image | `MCCompressor`, `Compressor_proofs`, `Archive_proofs` |
| `Compressor` (extends `Grouper`, `ArchiveReader`) | `compress_to_archive`, one action per record written | `MCCompressor`, `Compressor_proofs`, `Archive_proofs` |
| `ExtractionSpec` | what an extraction promises its caller | `Extraction` implements it |
| `Extraction` | block decoding on the three read paths, reassembly by reference counts | `MCExtraction`, `Extraction_proofs` |
| `FileWriter` | `write_validated_file`, one action per system call | `MCFileWriter`, `FileWriter_proofs` |
| `RemoteObject` | what `Read + Seek` over a remote object promises | `CloudReader` implements it |
| `CloudReader` | `CloudReader` of `cloud/mod.rs` | `MCCloudReader`, `CloudReader_proofs` |
| `Server` | the POST handlers of `routes.rs`, permits of `main.rs` | `MCServer`, `Server_proofs` |
| `ByteCodec` | bytes, results and little-endian words, shared by the codecs | `MCCodecs` |
| `RangeCoder` | `probs_to_cdf`, encoder, decoder, block coding of `coding/rans.rs` | `MCCodecs` |
| `Order0` | `Order0Model` of `entropy/order0.rs` | `MCCodecs` |
| `Bwt` | BWT, MTF and run lengths of `coding/bwt_preprocess.rs` | `MCCodecs` |
| `Lz77` | match finder, tokens and decoder of `coding/lz77_preprocess.rs` | `MCCodecs` |
| `BytePlane` | byte planes and delta, and the x86 filter of `coding/bcj.rs` | `MCCodecs` |
| `Router` (composes the five above) | `compress_chunk` and `decompress_chunk` of `pipeline/router.rs` | `MCCodecs` |
| `Crypto` | `crypto/mod.rs` and its uses by writer and readers | `MCFrontends`, `Frontends_proofs` |
| `Dictionaries` | dictionaries and who uses which | `MCFrontends` |
| `Commands` (extends `Dictionaries`) | the commands of `aether-cli/src/main.rs`, the migrator | `MCFrontends`, `Frontends_proofs` |
| `CFfi` | `aether-ffi/src/lib.rs` | `MCFrontends`, `Frontends_proofs` |
| `FoldInduction` | no code: induction over the rounds of a loop | used by four of the proof modules |

### Writer and readers

`Compressor` builds an *image*, the sequence of the records in the output file.
A record is one unit long, so an offset is a number of records. The variable
`disk` is the image as another process finds it; since every write is an action,
the invariants over `disk` are statements about a crash at every moment. `pc`
follows the numbered steps of `compress_to_archive`. Phase A (`CompressFile`)
interleaves the groups, phase B (`ShareBlocks`, `WriteBlockHeader`,
`WritePayload`, `WriteTrailer`, `EndFile`, `EndGroup`) is sequential. The header
is overwritten in two steps (with a tag that does not match in between), a file
entry in two (`chunk_start_idx`, `chunk_count`); the bytes a write does not
change are not modelled as steps. `Fail` stands for every `?` of the function.

`ArchiveReader` says, for an image, what `read_metadata`,
`read_metadata_streaming`, `extract_all`, `extract_file`, `verify` and their
streaming versions return. Hashes are the content they are taken of (no
collisions), checksums a flag of the record. The last bytes of a stored block can
be the footer of a nested `.aet` file: such a payload has a `tail`. Two limits
of `validate_block_header` (the sizes of a single block) are in `Extraction`
instead, where the limits are the subject. A chunk's coding is the identity here
because coding and its inverse are the router's; the size and hash checks behind
the decoder are kept.

### Extraction

`Extraction` starts where `read_metadata` has returned. The parallel path reads
all blocks, checks the sum, decodes them in any order and assembles the results;
the sequential and the streaming path decode one block after the other, each into
a local (`Decode`) that is then compared with the limits and put into its slot
(`KeepBlock`): while it is held there, memory may exceed the limit by that block,
which `LimitsExact` allows them and not the parallel path. They differ in what
they count against the compressed-read limit and in when. Then
files are reassembled: `TakeBlock` is `take_or_clone`, `WriteFile` the hash
comparison and the write. The token of a block stands for its content. Archives
are arbitrary: ranges may overlap, repeat or leave the block array; blocks may
be damaged in either of two ways.

`ExtractionSpec` is the promise: files appear in table order, each with the
blocks of its range cut to its size and only if that matches its hash; success
only after the last one; a failure only for a cause, and for a damaged block or
a limit only before the first file.

### File writer

Each call walks the parent components, creates missing ones, checks the target,
writes a temporary file and renames it. Calls interleave, fail and die. Symbolic
links in the initial tree stay as they are: the model covers the extractor's own
concurrency, not a third party that changes the directory. A link to something
stops a call; a dangling one looks like an absent file to the code and is replaced
by the rename, so `KeepsDirsAndLinks` speaks of links to something.

### Cloud reader

`CloudReader` keeps the code's four fields; `versions` is a history variable, the
contents of the object since `total_size` was queried. `RemoteObject` has no
buffer: a read returns consecutive bytes of one of these versions. Integers that
the code holds as `i64` are limited by `MaxOffset`; the subtractions on `u64`
that the code does not check are what `TypeOK` is about.

### Server

A request passes `Admit` (a permit of its route is free: `Router::layer` gives each
route a limit of its own; `check_auth`), the upload, and waits
for its blocking task. `Timeout` and `Disconnect` end the handler and release the
permit; the task goes on, and finds the temporary directory of `/compress`
removed. `/verify` and `/list` do the same to an archive (`CheckArchive`). File
names are records of the parts the code joins, so that `1_a` uploaded and `1_a`
made up for a second `a` are equal. The listing of the directory at the end of
an upload passes over entries it cannot read, without an error: `EndUpload`
compresses any part of the directory, and what is left out is recorded in
`dropped`, which only `NoUploadLost` looks at.

### Codecs

The codecs are functions with the code's names, written on a small alphabet: a
byte is one of `Base` digits, a word four of them, and the widths the formats fix
(probability scale, cache limit, nibbles, offsets, window, thresholds) are
constants, so that carries, full nibbles, windows and rescalings happen on inputs
of a few bytes. What is kept is every branch of the algorithms: the deferred
digits of the range coder and the valve that gives up on too many of them, the
over-read the decoder tolerates, both forward and redistribution pass of
`probs_to_cdf`, the Fenwick tree and the exact division of `Order0Model`, the
four walks of the inverse BWT, both run-length codings, hash chains with reused
slots, lazy matching, extension bytes.

Loops are functions on bounded domains or folds. `encode_block` and
`decode_block` take the predictor as operators, as the code takes a trait; in
`PROJECT.json` they are mapped under their uses `RcBlock` and `RcUnblock` of
`Router`.

`Router` runs these codecs as the code does; `Order0` stands in the place of the
neural predictor, since the cascade relies on nothing but the trait. What the
router estimates (entropy, numeric width, usefulness of planes, the x86 header)
and the size zstd reaches are inputs, so the run covers every outcome of the
estimates. zstd itself is a payload that carries its data.

### Encryption

`Crypto` is symbolic: a key is the password, salt and cost it was derived from, a
nonce its master nonce and id, a sealed payload the record of all it
authenticates. Archives are written by `BeginEncrypted`, `SealBlock` and
`SealMetadata`; `MaxId` is `u32::MAX`, small enough to be reached. Then payloads
are misplaced within and between archives and headers damaged field by field.
The pipeline stores its metadata in the clear; `encrypt_metadata` is a public
function a caller may use, and it shares the block ids.

### Commands

A file's content is what a later command can find out about it: absent, empty,
torn, data, a dictionary, or an archive with its entries, predictor, dictionary
hash, the baseline its blocks were coded with, the files that have a block coded
by a predictor (`coded`), and password. The other blocks (stored, zstd, byte
planes) decode whatever the baseline is; which files need one is up to their data
and chosen freely when an archive is made (`Codings`). `Start` takes a
command line; `create_output_file`, `Prepare` (everything between the creation of
the output and the first write: collecting, loading, passwords, `--auto-dict`,
and for `migrate` and `extract --file` the reading of the source), `BeginWrite`,
`EndWrite` and `FailWrite` are the steps of the commands that write one file;
`extract_all` and `WriteEntry` those of `extract`. A process that was killed is
one that takes no further step. Files are shared: opening with truncation leaves
earlier writers on the same file, a rename takes it from them (`holds`, `alone`).

### C interface

`heap` maps pointers to live allocations; a list owns its array and the array its
strings. Every exported function is an action with its argument checks in the
code's order; its failures set the calling thread's message. Paths of entries that
are empty or lead through a symlink are refused before anything is written; a
reserved name is refused by the core when the entries before it are on disk, and
`FailuresReported` promises nothing of it. A handle belongs to
one thread, as the header demands.

## Runs

The passing runs take between a few seconds and three minutes. Deadlock is not
checked: every system here ends (`CHECK_DEADLOCK FALSE`), and that it does end is
a property where the code promises it.

| Run | Instance | Shows |
|---|---|---|
| `codecs` | a state is a kind of algorithm and an input: 4 weights of 5 kinds; 3 symbols under 4 predictions; a dictionary or none and 4 updates; 5 bytes of 4 values; 10 bytes of 2 values; 2 pieces of 6 kinds under every estimate | `CdfCodesEverySymbol`, `RangeCoderRoundTrip`, `Order0PathsAgree`, `BwtRoundTrip`, `RleExact`, `Lz77RoundTrip`, `RouterRoundTrip` |
| `compressor` | up to 2 files over all contents (empty, one chunk, one and a half, a nested archive) and up to 3 over two of them, two types, encrypted and with a dictionary; up to 3 files of one type with two extensions and all sizes; total limit 7 on both sides, groups of 4, chunks of 2 | `CrashSafe`, `SingleFileSafe`: no state of the file makes a reader write wrong content or report a false success. `AcceptedHasAllBlocks`: metadata is accepted only with all blocks. `GroupsPartitionFiles`, `GroupSizeBound`: grouping loses no file and closes no group early. `VerifySound`, `FinishedReadsBack`, `LayoutReproducible`, `PatchKeepsBlocks` |
| `extraction` | 3 blocks of 7 kinds, up to 3 files with any ranges; limits that some of the archives meet exactly and others exceed | the three paths implement `ExtractionSpec`; reference counts and limits are exact; every extraction ends |
| `file_writer` | 2 writers for `d/f`, one for `d`, every initial tree of directories, files and links | targets are always whole; a call that failed left nothing; calls are refused for a cause only; directories and links to something stay |
| `cloud_reader` | 4 versions of length 4, 5, 2, 0; reads of 0 to 4, offsets -3 to 7, buffer 2, fetch limit 3 | it implements `RemoteObject` |
| `frontends` | one of three systems, chosen initially: 2 archives, ids 0 and 1, 3 passwords (one too short), 2 damages; 2 processes, 4 commands out of 15 command lines over 2 directories, every choice of the files a predictor codes; 2 threads, 4 calls, one archive path with 6 contents. Symmetric in archives, plaintexts, good passwords, processes and threads, which no definition tells apart | `SealingSound`: one message per nonce, and a payload opens only as what was sealed at its place. `CompleteFilesKept`, `SuccessReadable`: commands overwrite only what they were told to, and what they report can be read back. `HeapExact`, `FailuresReported`: every allocation has one owner, every failure its message on its thread |
| `server` | 2 requests of the same or of two routes, 1 permit for each route, uploads of 3 files with colliding names beside a short one, edge cases of all routes beside each other | nothing is lost but what the listing passes over, no directory is left, hanging tasks are answered |

The bounds reach what the code distinguishes: a second group of a type, a file
of several chunks, a duplicate in the same and in another group, an empty file,
a list at and over the total limit, an archive whose writer stopped after every
record; a block shared by three files, ranges beyond the array; three calls that
race for one directory; a buffer smaller and larger than a read and an object
that shrinks below the position; a made-up name that is already taken. For the
codecs: a carry through three held digits and an overflow of the cache, a
rescaling of the counts, periodic and odd inputs of the BWT, a match a
window (4) away, one cut off by `MAX_MATCH` and one with an extension byte, every
method of the router as the winner. For the front ends: the last block id, an
output that is also an input, two writers of one output, a dictionary trained and
used by later commands, and a list freed after an error of the other thread.

Fairness. `Extraction`: weak fairness of the whole next-state relation (without
failures), since the calling thread and the pool's threads are scheduled and
neither waits for anything else. `Server`: weak fairness of
the answer or the timeout only, which the runtime polls; nothing is assumed of
clients or of the time a task takes.

Five runs expect a violation. Each states a sentence of a comment or a document,
and its counterexample is what the code does:

* `streaming_verify`: verification of a stream passes an archive that was never
  finished, because it checks only the blocks the header counts and no file.
* `outside_paths`: a file outside the base directory is archived under a path
  that makes the whole archive unreadable.
* `read_limit`: the parallel and the sequential path count compressed bytes
  differently.
* `no_clobber`: two calls with `no_clobber` for one path can both succeed.
* `server_limit`: blocking tasks left behind by a timeout or a disconnect are
  not counted by the concurrency limit, that of their own route.

Smaller things seen while modelling, which the models follow and no run is about:

* `extract --file` and `migrate --force` truncate their output before they have
  read their source; `migrate --force` onto its own source loses it.
* `aet verify` has no `--dictionary`, and `verify` never calls
  `validate_dictionary`: an archive made with a user's dictionary fails if a block
  was coded with it, and passes if none was (stored, zstd and byte-plane blocks,
  empty files), although `extract` with the same options refuses it for its hash.
  `SuccessReadable` leaves the second case out. A supplied dictionary an archive
  does not use is let pass by `validate_dictionary` and then used by
  `decode_baseline_for`.
* `/compress` leaves files out of the archive that its listing of the temporary
  directory could not read, and answers 200.
* `--auto-dict` compares two compressions that both use the built-in dictionary
  (`Compressor::new` attaches it to the neural predictor).
* Migrating an archive without files leaves an empty output, which is no archive.
* `aether_compress` lets its `BufWriter` drop: an error of the last write is lost
  and the call returns `AETHER_OK`.
* The comments in `bwt_preprocess.rs` that speak of a single cycle do not hold for
  periodic data; the decoder works all the same (`BwtRoundTrip`).

## Proofs

The theorems hold for every value of the constants that satisfies the module's
named assumption, which TLC evaluates in the runs. Each proof has an inductive
invariant, proved first (`Invariance`, `CommandsInvariance`, `FfiInvariance`),
from which the properties of the runs follow.

**`Extraction_proofs`** (any archives, limits and read paths):

* `TypeCorrect`, `RefCountsCorrect`, `NoBlockMissing`: `Spec` implies that
  `TypeOK`, `RefCountsExact` and `NoMissingBlock` always hold;
* `LimitsAreExact`: and `LimitsExact`, with the one block the sequential and the
  streaming path may hold beyond the limit;
* `Refinement`: `Spec => Promise!Spec`.

`IInv` is the three properties with two parts that make them inductive. `ReadInv`
says that the slots before `next` hold their own block, that a block in a slot is
good, and that results are the block's own position; `FileInv` that exactly the
files before `file` were written, that every block is good by the time files are
written, that `combined` is the first `chunk` blocks of the current range, and
that the range is within the array while blocks are taken. The reference count is
a cardinality of the set of files that still wait for a block; a step of
`TakeBlock` removes exactly the current file from the set of that one block,
which is the main lemma. For the limits, `LimitInv` (inductive relative to
`IInv`) says that the code's two running totals are the sums over the blocks read
so far, which the property does not mention; what is held is then below a sum
that was compared with the limit, but for the block just decoded, because sums of
natural numbers grow with the blocks they run over.

**`CloudReader_proofs`**: `TypeCorrect`, `BufferCorrect` and `Refinement`
(`Spec => Remote!Spec`) for all objects, buffer sizes and limits. The invariant
adds that the present object is one of the versions. The argument for a buffered
read is that a piece of a piece of a version is a piece of that version; for a
fetched one, that the object at that moment is a version.

**`Compressor_proofs`** (any calls, limits, chunk size and content types) is about
the groups, every moment of the writing, and the images readers accept:

* `GroupsAreExact` and `GroupsAreBounded`: for any list of files with integer types,
  extensions and sizes, what `group_files` returns satisfies `Partitions` and
  `WithinBound`;
* `FilesGrouped`, `GroupsBounded`: so `GroupsPartitionFiles` and `GroupSizeBound`
  always hold;
* `TypeCorrect`; `BlocksKept`: every step satisfies `PatchKeepsBlocks`;
* `CrashSafety`: `CrashSafe` always holds;
* `SingleFiles`: so does `SingleFileSafe`, if `PathsDistinct`: files of a call
  stored under one path have equal content. The assumption is needed, since
  `extract_file` returns the first entry of the path and nothing in
  `compress_to_archive` refuses a second one;
* `AcceptedComplete`: `AcceptedHasAllBlocks` always holds;
* `VerifySoundness`: so does `VerifySound`, if `PlainPaths`: no path of a call is
  one that `validate_extraction_path` refuses. `verify` does not ask that
  question, so an archive with such a path verifies and is not extracted
  completely.

`CompressorAssumption` says of the constants that the writer's limit on the input
is not above the readers' limit on what they decode (`MAX_TOTAL_INPUT` and
`MAX_TOTAL_DECOMPRESSED` are both 8 GiB), that chunks are not empty, and that the
files of calls are sequences of units, none of them the mark for no content.

`TableOk` is the invariant of both loops of `group_files`: the groups so far and
the open one hold the files seen so far, each once, are of one type each, have
the sum of their files' sizes as their total, are within the limit unless they
hold one file, and the first file of a group would not have fitted the one before
it if they have one type. The inner loop runs over a bucket, the outer one over
the types; that a bucket lists the files of its type and the types are listed in
order comes from the rank of an element in a finite strict order (`Rank`,
`Lists`), so nothing is assumed of `sort_by` but that its order is strict and
total.

`IInv` describes the image record by record at every moment (`ImageOk`): the
record after the prefix and the table's start is the entry of its own file, with
that file's path and hash, whatever its size and range are at that time; headers
have the call's file count and point to the table or nowhere. A step leaves the
image, appends one such record, or replaces one by another for the same place
(`DiskStep`). The readers are functions of the image; the proof follows each of
them through its checks to the hash comparison, where the hash in the table is
known to be that of the input file. Nothing is assumed of the order in which the
pool finishes the groups, or of when the writer stops.

What complete images hold needs three more parts, inductive relative to `IInv`
(`PlanInvariance`, `FullInvariance`). `Plan`: the groups are `group_files` of the
call, the result of a file is its chunks or the earlier file of its group with the
same content, the cursor is within them, and the counters are what lies before it.
`Image`: after the tables come, block by block, a header, its payload and its
trailer, each block indexed at its place, then index and footer, with the count of
each; the header names the table only in an image that is complete up to it.
`Amounts`: the bytes written are at most those of the files passed, each counted
once, so at most `MaxTotalInput`, and no reader refuses the image for its size. The
tail of a stored archive may look like a footer before there is one; a reader
compares it with the header, and that has the offset zero until the footer is
written.

**`Archive_proofs`** (as general) is about finished archives:

* `ReadsBack`: if `PlainPaths` and `PathsDistinct`, every reader gives back all files
  of a finished archive (`FinishedReadsBack`) whose counts are
  `WithinReaderLimits`. The last condition is on the state, because the code
  lacks the check: the writer compares its counts with 32 bits
  (`compress.rs:352`, a listed hazard), the readers with `MAX_FILE_COUNT` and its
  companions. That the sizes are within the limits is proved;
* `LayoutKept`: `LayoutReproducible` always holds, with no further assumption.

They add three parts to the invariant.

* `Ranges`: each file behind the cursor has a range of the written blocks that are
  its own chunks in order; one whose content is that of an earlier file of its
  group has the range of that file.
* `OnDisk`: salt and dictionary are as in the call, and the tables are patched up to
  the cursor (`ArchiveInvariance`, with the parts before).
* `Layout`: the written blocks are those expected of the finished groups, then the
  files of the present group before the cursor, then the blocks of the present
  file; the blocks of each finished group, told by the group number in the index,
  are exactly those its entry names (`LayoutInvariance`).

Readers join the blocks of a range, and the chunks of a content joined are that
content (`ChunksJoined`, for any chunk size).

**`FileWriter_proofs`** (any number of calls, targets and initial trees):
`TypeCorrect`, `FilesAlwaysComplete` (`NeverPartial`), `CallsAllOrNothing`
(`AllOrNothing`), `RefusalsHaveCause` (`RefusedForCause`) and the action property
`DirsAndLinksKept` (`KeepsDirsAndLinks`). The invariant adds where each call can
be on its path (`Walk`), when its temporary file exists and is whole
(`TempFile`), and that the second look at the target is still right at the rename
as far as links go (`NoLinkAtTarget`: no call makes a link). All steps of all
calls change a node only as `Evolves` says, which carries the causes of earlier
refusals along.

**`Server_proofs`** (any requests, permits, uploads and file limit): `DirsRemoved`
(`NoDirLeft`), `UploadsKept` (`NoUploadLost`). The invariant says who owns the
temporary directory, and that the fields taken and the files of the directory,
and those of the archive or the answer together with the ones the listing passed
over, are in bijection with equal data. The search for a
free name ends on one that is not taken, whatever the counters are.

**`Frontends_proofs`** (any processes, files and command lines; any threads,
archives and allocations; encryption):

* `FilesKept`: every step satisfies `CompleteFilesKept`; `SuccessMeansReadable`:
  `SuccessReadable` always holds. `CInv` says of every file that it was made by
  commands, through any depth of archives in archives (`Made`: it is in some set
  closed under entries), with the baseline of the dictionary it names, and of every
  process what its plan promises, what it may overwrite, and what is in its output
  as long as nobody else has touched it.
  `CommandsAssumption`: initial files are data or dictionaries, and a command line
  names files.
* `HeapIsExact` (`HeapExact`) and `FailuresAreReported` (`FailuresReported`).
  `HeapExact` counts owners, and no single count is inductive: `FInv` has instead
  that each slot (a caller's variable or a last error) is the root of a tree of
  allocations, that the trees of two slots are disjoint, and that together they
  are the heap. A call changes one or two trees. `CFfiAssumption` gives the
  entries of archives as sequences.
* `SealingCorrect` (any archives, passwords, messages, damages, costs and id
  limit). `SealingSound` is about payloads that open; the invariant `SInv` says
  that damage makes no payload (`SealTyped`), that a writer's key and header belong
  to its archive (`WritersOwn`), and that every seal was made by a writer whose
  counter has passed its id (`SealsCounted`), so that no nonce comes twice, the
  last id and the metadata's included.

**`FoldInduction`** has the one rule of induction the proofs about loops need.
The library's induction theorems take an operator as a parameter, which the
provers cannot instantiate; here the loop's step and its invariant are the
module's constants, `LoopInvariant` is proved about `FoldLeft` from its
definition, by a least counterexample, and a proof that needs it takes an
`INSTANCE` for its loop. `LoopAppend` says that a loop over a longer sequence takes
one more step. The sums of `Extraction_proofs`, the buckets, groups and bytes of
`Compressor_proofs` and the strings of a list in `Frontends_proofs` use them;
`Archive_proofs` takes its least counterexamples (`LeastNat`).

Only model-checked:

* All liveness (`Ends`, `AnsweredInTime`): fairness and `ENABLED` are
  out of the prover's reach.
* The codecs' round trips. They compose loops over bytes whose results are other
  sequences (a rotation sort, hash chains, a carry); their loop invariants relate
  encoder and decoder at every position and were not attempted.

## Not modelled

* Bytes: encodings of the records and of dictionary files, the prefixed paths of
  the file table, permissions and times. A record of the archive has length one,
  so `PatchKeepsBlocks` shows that each patch goes to its own record, not that
  byte lengths of entries are summed rightly.
* `migrate` with a dictionary for the source or with different passwords for
  source and target.
* The predictors other than `Order0`: they mix floating-point weights of thousands
  of parameters. What the coder needs of them is `CdfCodesEverySymbol`, for any
  probabilities; that two builds compute the same floats is outside TLA+.
* The analyzer's table of extensions and its entropies; the estimates of byte
  planes. They steer choices the models leave free.
* `lz_preprocess.rs` and the method `LzPredictorRans`, which the router still
  reads and no longer writes; zstd, lz4, libsais, FastCDC and the cryptographic
  primitives, which are external; collisions of hashes and checksums.
* Cloud backends and URL parsing; rate limiting and headers of the server; `bench`,
  standard input and output and all text of the command line; the Python and
  WebAssembly bindings, which keep no state.
* Callers of the C interface that break its contract (freed pointers, a handle used
  by two threads).

## Plan

1. `verify` as a state machine: the sequential and the lenient parallel path find
   the same blocks.
2. The prefixed paths of the file table with their inverse; the writer at the
   readers' count limits.
3. Proofs of the codecs, beginning with `RleExact`: an invariant that relates encoder
   and decoder at every position, by `FoldInduction`.
