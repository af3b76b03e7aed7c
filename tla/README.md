# decibel-hotindex in TLA+

A TLA+ model of decibel-hotindex: a recorder that archives Aptos transactions, commands that turn
the archive into a dataset of rows and queries, storage engines that index the rows, a script that
publishes an index, a benchmark that compares engines, and the scripts that make a package of its
reports.  TLC checks the modules on small
instances, TLAPS proves the theorems of the modules named `...Proofs` for every value of the
constants.

    tlc -workers 2 -config MCRecorder.cfg MCRecorder     # a run
    tlapm RecorderProofs.tla                             # the proofs of a module

`PROJECT.json` lists the runs, the source lines each definition stands for, the mutants that show
that each property can fail, the hazards, the findings and the theorems.

## Inventory

Line numbers are those of `src/`; `main.rs` without a path is
`crates/decibel-dataset/src/main.rs`.

| Component | State | Operations | Talks to |
|---|---|---|---|
| Recorder: `decibel-dataset record` | chunk files, `record_checkpoint.json`, `keys/`, `queries/point_tx_versions.ndjson`; in memory: the open chunk, chunk list, byte and retry counters | launch and resume, receive, finish a chunk, finish keys, save the checkpoint, retry, give up | the Aptos gRPC stream (external) |
| Resume script: `record-mainnet-raw-resume.sh` | none but its loop | run the recorder until it exits with 0 | the recorder's exit status |
| Dataset commands: `normalize`, `build-query-corpus`, `replay`, `fixture`/`synthetic` | row files, query files, `parse_warnings.log`, `manifest.json` with the sha256 of each | replace the files one at a time, hash, validate, load | the raw directory, an engine |
| Parser: `decibel_parser.rs` | none | events to rows of seven kinds | normalize |
| Storage engines: `MemoryEngine`, `RocksDbEngine`; keys: `key.rs` | nine column families; for memory, maps and a vector | puts, gets, scans, volume, checksums | replay, benchmark, admin |
| Import script: `import-real-data.sh` | published database and checksum file, staging and backup files by process id, `active_*` variables | normalize, replay to staging, checksum, promote, clean up | the dataset commands, `decibel-admin` |
| `decibel-admin` | none | checksum, compare-checksum | a database |
| Benchmark: `decibel-bench` | worker threads, latencies, an ingest database that survives runs | serving, ingest, read-under-ingest, report, gate | engines, query files |
| Suite: `run-benchmark-suite.sh`; package gate: `check-grant-package.sh` | reports, summary | benchmark one workload after the other, summarize; judge what lies there | the benchmark, the published pair, the manifest |
| File replacement: `atomic_write`, the chunk writer | temporary files | create, write, sync, rename, sync the directory | the file system |
| Core types, configuration, address filter, API stub, isolation script | none | pure functions | |

What makes each correct, and why it is hard:

* **Recorder.**  No version is lost or listed twice, whatever is killed, interrupted or resumed.
  The chunk, the keys and the checkpoint are separate files, written one after the other; a retry
  continues from what the process remembers and from what it reads back; a byte limit spans
  retries.  A restart trusts the checkpoint when there is one and the file names when there is none.
* **Dataset.**  A replay must never mix the rows of two normalizations although they lie in
  separate files, and a dataset whose hashes are right must also be coherent although three
  commands and the recorder write its parts.
* **Import.**  The published database and its checksum file change together or not at all, with a
  trap that decides by shell variables, private files that a reused process id may meet again, and
  kills that no trap sees.
* **Engines.**  Two engines with different keys have the same checksums; a benchmark's database that
  survives kills, failed puts and partial loads is repaired by a whole load; a replay publishes a
  whole load or nothing; three puts of one fill are read in between.
* **Benchmark.**  Readers run beside an ingest; the report's gate relies on what both report.
* **File replacement.**  A file that the readers may open at any time is replaced by several system
  calls, between which a process is killed or the power fails, and its temporary name is shared by
  every process that writes it.
* **Suite and gate.**  A package is judged by files that imports, benchmarks and operators write at
  different times without a lock, reports of other benchmarks among them.  A benchmark reads the manifest, then the queries, then opens the
  database, and reads the manifest and the checksums again for its report; to open a database that
  is not there makes one.

## Plan

| Order | Module | Content | State |
|---|---|---|---|
| 1 | `RawArchive`, `Recorder` | the archive's promise; the recorder, its files, retries, kills, the script | done |
| 2 | `RecorderProofs` | invariant, safety, refinement | done |
| 3 | `Dataset`, `DatasetProofs` | files and manifest; proofs | done |
| 4 | `Import` (EXTENDS `Dataset`) | the script over the dataset commands | done |
| 5 | `Engines`, `Sorting` | rows, keys, puts, checksums, replay and ingest; rows in the order of ranks | done |
| 6 | `ReadUnderIngest` (EXTENDS `Engines`) | query corpus, gets and scans, warmup, workers, the ingest thread, the joins | done |
| 7 | `AtomicFiles` | the system calls under every replaced file, kills and losses of power | done |
| 8 | `Reads` (EXTENDS `Engines`) | volumes, decimals, orders, positions and activity scans | done |
| 9 | `Publication` | what an import promises; `Import` implements it | done |
| 10 | `Release` (EXTENDS `Import`) | suite, serving benchmark, report gate, package gate | done |
| 11 | `ImportProofs` | the pair and the trap's invariant; `Import` implements `Publication` | done |
| 12 | `EnginesProofs` | what a whole load leaves and a replay publishes; indexes, checksums; sorted rows | done |
| 13 | `ReadsProofs` (EXTENDS `EnginesProofs`) | orders, positions, activities and counts as the events have them | done |
| 14 | `ReleaseProofs` (EXTENDS `ImportProofs`) | the report gate, the quiet suite, the package | done |
| 15 | `AtomicFilesProofs` | whole files, durable writes, backed checkpoints, loud tears | done |
| 16 | `ReadUnderIngestProofs` (EXTENDS `EnginesProofs`) | reports, misses, indexes, builder rows and scans of a benchmark beside its ingest | done |

Abstract specifications: `RawArchive`, which `Recorder` implements (checked and proved), and
`Publication`, which `Import` implements (checked and proved).  For the engines the abstraction is a value and
not a machine: `Fresh` in `Engines` is the map from keys to rows that a load must leave, and `Reads`
compares the answers with the events themselves.

## The modules

### RawArchive and Recorder

`RawArchive` is what an archive promises: a set of held versions that only grows and a cursor that
never passes a version that is not held.  `Recorder` is the process with its files, and
`ImplementsArchive` is `RawArchive!Spec` under the mapping of `held` to the versions in completed
chunks and of `cursor` to the version a resumed run would start from.

| Action | Code |
|---|---|
| `Plan`, `Launch`, `LaunchRefused` | `record_command`, `load_record_resume_state`, `resolve_record_start_version` |
| `Receive`, `StreamEnds`, `StreamFails` | the loop of `record_live_transaction_stream`; the limit is tested after the chunk is full, as in the code |
| `NoChunk`, `FinishChunk`, `RefuseChunk` | `finish_active_chunk`; the rename of the temporary file is the step |
| `FinishKeys`, `WriteCorpus` | `RecordKeyWriter::finish` |
| `SaveCheckpoint` | `write_record_checkpoint` |
| `Succeed`, `GiveUp`, `Retry` | `record_live_transaction_stream_with_retries` |
| `Crash` | a kill, or an I/O error that unwinds, between any two steps |

A chunk file is the record of its first and last version, as in its name; a temporary chunk is
volatile since nothing reads one back.  A run without `--resume` over an archive that has chunks
is left out: it starts an empty list on purpose.

### Dataset

The content of a file is the generation of raw input it was computed from, so that a hash is the
content itself, and `Mixed` is what comes of row files of several generations.  `StartNormalize`,
`WriteRows`, `WriteQueries`, `WriteLog`, `HashFiles` and `WriteManifest` are `normalize` file by
file; `StartCorpus`, `WriteQueries` and `RefreshManifest` are `build-query-corpus`; `StartReplay`,
`Validate`, `LoadRows`, `PutCheckpoint` and `FinishReplay` are `replay`.  `RecordMore` and
`RecordKeys` are a recorder, or a fixture written anew.  One command runs at a time; `LiveRecorder`
says whether a recorder runs beside it.  `Kill` ends a command between any two of its steps: every
file is replaced by a rename (`atomic_write`).

### AtomicFiles

`Dataset` and `Recorder` take the replacement of a file for one step.  Here it is the system calls
that make it one: `AtomicCalls` is `atomic_write` (and `write_checksums` of `decibel-admin`, which
makes the same calls), `ChunkCalls` the writer of a chunk, which looks whether the chunk exists and
does not sync the directory.

| Action | Code |
|---|---|
| `Start` | a recorder, from what its checkpoint says, or `build-query-corpus` |
| `Create`, `Write`, `Sync`, `Rename`, `SyncDir` | the calls; a file that exists is truncated by `Create` |
| `CheckAbsent`, `RefuseChunk` | `final_path.exists()` in `ActiveTransactionChunkWriter::finish` |
| `RenameMissing` | the temporary file has been renamed by another process |
| `Kill` | a kill, or a call that fails |
| `PowerLoss` | the machine stops (external) |

The file system is a directory of names and inodes of two blocks.  A block that was not synced is
found old or new after a loss of power, each for itself.  Changes of the directory become durable
in their order, as a journal makes them, and `SyncDir` makes them so at once: `views` are the
directories that may be found.  On a file system that reorders renames `CheckpointBacked` would need
a sync of the directory after a chunk's rename, which the code does not make.  The chunks and the
checkpoint lie in one directory in the code too; the point corpus, which does not, shares the
journal.

### Import

Each command of `import-real-data.sh` that touches a file or a variable is an action, in the order
of the script: `MoveOldDb` and `KnowDb` are lines 293 and 294.  The commands it runs are the actions
of `Dataset`, which `Import` extends.  `CommandFails` is `set -e`, `Signal` an interrupt that runs
the EXIT trap, `KillScript` one that does not; `EnterTrap` to `Exit` are `cleanup_staging`.  `set -e`
holds inside the trap too: `TrapFails` is a command of it that fails and ends the script with the
rest of the trap not run (`CutOff`, exit "broken"), possibly after the `rm` that makes room for the
backup.  A `rm` of several files is one step, and what it leaves of private files a later run of
that process id removes.
`Outside` is the recorder between the imports, `ReplayByHand` and `ChecksumByHand` the operator who
replays into the published path.  A private file belongs to a process id, and ids come again.
`FreshImport` is an import with `--force-normalize --force`.  `Signal` is a step of `SignalSpec` and
`Release`, and what the operator does (`ReplayByHand`, `ChecksumByHand`, and `RenameRefused`, the rename
of a finished replay onto a path that another command has taken) of `Release`: a replay by hand parts
the pair until its checksum.  One import runs at a time.  `--skip-normalize`, `--dry-run` and the
engine `toplingdb`, which is refused, are left out.

`Publication` is what a reader of the published pair may count on: success has published both files
of the normalization that the manifest vouches for, failure has changed nothing or has published, and
a run that is cut off, or whose trap fails, leaves each file as it was, or absent, or replaced, but no database beside
another one's checksums.  `ImplementsPublication` is `Publication!Spec` with `source` the manifest's
generation and the pair that a running import found in the place of what it is changing.

### Engines

A dataset is a sequence of events; `Yields` says which of the seven row files has a row for one
(the parser), `Sections` the order in which they are loaded, `Writes` the puts of a row with their
keys.  A row is written as its event, since it carries the event's version and index.  An event
that lacks the market or account its row needs is of the kind `unknown`; a subaccount is part of
the account.

| Action | Code |
|---|---|
| `Normalize` | the dataset has grown by a transaction and is normalized again |
| `Start` | `RocksDbEngine::open` or a new `MemoryEngine`, `IngestRows::load`; a replay refuses a path where a database lies |
| `RemovePublished` | the operator removes that database, as the refusal advises (external) |
| `RocksStep` | one `put_cf`; `put_fill` is three of them |
| `MemoryStep` | a put of `MemoryEngine`, atomic under its lock |
| `EndWarmup`, `EndRows` | `warmup_ingest`, `measure_ingest`, or the rows of `replay_into_engine` |
| `PutFails` | a put, or the flush of a replay, returns an error: counted by `measure_ingest`, the end of everything else |
| `PutCheckpoint`, `Report` | `put_checkpoint_from_manifest`, the checksums; a replay renames its staging directory to the published path |
| `Kill` | the process dies |

`Loader` is the program that puts the rows.  The ingest benchmark (`Bench`) opens the database that
earlier runs have left, and its `--warmup` and `--iterations` may end before the last row; the
database keeps what was put, whatever ends the run.  A replay (`Staged`,
`replay_rocksdb_materialized`) refuses a path that is taken, loads a staging directory of its own
and publishes it (`final`) when it is complete; an error removes the directory, and a kill leaves it
under the name of that process (`Abandon`), where only a process of that id meets it, and refuses.
The third loader is the ingest thread of `ReadUnderIngest`.  `Fresh` is what a load into an empty
database leaves, and `FreshOf(n)` what a load of the first `n` events does.

### Reads

What the engines answer beyond the scans of the query corpus, evaluated wherever a replay has put
its rows and checkpoint, of the database that it is about to publish (`PublishedWhole` says that what
it publishes is the same): there are no actions here.  `Add`, `Shown` and `Wrapped` are `DecimalAccumulator`, whose integers
wrap around in a release build; `Volume` is `get_builder_code_volume` over the rows in the order the
engine yields them, with the window (`Recent`) that ends at the latest row or checkpoint, whose time
is the latest of the dataset (`LastTime`); `GetOrder`, `GetPositions` and `ScanActivity` are the reads
of both engines, with the order of the RocksDB key and that of the memory engine's sort.  The order is
that of `Sorting`, which `ReadUnderIngest` shares: `Before` compares two ranks field by field, `Sorted`
puts rows where as many come before them as their place says, and `FirstOf` is a scan with a limit.
`VolumeCounts` (which fills a volume is about), `VolumeExact` (their sums) and `LatestIsRead` compare
the answers with the events.  A text that is no decimal, or has more digits than the integers hold, is skipped without a
word, and the properties say so; a sum whose units do not fit is excepted, as no check in the code
excludes it.  The two reads of a volume (rows, then checkpoint) are one step, since no class of the
benchmark asks for volumes of a database that is being loaded and looks at the numbers.

### ReadUnderIngest

The benchmark class that reads while it loads.  The ingest thread is the loader of `Engines` (`pc`,
`section`, `pos`, `sub`); `stage` and `warm` are the main thread in its warmup, `at` the loop
variables of the workers.  `QueryCorpus` is `build_query_corpus`, `Misses` what `execute_query`
calls an error, `RocksOrder` and `MemoryOrder` the orders in which the two engines scan, as ranks for
`Sorting`.

| Action | Code |
|---|---|
| `Open` | `run_read_under_ingest_bench` opens the engine and spawns the ingest thread |
| `Ingest`, `IngestFails` | `IngestRows::replay_limit` in that thread, which returns at the first error |
| `Warm` | one warmup query, in the main thread; a miss is returned by `?` |
| `Ask` | one query of a worker, whose misses are counted |
| `JoinIngest`, `GiveUp` | the end of `thread::scope`: it waits for the ingest thread in either case |
| `Checkpoint`, `CheckpointFails`, `WriteReport`, `KillRun`, `Grow` | as in `Engines` |

A read is one step: the memory engine is locked for it, an iterator of RocksDB has a snapshot, and
of a volume, which reads rows and then the checkpoint, the benchmark only sees whether there are
rows.  The access pattern is any choice of a query.  Markets and ids are numbers here, since keys
are compared.

### Release

The suite, the serving benchmark it runs for each workload, and the package gate, over `Import` with
all its commands.  A report is what it names: the generation of the query file it asked, of the
manifest whose hash it carries, and of the database that answered.

| Action | Code |
|---|---|
| `StartSuite`, `RunOne`, `Summarize` | `run-benchmark-suite.sh` as a publishable candidate: its checks, one benchmark after the other, the summary |
| `BenchByHand` | the same benchmark run by an operator, who states the checksum status |
| `BenchElsewhere` | a benchmark of another class, workload or backend leaves a report that passes or fails (`other`) |
| `ReadCorpus` | `validate_benchmark_dataset`, then `run_serving_bench`: the workload's rows (`Supports`), `validate_query_corpus_hash`, the query file, which must not be empty (`HasQueries`) |
| `OpenDatabase` | `RocksDbEngine::open`, which creates what is missing (`Empty`) |
| `Measure` (`Report`, `NoResult`) | `measure_queries`, `build_report`, the write of the report, the gate |
| `KillSuite` | an interrupt of the suite, which has no trap |
| `ChecksumOfNothing` | `decibel-admin checksum` of a path where there is no database: it makes one |
| `Others` | any step of `Import`: imports and their signals, recordings, an operator's replays and checksums |

One benchmark runs at a time and no checksum of the database that is being measured succeeds, for
RocksDB locks its directory; a database that is renamed stays open.  Which rows a normalization counts
and which query files are empty are constants: `Rowless` are the generations whose manifest has none of
the events, fills or builder rows that a workload requires (`ensure_serving_workload_supported`),
`Queryless` the contents of a query file that hold no query.  A dataset is `Complete` when neither
stands in the way of any workload; the suite ends without a summary over any other.  Whether a query misses is decided
by `MayMiss`: queries made from a database's rows find them (`LoadedNeverMisses`), an empty database
misses, otherwise either.  Reports that do not pass are all `Failing`.  Of the report gate and the
package gate (`PackageGate`) what files and database decide is modelled; the environment fields are
taken to be filled in.  The gate judges every `reports/bench-*.json`, so a failing report that no
suite replaces stands in the way of every package (`NoOtherFails`).

## The runs

| Run | Shows |
|---|---|
| `recorder` | with crashes, stream errors, early ends and all chunk sizes: `CheckpointSound` (the checkpoint's chunks are on disk and split the versions below the cursor), `NormalizesUnlessOrphaned`, `OnlyCrashOrphans`, `CursorNeverMovesBack`, `ByteBudget`, `QueryKeysStored`, `ImplementsArchive` |
| `recorder_live` | with stream errors and kills: the range is archived unless a kill orphaned a chunk (`ArchivedUnlessOrphaned`), and without kills the script's loop ends (`ScriptSucceeds`) |
| `recorder_crash` | finding 1 |
| `dataset` | kills between all files: `LoadsOneNormalization`, `ValidMeansCoherent`, `NormalizeRepairs` |
| `import` | errors, of the trap too, and kills, two process ids, every option: `MatchedPair`, `ImplementsPublication`, and with `--force-normalize --force` repeated `ImportCatchesUp` |
| `import_signal` | finding 2 |
| `engines` | the benchmark's database, with partial runs, kills and failed puts: `RerunIsFresh`, `IndexesAgree` |
| `engines_replay` | replays of every event kind into either engine (`MCReads`): `PublishedWhole`, `SameChecksums`, and of the result `VolumeCounts`, `VolumeExact`, `LatestIsRead`; repeated after the removal of what they refuse, `ReplaysCatchUp` |
| `read_under_ingest` | readers beside the ingest thread, over databases left by earlier runs: `ReportMeansLoaded`, `LoadedNeverMisses`, `EveryIndexOnce`, `ScansAgree`, `BuilderHasFill`, `GatePassesAgain` |
| `engines_warmup` | finding 3: `SameChecksums` for the benchmark |
| `atomic_files` | kills and a loss of power at every system call, two writers of one file: `NeverInPart`, `SuccessIsDurable`, `CheckpointBacked`, `TornIsLoud` |
| `release` | the suite beside imports, replays, checksums and benchmarks by hand, with signals, over a first generation that lacks the rows of one workload and a second that is complete: `GatedReportServedRows`, `QuietSuiteIsOneDataset`, `QuietSuiteMakesPackage` |

### Bounds

* Recorder: four versions, chunks of one to three, a byte limit of five with transactions of one or
  two bytes, one retry a process, four faults.  Four versions give three chunks, the least for which
  an orphan can lie between two listed ones; chunk sizes that differ between runs are what makes an
  orphan overlap; the limit is met inside, at the end of and after a chunk and across a retry.
* Dataset: three generations, two row files, two query files, three kills.  Two files are the least
  that can differ; three generations let a stale file meet two later ones.  The proofs have no such
  bound.
* Import: one row and one query file (their interleaving is `Dataset`'s), two generations, two
  process ids so that an id is reused or not, two faults so that a command of the
  trap fails after one of the script has (`CommandFails`, then `TrapFails`).
* Engines: two events, in one transaction or in two of one timestamp, and one fault.
  `FewContents` has rows that overwrite each other (an order id, a position) and fills with and
  without an id; `AllContents` has every kind, and fills that differ in one segment of their keys.
  A key's history is a sequence of puts of which only the last two can matter to a property; with
  three events (`MaxEvents = 3`) the replays of `Engines` pass too, in a few minutes.
* Reads: two events in one window or in two, values of different scales, one that is no number and
  one that is absent.  `MaxUnits` holds every sum of the fills of one transaction and not the one of
  two, whose units wrap around: the property must hold beside its exception.
* AtomicFiles: two chunks, so that a checkpoint that names one is replaced by one that names two; a
  recorder and a `build-query-corpus` that share the point corpus, with a file of two blocks beside
  one of one block, the least that can be mixed; three starts, so that each finds what another left;
  one kill and one loss of power.  There are inodes enough for every file that the starts can make
  (`MaxInodes`).  The run stops when the starts are used up.
* Release: two workloads, the least for which reports can differ, with a query file each; two
  generations, of which the first has no rows and no queries for the second workload, so that a suite
  ends half way; one benchmark by hand, of the first workload or of another class, and one signal.  Commands do not fail and are not killed here, since `import` covers what they
  leave and an empty database or a half promotion comes from the signal and from the races alone.  A
  `VIEW` leaves out what no step reads again.
* ReadUnderIngest: two events, so that a scan meets rows of one time (one transaction) and of two;
  fills of one builder and an order whose market has none; two workers that put one query
  each, one warmup query, one fault.  Misses are independent of each other, so a second query of a
  worker adds none but to `EveryIndexOnce`, which passes with `Iterations = 5` and one event too.

### Fairness

`Recorder!Fairness`: a running recorder is scheduled and its stream delivers, fails or ends (the
keep-alive of the channel ends a silent one), and the script starts the recorder again
until it exits with 0, which is its loop.  `ImportFairSpec`: a run of the script proceeds and an
operator imports again with `--force-normalize --force`, however many other imports come in between
(strong fairness of `FreshImport`).  `Engines!FairSpec`: a running process is scheduled, and an operator
removes the database that a replay has refused and replays again, however often other loads come in
between, hence strong fairness.  `ReadFairSpec`: the
ingest thread and the readers are each scheduled, and the benchmark of the database is run again.  Faults are never fair
and bounded in number.

## What is proved

`RecorderProofs`, from the assumptions on the constants in `Recorder` (a range, positive chunk
sizes, byte sizes and limit), proves the theorems listed under `theorems` in `PROJECT.json`.
`CheckpointSound` alone is not inductive: a checkpoint is saved from the process's list.  The
invariant `IInv` adds what a running process knows (`ListSound`: its list is on disk, splits the
versions up to the open chunk and differs from the checkpoint's only between a chunk's rename and
the save), that the chunk names chain while there is no checkpoint (`NamesChain`, so that a resume
that reads the names is right too), that without orphans the key files lie behind the attempt
(`KeysBehind`, so that no key file is refused without a kill), and that a stream goes on only
below the byte limit (`BytesLeft`).  `NormalizesUnlessOrphaned` follows since a set of chunks that
splits a range has names that chain.  The refinement needs, for each step, that `held` only grows
and that the cursor moves no further than what is held.

`DatasetProofs` proves that a replay loads one normalization, for any number of files, kills and
generations, both raw formats, and with a live recorder.  The invariant says how far the running
command has come (which files are already of its generation), that a manifest whose row hashes match
the files vouches for rows of one generation, and that a replay's loaded prefix is what it
validated.  `ValidationCorrect` and `NormalizeCorrect` assume that no recorder is live: with one,
the recorder may replace the key corpus between normalize's write and its hash.

`ImportProofs`.  `MatchedPair` is about the published pair, and what the trap restores comes from
private files: the invariant `ImportInv` says, for each step of the script, which of staging, backup
and published place holds a database or a checksum, whose they are, and whether the `active_*`
variables tell the trap to put an old file back.  `Promoted` and
`Restoring` are the heart of it: on the way forth and on the way back, each of the two files is where
it was, or away with its backup known to the trap, or the new one, and never two of these at once.
`PublicationImplemented` maps four steps to steps of `Publication` (`WriteManifest`, `Exit`, and
`KillScript` and `TrapFails`, each case with a lemma) and all others to stutters.  Both are about
`ImportSpec`, which has no `Signal`: with one `MatchedPair` does not hold (findings).  No constant is assumed but what `Import` and `Dataset` say of their own.

`EnginesProofs`.  `RerunIsFresh` is about the end of a load; the invariant `EnginesInv` says it of
every moment.  `LoadPart`: while no put has failed, the database has, under every key of the puts
that lie behind (`Done`), the last of them, whatever earlier loads have left under keys that are
still to come.  `DatabasePart`: it holds a key once, only rows the dataset has, and of the row that is
being put the puts so far.  `RerunIsFresh` needs no
assumption.  `IndexesAgree` is about the RocksDB entries of a fill and assumes `UniqueFills`: two
fills of one id in one transaction share a key in one index and not in the other.
`PublishedWhole` is about the loader that stages (`Staged`).  What it publishes is what a whole load
of the dataset of that moment leaves, and that does not change as the dataset grows: the rows of the
first events keep their numbers, and so their puts (`FreshOfStays`).  `BuilderHasFill`
is proved in `ReadUnderIngestProofs`, of a load that stops at a put that fails; a benchmark counts
the failure and goes on.

`SameChecksums`, in the same module.  A memory engine after a whole replay and a database loaded from the same rows
have, family by family, the same set of rows and the same number of entries.  The rows that memory
keeps in a vector or under another key are shown to be as many by a bijection (fills by their id,
activities by their account, market and place), from `HoldsLast` and from the order of the events
in a dataset (`InOrder`).  It assumes what `SameChecksums` needs in the code: `UniqueFills`, and no
warmup (finding 3).

Sorted rows, in the same module, for `ReadsProofs` and `ReadUnderIngestProofs`.  The definition of
`Sorted` by a choice says nothing of what is chosen until there is something to choose: that in a
finite set whose ranks are pairwise comparable, for each place there is exactly one member that
so many come before, is shown by counting, without an induction over sequences.  `VersionsPart`, an
invariant of its own, says that versions count from 1, so that every event has a time.

`ReadsProofs`.  A table holds under each key its last put (`LoadPart`), and the memory engine's maps
likewise; the order of the row files makes this the newest event about an order or a position
(`PositionsAreLatest`), and `Sorted` the markets' order.  For activities the two engines differ: the
database has one entry for each event of a market, by `ActivityKey`; the memory engine has them in a
vector, by place, and what is sorted are places.  Both ranks begin with the time, so what a scan with a
limit leaves out is no more recent than what it returns (`FirstAreRecent`, `RocksActivity`,
`MemoryActivity`).  `VolumeCounts` rests on `BuilderRowsAre` (the builder's rows are its fills, in
either engine and any order) and on the window: the checkpoint carries the latest time of the whole
dataset, hence the maximum over rows and checkpoint is that time, and the saturating subtraction loses
no row since times are positive.  Both theorems assume `UniqueFills` and a loader other
than the benchmark (`~ Bench`), as the run does, and of the constants that markets are numbers and times
positive (`ReadsAssumption`).

`ReleaseProofs`.  The steps of `Release` are shown to do to the dataset directory no more than the
commands of `Dataset` do (`DirectorySteps`), so that the dataset's invariant carries over;
`ManifestsAreWhole` adds which entries a manifest has.  `DatabasesPart` says that a database may be
the empty one wherever an import has moved it, and that a benchmark that measures has one open;
`GatedReportServedRows` is inductive beside it.  `AlonePart` is what a suite knows that has the directory to itself:
each report it has written names the generation that is still published.  `QuietSuiteIsOneDataset`
and `QuietSuiteMakesPackage` assume that no recorder is live, since a recorder changes the key
corpus that a report's hash is of; and the package assumes recorded raw input (`Formats`), as the
query files of a fixture have no entry in its manifest and the gate asks for one.  Two conditions are in
the property itself.  The dataset is `Complete`: it has an event, a fill and a builder row, and every query
file a query, or a benchmark refuses to start (bench main.rs:230-236).  And no report that was
measured elsewhere fails (`NoOtherFails`), as the gate judges every bench-*.json it finds; without that
the suite's own reports pass, and the package may still be refused.

`AtomicFilesProofs`, for any number of recorders and other writers, chunks, kills and losses of
power. A file is sound when all its blocks are stable and one process has written them. Soundness in
every directory that may be found is what the properties are about, and it depends on what is on its
way there: `AlonePart` says what a process knows that has been alone with its file, namely that the
temporary name is still the file's, that nobody else has written it, and that it is stable when the
process comes to the rename. `LoudPart` is the argument that needs care. Several processes that
share a temporary name may write into one inode; the first rename takes the name away, and the next
process that creates it gets an inode of its own or truncates the one that others have open. While
no writer has failed, the only one that has still to rename its file, if the temporary file is
there, has written it alone; so what the last rename puts in place is sound, and to all others the
temporary file is missing, which is loud. `ListsPart` is about checkpoints that are torn between two
recorders: each block names chunks that the directories it can be found in all have, because a
chunk's rename comes before the checkpoint's and changes become durable in order. It assumes
what `AtomicFiles` does: files of one or two blocks, and no process called "final", which is a mark
in the model's names.

`ReadUnderIngestProofs`, for any number of workers, iterations and warmup queries.  To the engine a
step of the benchmark is one of a replay, but for a run's beginning, its giving up and a put that
fails (`EngineStep`); so `EnginesInv` and the memory engine's `ReplayPart` carry over, and
`ReportMeansLoaded` follows, under `UniqueFills` as for `SameChecksums`.  `LoadedNeverMisses` cannot
rest on `rocks = Fresh`, which a second load breaks while it puts an older row over a newer one.
`ReadersPart` therefore keeps what is enough for every query: the database has an entry under every
key (`AllKeys`), and every transaction a first event (`FirstPart`).  That `Fresh` has all keys needs
the last of the puts of a key (`LastPut` in `EnginesProofs`), by the well-foundedness of the numbers.  `DealPart` says that
a worker has asked once for each index of its stride behind it; `DealtOnce` and `SomeoneHasIt`,
that strides are disjoint and leave no index out.  `ScansAgree` compares two sorted lists of the same
rows that break ties by different fields: two orders that refine one coarser rank have the same coarse
rank in every place (`OrdersAgree`, by counting the members before a place), hence equally recent rows
up to every limit.  `BuilderHasFill` holds under the
readers since no put but the next one of the row files' order is ever made.  All theorems rest on
`ReadAssumption`, that the loader is `read_under_ingest`; those on `ReportMeansLoaded`,
`BuilderHasFill` and `ScansAgree` assume `UniqueFills` besides.

Every inductive invariant has been checked by TLC on the run's instance before it was proved.

Only model-checked: `VolumeExact` of `Reads`, whose sums are folds, recursion over data, of numbers
aligned by powers of ten, of which the provers know nothing; the steps of `Signal` (`SignalSpec`); and every liveness property, which is out of the
prover's reach.

## Findings

1. `recorder_crash`: a kill between a chunk's rename (main.rs:1253) and the checkpoint makes every
   `--resume` end in "refusing to overwrite existing raw chunk", against docs/REAL_DATA_PREP.md:50.
2. `import_signal`: a signal between lines 293 and 294 of the import script leaves nothing
   published, and its database under a hidden name.
3. `engines_warmup`: a warmup doubles the memory engine's activities, and its checksum fails.

The models show more, which a change of one constant brings out:

* `MCRecorder.cfg`, `Contiguous(chunks)` as an invariant: after the kill of finding 1 a chunk with
  other bounds may overlap the unlisted one, and the raw directory no longer normalizes.
* `MCRecorderLive.cfg` with `"end"` among the faults: a stream that ends early, or a byte limit,
  counts as success, and the script's loop ends with the range not recorded.
* `ScriptSucceeds` without its condition: a recorder that is killed after its last checkpoint is
  restarted for ever, since `--resume` over a complete archive is an error.
* `MCImport.cfg` with `ForceNormalize = {FALSE}`: an import keeps replaying the first
  normalization and exits with 0.
* `MCReads.cfg` with `UniqueFills = FALSE`: two fills with one fill id are one row in
  memory and two in the database, and `SameChecksums`, `VolumeCounts`, `VolumeExact` and, added to
  the list, `BuilderHasFill` fail.  (`MCReadUnderIngest.cfg` has fills without an id only.)
* `MCDataset.cfg` with `LiveRecorder = TRUE`: `ValidMeansCoherent` and `NormalizeRepairs` fail.
* `MCReadUnderIngest.cfg` with `misses = 0` as an invariant: a benchmark over an empty engine, which
  the memory engine always is, fails or passes by the race of its first queries with the first puts.
* `MCRelease.cfg`, `QuietSuiteMakesPackage` without `Complete`: a suite over a normalization that has no
  fill or no builder row ends without a package, as the test `mixed_dashboard_requires_real_decibel_rows`
  (bench main.rs:2355) expects of a benchmark.
* `MCImportSignal.cfg`, `MatchedPair` as an invariant: a signal between lines 304 and 306 of the import
  script makes the trap put the old database back beside the new checksums.  They stay if there was
  no old checksum file to restore (with `"kill"` among two faults, one of which left none).
* `MCRelease.cfg`, the manifests that passing reports name (`named`) compared: `PackageGate` holds with
  reports of two normalizations, although docs/GRANT_PACKAGE_CHECKLIST.md:21 says "every benchmark report
  references the same dataset id and query corpus hash"; no line of the script compares them.
* `MCRelease.cfg`, `named = asked` or `named = served` for passing reports: a normalize during the
  measurement changes the manifest whose hash the report takes, and even a quiet suite may measure an
  older normalization's database, since the gate compares checksums with the database and never with
  the manifest.
* `MCRelease.cfg`, `pc = "idle" /\ exit = "ok" => db # Empty`: a benchmark that opens the published path between
  lines 293 and 301 of the import script makes a directory there, into which `mv` moves the new
  database; the import reports success over an empty one.

## What is not modelled

`stats`, which estimates, and `compact_all` and `flush_all`, which leave the content alone; latencies,
pacing and the environment fields of reports; the layout of reports and summary; the text of rows,
keys and files; the protobuf and zstd encodings; configuration, addresses and command lines; the API
stub; the isolation script; the suite's other classes and `--allow-failures`.  Two imports at once
and two recorders of one directory at once are not modelled, nor are two dataset commands at once
but for the files they share in `AtomicFiles`: nothing in the code excludes them, and the hazards name
what they would break.  The report of a benchmark is written in place, without `atomic_write`; a
reader of half a report is not modelled.
