------------------------------ MODULE Dataset ------------------------------
(***************************************************************************)
(* The dataset directory of decibel-dataset: raw input, normalized row     *)
(* files, query files and the manifest that carries the sha256 of each, as *)
(* normalize, build-query-corpus and replay read and replace them, one     *)
(* command at a time, with a recorder that may be at work beside them.     *)
(*                                                                         *)
(* The content of a file is the generation of raw input it was computed    *)
(* from, so a sha256 is the content itself.  Every file is replaced by an  *)
(* atomic rename (atomic_write); a command that dies leaves the files it   *)
(* has not come to as they were.                                           *)
(***************************************************************************)
EXTENDS Integers

CONSTANTS
    MaxRaw,         \* how often the raw input grows (bounds the model)
    RowFiles,       \* the row files replay loads, in the order they are written
    QueryFiles,     \* the query files; the recorder writes the first one too
    Formats,        \* "protobuf" (recorded) and "fixture" raw input
    LiveRecorder,   \* does the recorder run beside other commands
    Kills,          \* may a command be killed
    MaxKills        \* how often (bounds the model)

ASSUME DatasetAssumption ==
    /\ MaxRaw \in Nat \ {0}
    /\ RowFiles \in Nat \ {0}
    /\ QueryFiles \in Nat \ {0}
    /\ Formats \subseteq {"protobuf", "fixture"}
    /\ LiveRecorder \in BOOLEAN
    /\ Kills \in BOOLEAN
    /\ MaxKills \in Nat

VARIABLES
    format,     \* of the raw input
    raw,        \* its generation, 0 while there is none
    rows,       \* the row files' contents, in order
    log,        \* normalized/parse_warnings.log, hashed but never loaded
    queries,    \* the query files' contents
    manifest,   \* manifest.json
    \* The command that runs.
    cmd,        \* "normalize", "corpus" (build-query-corpus), "replay" or "none"
    at,         \* its step
    n,          \* the next file of that step
    gen,        \* the generation it works for
    book,       \* the manifest it has read or will write
    loaded,     \* replay: the rows put into the engine
    result,     \* how the last command ended
    kills

fileVars == <<format, raw, rows, log, queries, manifest>>
cmdVars == <<cmd, at, n, gen, book, loaded, result>>
datasetVars == <<fileVars, cmdVars, kills>>

\* File contents beside a generation.
Absent == 0
Mixed == -1             \* computed from row files of several generations
Keys(r) == MaxRaw + r   \* key samples written by the recorder at generation r

Generation == 1..MaxRaw
Content == {Absent, Mixed} \cup Generation \cup {Keys(r) : r \in Generation}

NoEntries == [q \in 1..QueryFiles |-> Absent]

NoManifest ==
    [exists |-> FALSE, gen |-> Absent, rows |-> [i \in 1..RowFiles |-> Absent],
     log |-> Absent, queries |-> NoEntries]

-----------------------------------------------------------------------------
(* validate_manifest_hashes: every file the manifest names is there and    *)
(* has the recorded hash.  A fixture's raw file is overwritten in place,   *)
(* recorded chunks never are.                                              *)

Accepts_SkipsRows(m) ==
    /\ m.exists
    /\ \A q \in 1..QueryFiles : m.queries[q] # Absent => m.queries[q] = queries[q]

Accepts(m) ==
    /\ m.exists
    /\ m.rows = rows
    /\ m.log = log
    /\ \A q \in 1..QueryFiles : m.queries[q] # Absent => m.queries[q] = queries[q]
    /\ format = "fixture" => m.gen = raw

-----------------------------------------------------------------------------
DatasetInit ==
    /\ format \in Formats
    /\ raw = 0
    /\ rows = [i \in 1..RowFiles |-> Absent]
    /\ log = Absent
    /\ queries = NoEntries
    /\ manifest = NoManifest
    /\ cmd = "none"
    /\ at = "idle"
    /\ n = 1
    /\ gen = Absent
    /\ book = NoManifest
    /\ loaded = [i \in 1..RowFiles |-> Absent]
    /\ result = "none"
    /\ kills = 0

Goto(step) == at' = step /\ n' = 1

More_OneTooMany(files) == n <= files

\* The step has another file to come to.
More(files) == n < files

\* The command ends.
End(how) ==
    /\ cmd' = "none"
    /\ at' = "idle"
    /\ n' = 1
    /\ gen' = Absent
    /\ book' = NoManifest
    /\ loaded' = [i \in 1..RowFiles |-> Absent]
    /\ result' = how

-----------------------------------------------------------------------------
(* Raw input. *)

MayRecord == cmd = "none" \/ LiveRecorder

\* A recorder puts chunks in place, or the fixture file is generated again.
RecordMore ==
    /\ raw < MaxRaw
    /\ IF format = "protobuf" THEN MayRecord ELSE cmd = "none"
    /\ raw' = raw + 1
    /\ UNCHANGED <<format, rows, log, queries, manifest, cmdVars, kills>>

\* At the end of an attempt the recorder replaces queries/point_tx_versions.ndjson.
RecordKeys ==
    /\ format = "protobuf"
    /\ raw > 0
    /\ MayRecord
    /\ queries' = [queries EXCEPT ![1] = Keys(raw)]
    /\ UNCHANGED <<format, raw, rows, log, manifest, cmdVars, kills>>

-----------------------------------------------------------------------------
(* normalize: normalize_protobuf_tx_only, write_normalized_fixture_dataset *)

\* resolve_protobuf_raw_inputs lists the raw input once, at the start.
StartNormalize ==
    /\ cmd = "none"
    /\ raw > 0
    /\ cmd' = "normalize"
    /\ Goto("rows")
    /\ gen' = raw
    /\ result' = "none"
    /\ UNCHANGED <<fileVars, book, loaded, kills>>

WriteRows ==
    /\ at = "rows"
    /\ rows' = [rows EXCEPT ![n] = gen]
    /\ IF More(RowFiles) THEN n' = n + 1 /\ UNCHANGED at
       ELSE Goto(IF format = "protobuf" THEN "queries" ELSE "log")
    /\ UNCHANGED <<format, raw, log, queries, manifest, cmd, gen, book, loaded,
                   result, kills>>

\* write_query_corpus_files, of normalize and of build-query-corpus.
WriteQueries ==
    /\ at = "queries"
    /\ queries' = [queries EXCEPT ![n] = gen]
    /\ IF More(QueryFiles) THEN n' = n + 1 /\ UNCHANGED at
       ELSE Goto(IF cmd = "normalize" THEN "log" ELSE "refresh")
    /\ UNCHANGED <<format, raw, rows, log, manifest, cmd, gen, book, loaded, result,
                   kills>>

WriteLog ==
    /\ at = "log"
    /\ log' = gen
    /\ Goto("hash")
    /\ UNCHANGED <<format, raw, rows, queries, manifest, cmd, gen, book, loaded,
                   result, kills>>

Hashes_NoQueries == [exists |-> TRUE, gen |-> gen, rows |-> rows, log |-> log,
                     queries |-> manifest.queries]

\* insert_hash reads every file back from disk; a fixture's query files get no entry.
Hashes == [exists |-> TRUE, gen |-> gen, rows |-> rows, log |-> log,
           queries |-> IF format = "protobuf" THEN queries ELSE NoEntries]

HashFiles ==
    /\ at = "hash"
    /\ book' = Hashes
    /\ Goto("manifest")
    /\ UNCHANGED <<fileVars, cmd, gen, loaded, result, kills>>

\* The manifest is replaced last.
WriteManifest ==
    /\ at = "manifest"
    /\ manifest' = book
    /\ End("ok")
    /\ UNCHANGED <<format, raw, rows, log, queries, kills>>

-----------------------------------------------------------------------------
(* build-query-corpus *)

\* events.ndjson, which the corpus cannot do without, is the second file written.
EventsFile == IF RowFiles = 1 THEN 1 ELSE 2

\* What a corpus computed from the row files on disk is.
CorpusContent ==
    IF \A i \in 1..RowFiles : rows[i] = rows[1] THEN rows[1] ELSE Mixed

StartCorpus ==
    /\ cmd = "none"
    /\ rows[EventsFile] # Absent
    /\ cmd' = "corpus"
    /\ Goto("queries")
    /\ gen' = CorpusContent
    /\ result' = "none"
    /\ UNCHANGED <<fileVars, book, loaded, kills>>

RefreshedManifest_AllHashes == [manifest EXCEPT !.queries = queries, !.rows = rows,
                                                !.log = log]

\* update_manifest_query_hashes_if_present replaces the entries of the query files.
RefreshedManifest == [manifest EXCEPT !.queries = queries]

RefreshManifest ==
    /\ at = "refresh"
    /\ IF manifest.exists
          THEN /\ book' = RefreshedManifest
               /\ Goto("manifest")
               /\ UNCHANGED <<cmd, gen, loaded, result>>
          ELSE End("ok")
    /\ UNCHANGED <<fileVars, kills>>

-----------------------------------------------------------------------------
(* replay: replay_into_engine *)

StartReplay ==
    /\ cmd = "none"
    /\ manifest.exists
    /\ cmd' = "replay"
    /\ Goto("validate")
    /\ book' = manifest
    /\ result' = "none"
    /\ UNCHANGED <<fileVars, gen, loaded, kills>>

Validate ==
    /\ at = "validate"
    /\ IF Accepts(book)
          THEN Goto("load") /\ UNCHANGED <<cmd, gen, book, loaded, result>>
          ELSE End("error")
    /\ UNCHANGED <<fileVars, kills>>

LoadRows ==
    /\ at = "load"
    /\ loaded' = [loaded EXCEPT ![n] = rows[n]]
    /\ IF More(RowFiles) THEN n' = n + 1 /\ UNCHANGED at ELSE Goto("checkpoint")
    /\ UNCHANGED <<fileVars, cmd, gen, book, result, kills>>

\* The ingest checkpoint takes its counts from the manifest.
PutCheckpoint ==
    /\ at = "checkpoint"
    /\ gen' = book.gen
    /\ Goto("loaded")
    /\ UNCHANGED <<fileVars, cmd, book, loaded, result, kills>>

FinishReplay ==
    /\ at = "loaded"
    /\ End("ok")
    /\ UNCHANGED <<fileVars, kills>>

-----------------------------------------------------------------------------
\* The command is killed, or ends on an I/O error, between two files.
Kill ==
    /\ Kills
    /\ kills < MaxKills
    /\ cmd # "none"
    /\ kills' = kills + 1
    /\ End("killed")
    /\ UNCHANGED fileVars

CommandStep ==
    \/ WriteRows \/ WriteQueries \/ WriteLog \/ HashFiles \/ WriteManifest
    \/ RefreshManifest
    \/ Validate \/ LoadRows \/ PutCheckpoint \/ FinishReplay

StartCommand == StartNormalize \/ StartCorpus \/ StartReplay

DatasetNext == RecordMore \/ RecordKeys \/ StartCommand \/ CommandStep \/ Kill

DatasetSpec == DatasetInit /\ [][DatasetNext]_datasetVars

-----------------------------------------------------------------------------
(* Properties. *)

Book ==
    [exists : BOOLEAN, gen : {Absent} \cup Generation,
     rows : [1..RowFiles -> {Absent} \cup Generation], log : {Absent} \cup Generation,
     queries : [1..QueryFiles -> Content]]

\* Every variable has its type.
DatasetTypeOK ==
    /\ format \in Formats
    /\ raw \in 0..MaxRaw
    /\ rows \in [1..RowFiles -> {Absent} \cup Generation]
    /\ log \in {Absent} \cup Generation
    /\ queries \in [1..QueryFiles -> Content]
    /\ manifest \in Book
    /\ cmd \in {"none", "normalize", "corpus", "replay"}
    /\ at \in {"idle", "rows", "queries", "log", "hash", "manifest", "refresh",
               "validate", "load", "checkpoint", "loaded"}
    /\ n \in Nat \ {0}
    /\ at \in {"rows", "load"} => n <= RowFiles
    /\ at = "queries" => n <= QueryFiles
    /\ gen \in {Absent, Mixed} \cup Generation
    /\ book \in Book
    /\ loaded \in [1..RowFiles -> {Absent} \cup Generation]
    /\ result \in {"none", "ok", "error", "killed"}
    /\ kills \in 0..MaxKills
    /\ cmd = "none" <=> at = "idle"

\* A replay that completes has loaded the rows of one normalization, the one its
\* checkpoint counts: never rows that a killed normalize left half replaced.
LoadsOneNormalization ==
    at = "loaded" => \A i \in 1..RowFiles : loaded[i] = gen

\* A dataset that validates has row and query files of one generation, so that the
\* benchmark asks about the rows it has loaded.
ValidMeansCoherent ==
    Accepts(manifest) =>
        /\ \A i \in 1..RowFiles : rows[i] = manifest.gen
        /\ \A q \in 1..QueryFiles : manifest.queries[q] \in {Absent, manifest.gen}

\* Whatever was killed before, a normalize that completes leaves a dataset that
\* replay accepts, and with the newest raw input.
NormalizeRepairs ==
    [][cmd = "normalize" /\ result' = "ok" =>
         Accepts(manifest)' /\ manifest'.gen = raw']_datasetVars
=============================================================================
