---------------------------- MODULE ReadUnderIngest ----------------------------
(***************************************************************************)
(* The read-under-ingest benchmark: one thread loads the rows of a dataset *)
(* into an engine while the main thread, and then worker threads, put the  *)
(* queries of the dataset's corpus to it.  Engines is the engine and the   *)
(* loading thread (its pc "rows"); this module adds the readers, what they *)
(* read, and the run that joins them.                                      *)
(*                                                                         *)
(* A read is one step: it holds the memory engine's lock, or reads one     *)
(* snapshot of a column family.  Pacing and latencies are left out.        *)
(***************************************************************************)
EXTENDS Engines, Sorting, SequencesExt

CONSTANTS
    Iterations,     \* --iterations, --concurrency and --warmup
    Concurrency,
    Warmup,
    MultiGetSize    \* how many versions a multi-get asks for

ASSUME ReadAssumption ==
    /\ Loader = "read_under_ingest"
    /\ \A c \in Contents :
         c.kind = "fill" => c.market \in Int /\ c.id \in Int \cup {NoValue}
    /\ Iterations \in Nat \ {0}
    /\ Concurrency \in 1..Iterations
    /\ Warmup \in Nat
    /\ MultiGetSize \in Nat \ {0}

VARIABLES
    stage,      \* of the main thread: "off", "reads" or "failed"
    corpus,     \* the queries of the run's workload
    warm,       \* warmup queries that were answered
    at,         \* of every worker: the index of its next query
    asked,      \* of every index: how often it was queried
    misses,     \* queries that the workers count as errors
    putFailed,  \* has the ingest thread returned an error
    wasWhole    \* did the database hold the whole load when the run opened it

readVars == <<stage, corpus, warm, at, asked, misses, putFailed, wasWhole>>
readAndEngineVars == <<vars, readVars>>

Workers == 0..(Concurrency - 1)
Indexes == 0..(Iterations - 1)

-----------------------------------------------------------------------------
(* The query corpus, by the file of each kind of query. *)

Query(kind, of) == [kind |-> kind, of |-> of]

Versions(evs) == {e.version : e \in evs}

\* The lowest versions.
FewVersions(versions) ==
    {v \in versions : Cardinality({u \in versions : u < v}) < MultiGetSize}

QueryCorpus_OfEvents(evs) ==
    {Query("tx", v) : v \in Versions(evs)}
    \cup {Query("multi", FewVersions(Versions(evs)))}
    \cup {Query("fills_by_market", e.content.market) : e \in evs}

\* build_query_corpus: keys of scans are those of fills and of builder rows.
QueryCorpus(evs) ==
    LET fills == {e \in evs : Yields("fills", e)}
        rows == {e \in evs : Yields("builder_rows", e)}
    IN  {Query("tx", v) : v \in Versions(evs)}
        \cup {Query("multi", FewVersions(Versions(evs)))}
        \cup {Query("fills_by_market", e.content.market) : e \in fills}
        \cup {Query("fills_by_account", e.content.account) : e \in fills}
        \cup {Query(kind, e.content.builder) : kind \in {"builder", "volume"}, e \in rows}

\* A workload reads the file of one kind, or of them all.
Workloads(evs) ==
    LET all == QueryCorpus(evs)
    IN  {all} \cup {{q \in all : q.kind = r.kind} : r \in all}

-----------------------------------------------------------------------------
(* What the engines answer. *)

\* The entries of a column family below a prefix.
RocksRows(entries, family, of) ==
    {w.row : w \in {w \in entries : w.key[1] = family /\ w.key[2] = of}}

MemoryRows(m, family, of) ==
    CASE family = "fills_by_market" -> {e \in m.fills : e.content.market = of}
      [] family = "fills_by_account" -> {e \in m.fills : e.content.account = of}
      [] family = "builder" -> {e \in m.builders : e.content.builder = of}
      [] OTHER -> RocksRows(m.plain, family, of)

Rows(family, of) ==
    IF engine = "rocksdb" THEN RocksRows(rocks, family, of)
    ELSE MemoryRows(memory, family, of)

\* execute_query returns an error when nothing is found.
Misses(q) ==
    CASE q.kind = "multi" -> \E v \in q.of : Rows("tx", v) = {}
      [] q.kind = "volume" -> Rows("builder", q.of) = {}
      [] OTHER -> Rows(q.kind, q.of) = {}

RocksOrder_OldestFirst(family, e) ==
    CASE family = "fills_by_market" -> <<Time(e), e.version>> \o Id(e)
      [] OTHER -> <<Time(e), e.content.market>> \o Id(e)

\* A scan goes by the rest of the keys, where the time is turned round.
RocksOrder(family, e) ==
    CASE family = "fills_by_market" -> <<-Time(e), e.version>> \o Id(e)
      [] OTHER -> <<-Time(e), e.content.market>> \o Id(e)

\* sort_fills_recent_first, and the sort of the builder's rows.
MemoryOrder(family, e) ==
    CASE family = "builder" -> <<-Time(e)>> \o Id(e)
      [] OTHER -> <<-Time(e), e.version, e.idx>> \o Id(e)

RocksScan(entries, family, of, limit) ==
    FirstOf([e \in RocksRows(entries, family, of) |-> RocksOrder(family, e)], limit)

MemoryScan(m, family, of, limit) ==
    FirstOf([e \in MemoryRows(m, family, of) |-> MemoryOrder(family, e)], limit)

-----------------------------------------------------------------------------
Off ==
    /\ stage = "off"
    /\ corpus = {}
    /\ warm = 0
    /\ at = [w \in Workers |-> w]
    /\ asked = [i \in Indexes |-> 0]
    /\ misses = 0
    /\ putFailed = FALSE
    /\ wasWhole = FALSE

ReadInit == Init /\ Off

\* The process ends.
EndRun ==
    /\ End
    /\ stage' = "off"
    /\ corpus' = {}
    /\ warm' = 0
    /\ at' = [w \in Workers |-> w]
    /\ asked' = [i \in Indexes |-> 0]
    /\ misses' = 0
    /\ putFailed' = FALSE
    /\ wasWhole' = FALSE

\* run_read_under_ingest_bench: the engine is opened and the ingest thread is spawned.
Open(kind) ==
    /\ pc = "idle"
    /\ events # <<>>
    /\ Goto("rows")
    /\ engine' = kind
    /\ stage' = "reads"
    /\ corpus' \in Workloads(ToSet(events))
    /\ wasWhole' = (kind = "rocksdb" /\ rocks = Fresh)
    /\ UNCHANGED <<events, rocks, ckpt, final, memory, errors, faults>>
    /\ UNCHANGED <<warm, at, asked, misses, putFailed>>

Ingest ==
    /\ ~ putFailed
    /\ RocksStep \/ MemoryStep
    /\ UNCHANGED readVars

\* The ingest thread returns at the first put that fails.
IngestFails ==
    /\ Loading
    /\ ~ putFailed
    /\ Row # <<>>
    /\ engine = "rocksdb"
    /\ Fault("error")
    /\ putFailed' = TRUE
    /\ UNCHANGED <<events, rocks, ckpt, final, processVars>>
    /\ UNCHANGED <<stage, corpus, warm, at, asked, misses, wasWhole>>

\* A query of the warmup; one that misses is the end of measure_queries.
Warm ==
    /\ stage = "reads"
    /\ warm < Warmup
    /\ \E q \in corpus :
         IF Misses(q) THEN stage' = "failed" /\ UNCHANGED warm
         ELSE warm' = warm + 1 /\ UNCHANGED stage
    /\ UNCHANGED vars
    /\ UNCHANGED <<corpus, at, asked, misses, putFailed, wasWhole>>

Stride_One(w) == at[w] + 1

\* The workers deal the indexes out among them.
Stride(w) == at[w] + Concurrency

\* measure_query_worker; the access pattern picks any query of the corpus.
Ask(w) ==
    /\ stage = "reads"
    /\ warm = Warmup
    /\ at[w] < Iterations
    /\ \E q \in corpus : misses' = IF Misses(q) THEN misses + 1 ELSE misses
    /\ asked' = [asked EXCEPT ![at[w]] = @ + 1]
    /\ at' = [at EXCEPT ![w] = Stride(w)]
    /\ UNCHANGED vars
    /\ UNCHANGED <<stage, corpus, warm, putFailed, wasWhole>>

\* measure_queries joins its workers,
ReadsOver ==
    /\ stage = "reads"
    /\ warm = Warmup
    /\ \A w \in Workers : at[w] >= Iterations

IngestOver_Unjoined == TRUE

\* and the scope waits for the ingest thread, whatever measure_queries returned.
IngestOver == putFailed \/ Whole

IngestGood_Unread == TRUE

IngestGood == ~ putFailed

\* measure_read_under_ingest returns its result,
JoinIngest ==
    /\ pc = "rows"
    /\ ReadsOver
    /\ IngestOver
    /\ IngestGood
    /\ pc' = "checkpoint"
    /\ UNCHANGED <<events, rocks, ckpt, final, engine, memory, section, pos, sub, errors,
                   faults>>
    /\ UNCHANGED readVars

\* or the error of the warmup or of the ingest thread.
GiveUp ==
    /\ pc = "rows"
    /\ IngestOver
    /\ stage = "failed" \/ (ReadsOver /\ putFailed)
    /\ EndRun
    /\ UNCHANGED <<events, rocks, ckpt, final, faults>>

Checkpoint == PutCheckpoint /\ UNCHANGED readVars

\* The checkpoint's put fails.
CheckpointFails ==
    /\ pc = "checkpoint"
    /\ engine = "rocksdb"
    /\ Fault("error")
    /\ EndRun
    /\ UNCHANGED <<events, rocks, ckpt, final>>

WriteReport ==
    /\ pc = "report"
    /\ EndRun
    /\ UNCHANGED <<events, rocks, ckpt, final, faults>>

KillRun ==
    /\ pc # "idle"
    /\ Fault("kill")
    /\ EndRun
    /\ UNCHANGED <<events, rocks, ckpt, final>>

Grow == Normalize /\ UNCHANGED readVars

Thread ==
    \/ Ingest \/ Warm \/ JoinIngest \/ GiveUp
    \/ Checkpoint \/ WriteReport
    \/ \E w \in Workers : Ask(w)

ReadNext ==
    \/ Grow
    \/ \E kind \in Loaded : Open(kind)
    \/ Thread \/ IngestFails \/ CheckpointFails \/ KillRun

\* Every thread is scheduled, and the benchmark of the database is run again.
ReadFairSpec ==
    /\ ReadInit /\ [][ReadNext]_readAndEngineVars
    /\ WF_readAndEngineVars(Ingest)
    /\ WF_readAndEngineVars(Thread)
    /\ SF_readAndEngineVars(Open("rocksdb"))

-----------------------------------------------------------------------------
(* Properties. *)

ScanFamilies == {"fills_by_market", "fills_by_account", "builder"}

\* Whatever the readers met: a report is about an engine that holds the whole dataset, so
\* that its checksums are those of a replay.  A put of the ingest thread that fails, or a
\* thread that is not done, must keep it from being written.
ReportMeansLoaded ==
    pc = "report" =>
        \A family \in Families :
            RocksChecksum(Fresh, family) =
                IF engine = "rocksdb" THEN RocksChecksum(rocks, family)
                ELSE MemoryChecksum(memory, family)

\* Over a database that is loaded once more, no query of the corpus ever misses, in the
\* warmup or in a worker: the corpus is made from other files than the keys that are
\* scanned, and a put that replaces a row must not hide it
\* (docs/BENCHMARK_METHODOLOGY.md: "so query keys are hit-capable").
LoadedNeverMisses == wasWhole => misses = 0 /\ stage # "failed"

\* The workers put the query of every index once, so that the report's operations are the
\* iterations.
EveryIndexOnce ==
    pc \in {"checkpoint", "report"} => \A i \in Indexes : asked[i] = 1

\* Scans with a limit show rows equally recent in either engine, though the engines order
\* rows of one time differently and keep them under different keys; those of a market
\* also agree on the version.
ScansAgree ==
    pc = "report" /\ engine = "memory" =>
        \A family \in ScanFamilies, limit \in 1..MaxEvents :
            \A of \in {q.of : q \in {q \in QueryCorpus(ToSet(events)) : q.kind = family}} :
                LET inMemory == MemoryScan(memory, family, of, limit)
                    inRocks == RocksScan(Fresh, family, of, limit)
                IN  /\ Len(inMemory) = Len(inRocks)
                    /\ \A i \in DOMAIN inMemory :
                         /\ Time(inMemory[i]) = Time(inRocks[i])
                         /\ family = "fills_by_market" =>
                                inMemory[i].version = inRocks[i].version

\* A benchmark that is repeated passes its gate again and again, although its first run
\* over an empty database fails: the failed warmup waits for the ingest thread, which
\* leaves the database loaded for the next run.
GatePassesAgain ==
    []<>(events = <<>> \/ (pc = "report" /\ engine = "rocksdb" /\ misses = 0))
=============================================================================
