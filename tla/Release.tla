------------------------------ MODULE Release ------------------------------
(***************************************************************************)
(* From a published database to a package: run-benchmark-suite.sh runs the *)
(* serving benchmark of decibel-hotindex-bench for one workload after the  *)
(* other and summarizes, check-grant-package.sh judges what lies in the    *)
(* dataset directory.  Imports, replays, checksums and benchmarks by hand  *)
(* may come in at any point: nothing locks the directory.                  *)
(*                                                                         *)
(* A report names the generations it is about: the query file it asked,    *)
(* the manifest it carries the hash of, and the database that answered.    *)
(* The suite runs as a publishable candidate, without --allow-failures.    *)
(***************************************************************************)
EXTENDS Import

CONSTANTS
    Workloads,      \* how many
    Rowless,        \* <<g, w>>: the manifest of generation g counts none of the rows
                    \* (events, fills, builder-code rows) that workload w requires
    Queryless,      \* <<c, q>>: query file q, when its content is c, has no query
    ByHandWorkloads,    \* the workloads that are also run by hand
    MaxByHand       \* how often (bounds the model)

ASSUME ReleaseAssumption ==
    /\ Workloads \in Nat \ {0}
    /\ Rowless \subseteq Generation \X (1..Workloads)
    /\ Queryless \subseteq Content \X (1..QueryFiles)
    /\ ByHandWorkloads \subseteq 1..Workloads
    /\ MaxByHand \in Nat

VARIABLES
    suite,      \* the workload the suite has come to, 0 when it does not run
    bench,      \* the benchmark process
    reports,    \* reports/bench-rocksdb-serving-<workload>.json
    other,      \* the reports of other classes and workloads beside them, by backend:
                \* "none" is there, all "pass", or one would "fail" the package
    summary,    \* does reports/BENCHMARK_SUMMARY.md exist
    quiet,      \* has no other command done anything since the suite began (history)
    byHand

releaseVars == <<suite, bench, reports, other, summary, quiet, byHand>>
allVars == <<vars, releaseVars>>

Empty == -2         \* a database that RocksDbEngine::open has created
NoReport == [gate |-> "none"]
Failing == [gate |-> "fail"]
Passing(asked, named, served) ==
    [gate |-> "pass", asked |-> asked, named |-> named, served |-> served]

Backends == {"rocksdb", "memory"}

Off == [at |-> "off", w |-> 0, status |-> "none", asked |-> Absent, served |-> Absent]

ReleaseInit ==
    /\ ImportInit
    /\ suite = 0
    /\ bench = Off
    /\ reports = [w \in 1..Workloads |-> NoReport]
    /\ other = [b \in Backends |-> "none"]
    /\ summary = FALSE
    /\ quiet = FALSE
    /\ byHand = 0

FilesOnly == UNCHANGED <<datasetVars, importVars>>

Busy == bench.at # "off"

-----------------------------------------------------------------------------
(* The suite. *)

StartSuite ==
    /\ suite = 0
    /\ manifest.exists
    /\ suite' = 1
    /\ quiet' = (pc = "idle" /\ cmd = "none" /\ ~ Busy)
    /\ FilesOnly
    /\ UNCHANGED <<bench, reports, other, summary, byHand>>

\* run_one_benchmark; resolve_expected_checksum takes the checksum file if there is one.
RunOne ==
    /\ suite \in 1..Workloads
    /\ ~ Busy
    /\ IF db # Absent
          THEN /\ bench' = [Off EXCEPT !.at = "ask", !.w = suite,
                            !.status = IF sum # Absent THEN "expected" ELSE "not_run"]
               /\ UNCHANGED suite
          ELSE suite' = 0 /\ UNCHANGED bench
    /\ FilesOnly
    /\ UNCHANGED <<reports, other, summary, quiet, byHand>>

Summarize ==
    /\ suite = Workloads + 1
    /\ summary' = TRUE
    /\ suite' = 0
    /\ FilesOnly
    /\ UNCHANGED <<bench, reports, other, quiet, byHand>>

-----------------------------------------------------------------------------
(* The benchmark. *)

\* By hand, with --checksum-status pass; the directory of the database is not looked for.
BenchByHand ==
    /\ byHand < MaxByHand
    /\ ~ Busy
    /\ byHand' = byHand + 1
    /\ \E w \in ByHandWorkloads :
        bench' = [Off EXCEPT !.at = "ask", !.w = w, !.status = "pass"]
    /\ quiet' = FALSE
    /\ FilesOnly
    /\ UNCHANGED <<suite, reports, other, summary>>

\* A benchmark of another class or workload, or of the memory engine, writes its report,
\* over an earlier one or beside it.
BenchElsewhere ==
    /\ byHand < MaxByHand
    /\ manifest.exists
    /\ byHand' = byHand + 1
    /\ \E b \in Backends, gate \in {"pass", "fail"} : other' = [other EXCEPT ![b] = gate]
    /\ quiet' = FALSE
    /\ FilesOnly
    /\ UNCHANGED <<suite, bench, reports, summary>>

ByHand == bench.status = "pass"

\* The command exits: set -e ends the suite unless the report passes.
Return(passes) ==
    /\ bench' = Off
    /\ suite' = IF ByHand THEN suite ELSE IF passes THEN suite + 1 ELSE 0

BenchEnds ==
    /\ Return(FALSE)
    /\ UNCHANGED reports

\* The query file of a workload; two names of the mixed dashboard share the last one.
Corpus(w) == IF w < QueryFiles THEN w ELSE QueryFiles

Serveable_Unvalidated(w) == manifest.exists

\* ensure_serving_workload_supported
Supports(w) == <<manifest.gen, w>> \notin Rowless

HasQueries(w) == <<queries[Corpus(w)], Corpus(w)>> \notin Queryless

\* validate_benchmark_dataset, and the guards of run_serving_bench in their order:
\* rows of the workload, the hash of the query file (validate_query_corpus_hash), a query.
Serveable(w) ==
    /\ Accepts(manifest)
    /\ Supports(w)
    /\ manifest.queries[Corpus(w)] # Absent
    /\ HasQueries(w)

\* The manifest is validated and the query file read.
ReadCorpus ==
    /\ bench.at = "ask"
    /\ IF Serveable(bench.w)
          THEN /\ bench' = [bench EXCEPT !.at = "open", !.asked = queries[Corpus(bench.w)]]
               /\ UNCHANGED <<suite, reports>>
          ELSE BenchEnds
    /\ FilesOnly
    /\ UNCHANGED <<other, summary, quiet, byHand>>

Opened == IF db = Absent THEN Empty ELSE db

\* RocksDbEngine::open creates what is missing.  The benchmark keeps the database it
\* has opened, though the directory be moved.
OpenDatabase ==
    /\ bench.at = "open"
    /\ bench' = [bench EXCEPT !.at = "measure", !.served = Opened]
    /\ db' = Opened
    /\ UNCHANGED <<datasetVars, sum, privateVars, pc, runVars, flagVars, status, exit,
                   into, faults, suite, reports, other, summary, quiet, byHand>>

\* Queries made from the rows of a database find them there (LoadedNeverMisses); made
\* from other rows they may.
MayMiss == {missed \in BOOLEAN :
    /\ bench.served = Empty => missed
    /\ bench.served = bench.asked => ~ missed}

\* build_checksum_report
Status ==
    IF bench.status # "expected" THEN bench.status
    ELSE IF sum = bench.served THEN "pass" ELSE "fail"

GatePasses_IgnoresErrors(missed) == Status = "pass"

\* report_gate_failures, as far as files and database decide it
GatePasses(missed) == ~ missed /\ Status = "pass"

Filed_OnePath(report) == [reports EXCEPT ![1] = report]

Filed(report) == [reports EXCEPT ![bench.w] = report]

\* measure_queries and build_report, which reads the checksum file and hashes the
\* manifest only now; the report is written before its gate is enforced.
Report(missed) ==
    /\ bench.status = "expected" => sum # Absent
    /\ reports' = Filed(IF GatePasses(missed)
                        THEN Passing(bench.asked, manifest.gen, bench.served)
                        ELSE Failing)
    /\ Return(GatePasses(missed))

\* A query of the warmup misses, or the checksum file has gone.
NoResult(missed) ==
    /\ missed \/ (bench.status = "expected" /\ sum = Absent)
    /\ BenchEnds

Measure ==
    /\ bench.at = "measure"
    /\ \E missed \in MayMiss : Report(missed) \/ NoResult(missed)
    /\ FilesOnly
    /\ UNCHANGED <<other, summary, quiet, byHand>>

\* The suite and its benchmark are interrupted: they have no trap.
KillSuite ==
    /\ suite # 0
    /\ Fault("signal")
    /\ suite' = 0
    /\ bench' = IF ByHand THEN bench ELSE Off
    /\ UNCHANGED <<datasetVars, publicVars, privateVars, pc, runVars, flagVars, status,
                   exit, into, reports, other, summary, quiet, byHand>>

-----------------------------------------------------------------------------
(* The other commands. *)

\* decibel-admin checksum of a path where nothing is: it too opens the database.
ChecksumOfNothing ==
    /\ pc = "idle"
    /\ cmd = "none"
    /\ db = Absent
    /\ db' = Empty
    /\ sum' = Empty
    /\ UNCHANGED <<datasetVars, privateVars, pc, runVars, flagVars, status, exit, into,
                   faults>>

Beside ==
    /\ quiet' = FALSE
    /\ UNCHANGED <<suite, bench, reports, other, summary, byHand>>

ImportStep == ImportNext /\ Beside

ImportInterrupted == Signal /\ Beside

ReplayStarts == ReplayByHand /\ Beside

ReplayRefused == RenameRefused /\ Beside

\* A database is open in one process: a checksum of the one that is measured fails.
Locked == bench.at = "measure" /\ bench.served = db

ChecksumWritten == ~ Locked /\ ChecksumByHand /\ Beside

NothingChecksummed == ChecksumOfNothing /\ Beside

Others ==
    \/ ImportStep \/ ImportInterrupted
    \/ ReplayStarts \/ ReplayRefused \/ ChecksumWritten \/ NothingChecksummed

SuiteStep == RunOne \/ Summarize \/ ReadCorpus \/ OpenDatabase \/ Measure

ReleaseNext ==
    Others \/ SuiteStep \/ StartSuite \/ BenchByHand \/ BenchElsewhere \/ KillSuite

ReleaseSpec == ReleaseInit /\ [][ReleaseNext]_allVars

-----------------------------------------------------------------------------
(* check-grant-package.sh *)

Passes(w) == reports[w].gate = "pass"

NoOtherFails == \A b \in Backends : other[b] # "fail"

\* It judges every reports/bench-*.json, whoever wrote it.
PackageGate ==
    /\ manifest.exists
    /\ raw > 0
    /\ sum # Absent
    /\ summary
    /\ other["rocksdb"] # "none" \/ \E w \in 1..Workloads : reports[w] # NoReport
    /\ NoOtherFails
    /\ \A w \in 1..Workloads : reports[w] = NoReport \/ Passes(w)

-----------------------------------------------------------------------------
(* Properties. *)

\* A report that passes its gate was measured on rows that a replay had loaded: never
\* on the empty database that a benchmark, or a checksum, makes of a missing path, not
\* even when that database has a checksum file or the operator claims the checksum.
GatedReportServedRows ==
    \A w \in 1..Workloads : Passes(w) => reports[w].served \in Generation

\* The reports of a suite that had the directory to itself reference one manifest, the
\* query files of that manifest and one database, the one of the checksum file, however
\* the directory was left by kills, recordings and imports before it.
QuietSuiteIsOneDataset ==
    suite = Workloads + 1 /\ quiet =>
        \A w \in 1..Workloads : reports[w] = Passing(manifest.gen, manifest.gen, sum)

\* The published pair is of the dataset that validates.
Imported == Accepts(manifest) /\ db = manifest.gen /\ sum = db

\* Every workload has its rows in the dataset, and its queries.
Complete == \A w \in 1..Workloads : Supports(w) /\ HasQueries(w)

\* A suite that has an imported dataset to itself, with rows and queries for all its
\* workloads, and is not killed, ends with a report of every workload, and with a package
\* that the gate accepts unless a report of another suite stands in its way.  No failure,
\* race or empty database of before does, nor any report this suite has to replace.
QuietSuiteMakesPackage ==
    [][suite # 0 /\ suite' = 0 /\ quiet /\ faults' = faults /\ Imported /\ Complete
        => ((\A w \in 1..Workloads : Passes(w)) /\ (NoOtherFails => PackageGate))']_allVars
=============================================================================
