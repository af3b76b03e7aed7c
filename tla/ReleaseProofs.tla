---------------------------- MODULE ReleaseProofs ----------------------------
(***************************************************************************)
(* Theorems about Release, for any number of workloads, generations and    *)
(* process ids, whatever imports, signals, kills, recordings and commands  *)
(* by hand come in between.                                                *)
(***************************************************************************)
EXTENDS Release, ImportProofs

\* A manifest that exists, and one that is about to be written, vouches for a
\* normalization.  Of recorded raw input it has an entry for every query file.
ManifestsAreWhole ==
    /\ manifest.exists => manifest.gen # Absent
    /\ at = "manifest" => book.gen # Absent
    /\ at = "queries" => gen # Absent
    /\ format = "protobuf" =>
        /\ at = "queries" => \A q \in 1..(n - 1) : queries[q] # Absent
        /\ at \in {"log", "hash", "refresh"} =>
             \A q \in 1..QueryFiles : queries[q] # Absent
        /\ at = "manifest" => \A q \in 1..QueryFiles : book.queries[q] # Absent
        /\ manifest.exists => \A q \in 1..QueryFiles : manifest.queries[q] # Absent

Held == Made \cup {Empty}

\* A benchmark that measures has a database open, which may be empty; the databases that
\* lie about may be empty too, wherever an import has moved them.
DatabasesPart ==
    /\ db \in Held
    /\ stagingDb \in [Pids -> Held]
    /\ backupDb \in [Pids -> Held]
    /\ pid \in Pids
    /\ bench.at \in {"off", "ask", "open", "measure"}
    /\ bench.at = "measure" => bench.served \in Held \ {Absent}

Benchmark ==
    [at : {"off", "ask", "open", "measure"}, w : 0..Workloads,
     status : {"none", "expected", "not_run", "pass"}, asked : Content, served : Held]

\* A benchmark that runs is the suite's, for the workload it has come to, or one by hand.
SuitePart ==
    /\ suite \in 0..Workloads + 1
    /\ bench \in Benchmark
    /\ Busy => /\ bench.w \in 1..Workloads
               /\ bench.status # "none"
               /\ ByHand \/ suite = bench.w
    /\ DOMAIN reports = 1..Workloads
    /\ faults \in Nat

\* What a suite knows that is alone: its benchmark is its own, asks the queries of the
\* manifest's normalization and expects the checksums that are there; all its reports so
\* far are of that dataset.
AlonePart ==
    suite # 0 /\ quiet =>
        /\ pc = "idle" /\ cmd = "none"
        /\ Busy => /\ bench.status = IF sum # Absent THEN "expected" ELSE "not_run"
                   /\ db # Absent
        /\ bench.at \in {"open", "measure"} => bench.asked = manifest.gen
        /\ bench.at = "measure" => bench.served = db
        /\ \A w \in 1..(suite - 1) :
             reports[w] = Passing(manifest.gen, manifest.gen, sum)

\* What lies in the dataset directory, and what the benchmark has of it.
DirectoryInv == DatasetInv /\ ManifestsAreWhole

ServedInv == DirectoryInv /\ DatabasesPart /\ SuitePart /\ GatedReportServedRows

\* The inductive invariant, without a live recorder.
ReleaseInv == ServedInv /\ AlonePart

-----------------------------------------------------------------------------
(* The dataset directory. *)

EndsOnly(how) == End(how) /\ UNCHANGED fileVars /\ kills' \in 0..MaxKills

\* Nothing in the composition does more to the dataset directory than the commands of
\* Dataset do, and their ends.
LEMMA DirectorySteps ==
    ASSUME DatasetInv, [ReleaseNext]_allVars
    PROVE  \/ [DatasetNext]_datasetVars
           \/ \E how \in {"ok", "error", "killed"} : EndsOnly(how)
<1>1. kills \in 0..MaxKills
  BY DEF DatasetInv, DatasetTypeOK
<1>2. CASE [ImportNext]_vars
  BY <1>1, <1>2, DatasetSteps DEF KillScript, CutOff, EndsOnly
<1>3. CASE Signal
  BY <1>3 DEF Signal, datasetVars
<1>4. CASE ReplayByHand
  BY <1>4 DEF ReplayByHand, DatasetNext, StartCommand
<1>5. CASE RenameRefused
  BY <1>1, <1>5 DEF RenameRefused, EndsOnly
<1>6. CASE ChecksumByHand \/ ChecksumOfNothing
  BY <1>6 DEF ChecksumByHand, ChecksumOfNothing, datasetVars
<1>7. CASE RunOne \/ Summarize \/ ReadCorpus \/ Measure \/ StartSuite \/ BenchByHand
             \/ BenchElsewhere
  BY <1>7 DEF RunOne, Summarize, ReadCorpus, Measure, StartSuite, BenchByHand,
     BenchElsewhere, FilesOnly, datasetVars
<1>8. CASE OpenDatabase \/ KillSuite
  BY <1>8 DEF OpenDatabase, KillSuite, datasetVars
<1>9. CASE UNCHANGED allVars
  BY <1>9 DEF allVars, vars, datasetVars
<1> QED BY <1>2, <1>3, <1>4, <1>5, <1>6, <1>7, <1>8, <1>9
        DEF ReleaseNext, Others, SuiteStep, ImportStep, ImportInterrupted, ReplayStarts,
            ReplayRefused, ChecksumWritten, NothingChecksummed

\* The commands write manifests that are whole.
LEMMA ManifestsStayWhole ==
    ASSUME DirectoryInv, [DatasetNext]_datasetVars
    PROVE  ManifestsAreWhole'
<1> USE DatasetAssumption
    DEF DirectoryInv, DatasetInv, StepsOfCommand, ManifestsAreWhole, Absent, Goto, More,
        fileVars, cmdVars
<1>1. CASE UNCHANGED datasetVars
  BY <1>1 DEF datasetVars
<1>2. CASE RecordMore \/ RecordKeys
  BY <1>2 DEF RecordMore, RecordKeys, Keys, DatasetTypeOK
<1>3. CASE StartNormalize
  BY <1>3 DEF StartNormalize
<1>4. CASE StartCorpus
  <2>1. EventsFile \in 1..RowFiles /\ CorpusContent # Absent
    BY <1>4 DEF StartCorpus, EventsFile, CorpusContent, Mixed
  <2> QED BY <1>4, <2>1 DEF StartCorpus
<1>5. CASE StartReplay
  BY <1>5 DEF StartReplay
<1>6. CASE WriteRows
  BY <1>6 DEF WriteRows, Generation
<1>7. CASE WriteQueries
  BY <1>7 DEF WriteQueries, DatasetTypeOK
<1>8. CASE WriteLog
  BY <1>8 DEF WriteLog
<1>9. CASE HashFiles
  BY <1>9 DEF HashFiles, Hashes, Generation
<1>10. CASE WriteManifest
  BY <1>10 DEF WriteManifest, End
<1>11. CASE RefreshManifest
  BY <1>11 DEF RefreshManifest, RefreshedManifest, End, DatasetTypeOK, Book
<1>12. CASE Validate \/ LoadRows \/ PutCheckpoint
  BY <1>12 DEF Validate, LoadRows, PutCheckpoint, End
<1>13. CASE FinishReplay \/ Kill
  BY <1>13 DEF FinishReplay, Kill, End
<1> QED BY <1>1, <1>2, <1>3, <1>4, <1>5, <1>6, <1>7, <1>8, <1>9, <1>10, <1>11, <1>12, <1>13
        DEF DatasetNext, StartCommand, CommandStep

\* Every step keeps what is known of the dataset directory.
LEMMA DirectoryStep ==
    ASSUME DirectoryInv, [ReleaseNext]_allVars
    PROVE  DirectoryInv'
<1>1. CASE [DatasetNext]_datasetVars
  BY <1>1, InvStep, ManifestsStayWhole DEF DirectoryInv
<1>2. ASSUME NEW how \in {"ok", "error", "killed"}, EndsOnly(how)
      PROVE  DirectoryInv'
  BY <1>2, EndInv DEF DirectoryInv, EndsOnly, End, fileVars, ManifestsAreWhole
<1> QED BY <1>1, <1>2, DirectorySteps DEF DirectoryInv

-----------------------------------------------------------------------------
(* Databases and reports. *)

\* What an import, a replay and a checksum do with databases.
LEMMA ImportMovesDatabases ==
    ASSUME DatasetInv, DatabasesPart, ImportNext \/ Signal, bench' = bench
    PROVE  DatabasesPart'
<1> USE DEF DatabasesPart, importVars, publicVars, privateVars, runVars, ScriptOnly, Emptied
<1>0. Absent \in Held
  BY DEF Held, Made
<1>1. CASE DatasetStep \/ Outside \/ CommandDies
  BY <1>1 DEF DatasetStep, Outside, CommandDies
<1>2. CASE FinishRocksReplay
  <2>1. gen \in Held
    BY <1>2 DEF FinishRocksReplay, FinishReplay, DatasetInv, RowsLoaded, DatasetTypeOK,
       Book, Held, Made
  <2> QED BY <1>2, <2>1 DEF FinishRocksReplay
<1>3. CASE Normalized \/ RefuseImport \/ Replayed \/ Checksum
  BY <1>3 DEF Normalized, RefuseImport, Replayed, Checksum
<1>4. CASE Stage
  BY <1>0, <1>4 DEF Stage
<1>5. CASE OpenPromotion \/ KnowDb \/ KnowSum \/ OwnDb \/ OwnSum \/ ClosePromotion
  BY <1>5 DEF OpenPromotion, KnowDb, KnowSum, OwnDb, OwnSum, ClosePromotion
<1>6. CASE MoveOldDb
  BY <1>0, <1>6 DEF MoveOldDb
<1>7. CASE MoveOldSum \/ MoveNewSum
  BY <1>7 DEF MoveOldSum, MoveNewSum
<1>8. CASE MoveNewDb
  BY <1>0, <1>8 DEF MoveNewDb
<1>9. CASE ForgetBackups
  BY <1>0, <1>9 DEF ForgetBackups
<1>10. CASE EnterTrap \/ DropSum \/ RestoreSum
  BY <1>10 DEF EnterTrap, DropSum, RestoreSum
<1>11. CASE DropDb
  BY <1>0, <1>11 DEF DropDb
<1>12. CASE RestoreDb
  BY <1>0, <1>12 DEF RestoreDb
<1>13. CASE SweepBackups
  BY <1>0, <1>13 DEF SweepBackups
<1>14. CASE Exit
  BY <1>0, <1>14 DEF Exit
<1>15. CASE Begin
  BY <1>15 DEF Begin, BeginWith
<1>16. CASE CommandFails \/ Signal \/ KillScript
  BY <1>16 DEF CommandFails, Signal, KillScript, CutOff
<1>17. CASE TrapFails
  <2>1. db' \in Held
    BY <1>0, <1>17 DEF TrapFails
  <2> QED BY <1>17, <2>1 DEF TrapFails, CutOff
<1> QED BY <1>1, <1>2, <1>3, <1>4, <1>5, <1>6, <1>7, <1>8, <1>9, <1>10, <1>11, <1>12,
           <1>13, <1>14, <1>15, <1>16, <1>17
        DEF ImportNext, Proceed, Promotion, Cleanup

\* The record of a benchmark that is off.
LEMMA OffIsBenchmark == Off \in Benchmark /\ Off.at = "off"
BY ReleaseAssumption DEF Off, Benchmark, Content, Held, Made

\* The query file that a benchmark asks is one of the dataset's.
LEMMA CorpusIsFile ==
    ASSUME DatasetInv, NEW w \in 1..Workloads
    PROVE  Corpus(w) \in 1..QueryFiles /\ queries[Corpus(w)] \in Content
BY DatasetAssumption, ReleaseAssumption DEF Corpus, DatasetInv, DatasetTypeOK

\* A benchmark that begins, by the suite or by hand.
LEMMA BenchmarkBegins ==
    ASSUME (RunOne /\ db # Absent) \/ BenchByHand
    PROVE  /\ bench' \in Benchmark
           /\ bench'.at = "ask"
           /\ bench'.w \in 1..Workloads
           /\ RunOne /\ db # Absent =>
                /\ bench'.w = suite
                /\ bench'.status = IF sum # Absent THEN "expected" ELSE "not_run"
           /\ ~ RunOne => bench'.status = "pass"
<1>1. PICK w \in 1..Workloads, said \in {"expected", "not_run", "pass"} :
         /\ bench' = [Off EXCEPT !.at = "ask", !.w = w, !.status = said]
         /\ RunOne /\ db # Absent =>
              w = suite /\ said = IF sum # Absent THEN "expected" ELSE "not_run"
         /\ ~ RunOne => said = "pass"
  <2>1. CASE RunOne /\ db # Absent
    <3> DEFINE said == IF sum # Absent THEN "expected" ELSE "not_run"
    <3>1. /\ bench' = [Off EXCEPT !.at = "ask", !.w = suite, !.status = said]
          /\ suite \in 1..Workloads /\ said \in {"expected", "not_run", "pass"}
      BY <2>1 DEF RunOne
    <3>2. said = IF sum # Absent THEN "expected" ELSE "not_run"
      OBVIOUS
    <3> HIDE DEF said
    <3> QED BY <2>1, <3>1, <3>2
  <2>2. CASE BenchByHand /\ ~ RunOne
    BY <2>2, ReleaseAssumption DEF BenchByHand
  <2>3. CASE BenchByHand /\ RunOne /\ db = Absent
    BY <2>3 DEF BenchByHand, RunOne, Busy, Off
  <2> QED BY <2>1, <2>2, <2>3
<1>2. /\ bench'.at = "ask" /\ bench'.w = w /\ bench'.status = said
      /\ bench' \in Benchmark
  <2>1. w \in 0..Workloads
    BY ReleaseAssumption
  <2> QED BY <1>1, <2>1, OffIsBenchmark DEF Benchmark
<1> QED BY <1>1, <1>2

\* A benchmark that validates the dataset ends, or goes on with the query file.
LEMMA BenchmarkAsks ==
    ASSUME DatasetInv, SuitePart, ReadCorpus
    PROVE  \/ BenchEnds
           \/ /\ Serveable(bench.w)
              /\ bench' \in Benchmark
              /\ bench'.at = "open"
              /\ bench'.asked = queries[Corpus(bench.w)]
              /\ UNCHANGED <<bench.w, bench.status, suite, reports>>
<1>1. CASE ~ Serveable(bench.w)
  BY <1>1 DEF ReadCorpus
<1>2. CASE Serveable(bench.w)
  <2>1. bench \in Benchmark /\ bench.w \in 1..Workloads
    BY DEF ReadCorpus, SuitePart, Busy
  <2>2. PICK c \in Content : c = queries[Corpus(bench.w)]
    BY <2>1, CorpusIsFile
  <2>3. bench' = [bench EXCEPT !.at = "open", !.asked = c] /\ UNCHANGED <<suite, reports>>
    BY <1>2, <2>2 DEF ReadCorpus
  <2>4. /\ bench' \in Benchmark /\ bench'.at = "open" /\ bench'.asked = c
        /\ bench'.w = bench.w /\ bench'.status = bench.status
    BY <2>1, <2>3 DEF Benchmark
  <2> QED BY <1>2, <2>2, <2>3, <2>4
<1> QED BY <1>1, <1>2

\* A benchmark opens the database, or makes an empty one.
LEMMA BenchmarkServes ==
    ASSUME DatabasesPart, SuitePart, OpenDatabase
    PROVE  /\ Opened \in Held \ {Absent}
           /\ bench' \in Benchmark
           /\ bench'.at = "measure"
           /\ bench'.served = Opened
           /\ UNCHANGED <<bench.w, bench.status, bench.asked>>
<1>1. PICK d \in Held \ {Absent} : d = Opened
  BY DEF Opened, DatabasesPart, Held, Made, Empty, Absent, Generation
<1>2. bench' = [bench EXCEPT !.at = "measure", !.served = d] /\ bench \in Benchmark
  BY <1>1 DEF OpenDatabase, SuitePart
<1>3. /\ bench' \in Benchmark /\ bench'.at = "measure" /\ bench'.served = d
      /\ bench'.w = bench.w /\ bench'.status = bench.status /\ bench'.asked = bench.asked
  BY <1>2 DEF Benchmark
<1> QED BY <1>1, <1>3

\* Every step keeps the databases what they are: of one generation, or empty.
LEMMA DatabasesStep ==
    ASSUME ServedInv, [ReleaseNext]_allVars
    PROVE  DatabasesPart'
<1> USE DEF ServedInv, DirectoryInv, DatabasesPart, FilesOnly, importVars, publicVars,
        privateVars, runVars, Off
<1>1. CASE Others
  <2> USE DEF Beside
  <2>1. CASE ImportStep \/ ImportInterrupted
    BY <2>1, ImportMovesDatabases DEF ImportStep, ImportInterrupted
  <2>2. CASE ReplayStarts \/ ReplayRefused \/ ChecksumWritten
    BY <2>2 DEF ReplayStarts, ReplayByHand, ReplayRefused, RenameRefused, ChecksumWritten,
       ChecksumByHand
  <2>3. CASE NothingChecksummed
    BY <2>3 DEF NothingChecksummed, ChecksumOfNothing, Held
  <2> QED BY <1>1, <2>1, <2>2, <2>3 DEF Others
<1>2. CASE RunOne \/ StartSuite \/ Summarize \/ BenchByHand \/ BenchElsewhere
  BY <1>2 DEF RunOne, StartSuite, Summarize, BenchByHand, BenchElsewhere, SuitePart
<1>3. CASE ReadCorpus
  <2>1. bench'.at \in {"off", "open"}
    BY <1>3, BenchmarkAsks, OffIsBenchmark DEF BenchEnds, Return
  <2> QED BY <1>3, <2>1 DEF ReadCorpus
<1>4. CASE OpenDatabase
  <2>1. /\ Opened \in Held \ {Absent}
        /\ bench'.at = "measure" /\ bench'.served = Opened
    BY <1>4, BenchmarkServes
  <2> QED BY <1>4, <2>1 DEF OpenDatabase
<1>5. CASE Measure
  BY <1>5 DEF Measure, Report, NoResult, BenchEnds, Return
<1>6. CASE KillSuite
  BY <1>6 DEF KillSuite
<1>7. CASE UNCHANGED allVars
  BY <1>7 DEF allVars, vars, releaseVars
<1> QED BY <1>1, <1>2, <1>3, <1>4, <1>5, <1>6, <1>7 DEF ReleaseNext, SuiteStep

\* Every step keeps the types of the suite and of its benchmark.
LEMMA SuitePartStep ==
    ASSUME ServedInv, [ReleaseNext]_allVars
    PROVE  SuitePart'
<1> USE ReleaseAssumption DEF ServedInv, SuitePart, Busy
<1>1. CASE Others
  <2>1. UNCHANGED <<suite, bench, reports>>
    BY <1>1 DEF Others, ImportStep, ImportInterrupted, ReplayStarts, ReplayRefused,
       ChecksumWritten, NothingChecksummed, Beside
  <2>2. faults' \in {faults, faults + 1}
    <3>1. CASE ImportStep
      <4>1. CASE DatasetStep \/ Outside \/ CommandDies
        BY <4>1 DEF DatasetStep, Outside, CommandDies, importVars
      <4>2. CASE Promotion
        BY <4>2 DEF Promotion, OpenPromotion, MoveOldDb, KnowDb, MoveOldSum, KnowSum,
           MoveNewDb, OwnDb, MoveNewSum, OwnSum, ClosePromotion, ForgetBackups, ScriptOnly
      <4>3. CASE Cleanup
        BY <4>3 DEF Cleanup, EnterTrap, DropDb, DropSum, RestoreDb, RestoreSum,
           SweepBackups, Exit, ScriptOnly
      <4>4. CASE FinishRocksReplay \/ Normalized \/ RefuseImport \/ Stage \/ Replayed
                 \/ Checksum \/ Begin
        BY <4>4 DEF FinishRocksReplay, Normalized, RefuseImport, Stage, Replayed, Checksum,
           Begin, BeginWith
      <4>5. CASE CommandFails \/ TrapFails \/ KillScript
        BY <4>5 DEF CommandFails, TrapFails, KillScript, Fault
      <4> QED BY <3>1, <4>1, <4>2, <4>3, <4>4, <4>5 DEF ImportStep, ImportNext, Proceed
    <3>2. CASE ~ ImportStep
      BY <1>1, <3>2 DEF Others, ImportInterrupted, Signal, Fault, ReplayStarts, ReplayByHand,
         ReplayRefused, RenameRefused, ChecksumWritten, ChecksumByHand, NothingChecksummed,
         ChecksumOfNothing, importVars
    <3> QED BY <3>1, <3>2
  <2> QED BY <2>1, <2>2 DEF ByHand
<1>2. Off.at = "off" /\ Off \in Benchmark
  BY OffIsBenchmark
<1>3. CASE StartSuite \/ Summarize \/ BenchElsewhere
  BY <1>3 DEF StartSuite, Summarize, BenchElsewhere, FilesOnly, importVars, ByHand
<1>4. CASE RunOne
  <2>1. CASE db # Absent
    <3>1. /\ bench'.at = "ask" /\ bench'.w = suite /\ bench' \in Benchmark
          /\ bench'.w \in 1..Workloads /\ bench'.status \in {"expected", "not_run"}
      BY <1>4, <2>1, BenchmarkBegins
    <3> QED BY <1>4, <2>1, <3>1 DEF RunOne, FilesOnly, importVars
  <2>2. CASE db = Absent
    BY <1>4, <2>2 DEF RunOne, FilesOnly, importVars
  <2> QED BY <2>1, <2>2
<1>5. CASE BenchByHand
  <2>1. /\ bench' \in Benchmark /\ bench'.at = "ask" /\ bench'.w \in 1..Workloads
        /\ bench'.status = "pass"
    <3>1. bench' \in Benchmark /\ bench'.at = "ask" /\ bench'.w \in 1..Workloads
      BY <1>5, BenchmarkBegins
    <3>2. bench'.status = "pass"
      BY <1>5, OffIsBenchmark DEF BenchByHand, Benchmark
    <3> QED BY <3>1, <3>2
  <2> QED BY <1>5, <2>1 DEF BenchByHand, FilesOnly, importVars, ByHand
<1>6. CASE ReadCorpus
  <2>1. CASE BenchEnds
    BY <1>2, <1>6, <2>1 DEF ReadCorpus, BenchEnds, Return, FilesOnly, importVars
  <2>2. CASE ~ BenchEnds
    <3>1. /\ bench' \in Benchmark /\ bench'.w = bench.w /\ bench'.status = bench.status
          /\ UNCHANGED <<suite, reports>>
      BY <1>6, <2>2, BenchmarkAsks DEF DirectoryInv
    <3>2. faults' = faults
      BY <1>6 DEF ReadCorpus, FilesOnly, importVars
    <3> QED BY <1>6, <3>1, <3>2 DEF ReadCorpus, ByHand
  <2> QED BY <2>1, <2>2
<1>7. CASE OpenDatabase
  <2>1. bench' \in Benchmark /\ bench'.w = bench.w /\ bench'.status = bench.status
    BY <1>7, BenchmarkServes
  <2> QED BY <1>7, <2>1 DEF OpenDatabase, ByHand
<1>8. CASE Measure
  <2>1. PICK missed \in BOOLEAN : Report(missed) \/ NoResult(missed)
    BY <1>8 DEF Measure, MayMiss
  <2>2. DOMAIN reports' = DOMAIN reports
    BY <2>1 DEF Report, NoResult, BenchEnds, Filed
  <2>3. bench' = Off /\ faults' = faults
    BY <1>8, <2>1 DEF Measure, Report, NoResult, BenchEnds, Return, FilesOnly, importVars
  <2>4. suite' \in 0..Workloads + 1
    BY <1>8, <2>1 DEF Measure, Report, NoResult, BenchEnds, Return
  <2> QED BY <1>2, <2>2, <2>3, <2>4
<1>9. CASE KillSuite
  BY <1>2, <1>9 DEF KillSuite, Fault, ByHand
<1>10. CASE UNCHANGED allVars
  BY <1>10 DEF allVars, vars, releaseVars, importVars, ByHand
<1> QED BY <1>1, <1>3, <1>4, <1>5, <1>6, <1>7, <1>8, <1>9, <1>10 DEF ReleaseNext, SuiteStep

\* A report that passes is about a database that is not empty: on an empty one every
\* query misses.  Reports that are there stay as they are but for the one that is filed.
LEMMA ReportsStep ==
    ASSUME ServedInv, [ReleaseNext]_allVars
    PROVE  GatedReportServedRows'
<1> USE DEF GatedReportServedRows, Passes
<1>1. CASE reports' = reports
  BY <1>1 DEF ServedInv
<1>2. ASSUME NEW missed \in MayMiss, Report(missed), bench.at = "measure"
      PROVE  GatedReportServedRows'
  <2>1. GatePasses(missed) => bench.served \in Generation
    BY <1>2 DEF GatePasses, MayMiss, ServedInv, DatabasesPart, Held, Made
  <2>2. \A w \in 1..Workloads : reports'[w] \in
          {reports[w], Failing} \cup
          (IF GatePasses(missed) THEN {Passing(bench.asked, manifest.gen, bench.served)}
                                 ELSE {})
    BY <1>2 DEF Report, Filed, ServedInv, SuitePart
  <2> QED BY <2>1, <2>2 DEF ServedInv, Failing, Passing
<1>3. reports' = reports \/ Measure
  BY DEF ReleaseNext, Others, SuiteStep, ImportStep, ImportInterrupted, ReplayStarts,
     ReplayRefused, ChecksumWritten, NothingChecksummed, Beside, RunOne, Summarize,
     ReadCorpus, BenchEnds, OpenDatabase, StartSuite, BenchByHand, BenchElsewhere, KillSuite, allVars,
     releaseVars
<1> QED BY <1>1, <1>2, <1>3 DEF Measure, NoResult, BenchEnds

-----------------------------------------------------------------------------
(* The suite that is alone. *)

\* Every step keeps what a suite knows that has the directory to itself.
LEMMA AloneStep ==
    ASSUME ~ LiveRecorder, ReleaseInv, [ReleaseNext]_allVars
    PROVE  AlonePart'
<1> USE DEF ReleaseInv, ServedInv, DirectoryInv, AlonePart
<1> SUFFICES ASSUME suite' # 0, quiet'
             PROVE  AlonePart'
  OBVIOUS
<1>1. CASE Others \/ BenchByHand \/ BenchElsewhere
  BY <1>1 DEF Others, ImportStep, ImportInterrupted, ReplayStarts, ReplayRefused,
     ChecksumWritten, NothingChecksummed, Beside, BenchByHand, BenchElsewhere
<1>2. CASE KillSuite \/ Summarize
  BY <1>2 DEF KillSuite, Summarize
<1>3. CASE StartSuite
  <2>1. pc = "idle" /\ cmd = "none" /\ bench.at = "off"
    BY <1>3 DEF StartSuite, Busy
  <2>2. suite' = 1 /\ UNCHANGED <<pc, cmd, bench>>
    BY <1>3 DEF StartSuite, FilesOnly, datasetVars, cmdVars, importVars
  <2>3. \A w \in 1..(suite' - 1) : FALSE
    BY <2>2
  <2> QED BY <2>1, <2>2, <2>3 DEF Busy
<1>4. CASE UNCHANGED allVars
  BY <1>4 DEF allVars, vars, datasetVars, fileVars, cmdVars, importVars, publicVars,
     releaseVars, Busy
<1>5. CASE SuiteStep /\ ~ Summarize
  <2>1. suite # 0 /\ quiet /\ UNCHANGED <<manifest, sum, pc, cmd>>
    <3>1. quiet /\ UNCHANGED <<manifest, sum, pc, cmd>>
      BY <1>5 DEF SuiteStep, RunOne, ReadCorpus, OpenDatabase, Measure, FilesOnly,
         datasetVars, fileVars, cmdVars, importVars, publicVars
    <3>2. CASE RunOne \/ OpenDatabase
      BY <3>1, <3>2 DEF RunOne, OpenDatabase
    <3>3. CASE ReadCorpus
      BY <3>1, <3>3 DEF ReadCorpus, BenchEnds, Return
    <3>4. CASE Measure
      BY <3>1, <3>4, ReleaseAssumption DEF Measure, Report, NoResult, BenchEnds, Return, SuitePart, Busy
    <3> QED BY <1>5, <3>1, <3>2, <3>3, <3>4 DEF SuiteStep
  <2>2. CASE RunOne
    <3>1. db # Absent /\ UNCHANGED <<suite, reports, db>>
      BY <2>2 DEF RunOne, FilesOnly, importVars, publicVars
    <3>2. bench'.at = "ask" /\ bench'.status = IF sum # Absent THEN "expected" ELSE "not_run"
      BY <2>2, <3>1, BenchmarkBegins
    <3> QED BY <2>1, <3>1, <3>2 DEF Busy
  <2>3. CASE ReadCorpus
    <3>1. ~ BenchEnds
      BY <2>1, <2>3, OffIsBenchmark DEF BenchEnds, Return, ReadCorpus, Busy, ByHand
    <3>2. /\ Serveable(bench.w) /\ bench'.at = "open"
          /\ bench'.asked = queries[Corpus(bench.w)] /\ bench'.status = bench.status
          /\ UNCHANGED <<suite, reports>>
      BY <2>3, <3>1, BenchmarkAsks
    <3>3. bench.w \in 1..Workloads
      BY <2>3 DEF ReadCorpus, SuitePart, Busy
    <3>4. queries[Corpus(bench.w)] = manifest.gen
      BY <3>2, <3>3, CorpusIsFile, ValidIsCoherent DEF Serveable, Accepts, ValidMeansCoherent
    <3>5. db' = db
      BY <2>3 DEF ReadCorpus, FilesOnly, importVars, publicVars
    <3> QED BY <2>1, <2>3, <3>2, <3>4, <3>5 DEF ReadCorpus, Busy
  <2>4. CASE OpenDatabase
    <3>1. Opened = db
      BY <2>1, <2>4 DEF OpenDatabase, Opened, Busy
    <3>2. bench'.at = "measure" /\ bench'.asked = bench.asked /\ bench'.served = db
          /\ bench'.status = bench.status
      BY <2>4, <3>1, BenchmarkServes
    <3> QED BY <2>1, <2>4, <3>1, <3>2 DEF OpenDatabase, Busy
  <2>5. CASE Measure
    <3>1. PICK missed \in MayMiss : Report(missed) /\ GatePasses(missed)
      BY <2>1, <2>5 DEF Measure, Report, NoResult, BenchEnds, Return, ByHand, Busy
    <3>2. bench' = Off /\ suite' = suite + 1 /\ suite = bench.w
      BY <2>1, <2>5, <3>1 DEF Measure, Report, Return, ByHand, Busy, SuitePart
    <3>3. bench.served = sum /\ bench.asked = manifest.gen
      BY <2>1, <2>5, <3>1 DEF Measure, GatePasses, Status, Busy
    <3>4. reports' = [reports EXCEPT ![suite] = Passing(manifest.gen, manifest.gen, sum)]
      BY <3>1, <3>2, <3>3 DEF Report, Filed
    <3>5. suite \in 1..Workloads /\ DOMAIN reports = 1..Workloads
      BY <2>1, <2>5, <3>2 DEF Measure, SuitePart, Busy
    <3>6. \A w \in 1..suite : reports'[w] = Passing(manifest.gen, manifest.gen, sum)
      BY <2>1, <3>4, <3>5
    <3> QED BY <2>1, <3>2, <3>5, <3>6 DEF Off, Busy
  <2> QED BY <1>5, <2>2, <2>3, <2>4, <2>5 DEF SuiteStep
<1> QED BY <1>1, <1>2, <1>3, <1>4, <1>5 DEF ReleaseNext

-----------------------------------------------------------------------------
(* Theorems. *)

\* The initial state satisfies the invariants.
LEMMA ReleaseInvInit == ReleaseInit => ReleaseInv
<1> SUFFICES ASSUME ReleaseInit PROVE ReleaseInv
  OBVIOUS
<1> USE DEF ReleaseInit, ImportInit
<1>1. DatasetInv /\ ManifestsAreWhole
  BY InvInit DEF DatasetInit, NoManifest, ManifestsAreWhole
<1>2. DatabasesPart
  <2>1. Absent \in Held
    BY DEF Held, Made
  <2> QED BY <2>1, OffIsBenchmark DEF DatabasesPart
<1>3. SuitePart /\ AlonePart /\ GatedReportServedRows
  BY OffIsBenchmark, ReleaseAssumption
     DEF SuitePart, AlonePart, GatedReportServedRows, Busy, Passes, NoReport
<1> QED BY <1>1, <1>2, <1>3 DEF ReleaseInv, ServedInv, DirectoryInv

\* What is known of databases and reports holds in every reachable state.
THEOREM ServedInvariance == ReleaseSpec => []ServedInv
<1>1. ReleaseInit => ServedInv
  BY ReleaseInvInit DEF ReleaseInv
<1>2. ServedInv /\ [ReleaseNext]_allVars => ServedInv'
  BY DirectoryStep, DatabasesStep, SuitePartStep, ReportsStep DEF ServedInv
<1> QED BY <1>1, <1>2, PTL DEF ReleaseSpec

\* A report that passes its gate was measured on rows that a replay had loaded, whatever
\* makes and moves databases beside it: never on an empty one.
THEOREM GatedReportsCorrect == ReleaseSpec => []GatedReportServedRows
<1>1. ServedInv => GatedReportServedRows
  BY DEF ServedInv
<1> QED BY <1>1, ServedInvariance, PTL

\* Without a live recorder, what a suite knows that is alone holds too.
THEOREM ReleaseInvariance ==
    ASSUME ~ LiveRecorder
    PROVE  ReleaseSpec => []ReleaseInv
<1>1. ReleaseInv /\ [ReleaseNext]_allVars => ReleaseInv'
  BY AloneStep, DirectoryStep, DatabasesStep, SuitePartStep, ReportsStep
     DEF ReleaseInv, ServedInv
<1> QED BY <1>1, ReleaseInvInit, PTL DEF ReleaseSpec

\* Without a live recorder, the reports of a suite that had the directory to itself are
\* about one normalization and one database, in whatever state the suite found them.
THEOREM QuietSuiteCorrect ==
    ASSUME ~ LiveRecorder
    PROVE  ReleaseSpec => []QuietSuiteIsOneDataset
<1>1. ReleaseInv => QuietSuiteIsOneDataset
  <2> SUFFICES ASSUME ReleaseInv, suite = Workloads + 1, quiet
               PROVE  \A w \in 1..Workloads :
                        reports[w] = Passing(manifest.gen, manifest.gen, sum)
    BY DEF QuietSuiteIsOneDataset
  <2>1. suite # 0 /\ suite - 1 = Workloads
    BY ReleaseAssumption
  <2> QED BY <2>1 DEF ReleaseInv, AlonePart
<1> QED BY <1>1, ReleaseInvariance, PTL

\* A suite that is alone with an imported dataset of recorded input, complete for its
\* workloads, does not end but with passing reports, and with a package unless another
\* report fails it: its queries are there, find their rows, and the checksums are those of
\* the database.
LEMMA AloneEndsWithPackage ==
    ASSUME ~ LiveRecorder, Formats = {"protobuf"}, ReleaseInv, [ReleaseNext]_allVars,
           suite # 0, suite' = 0, quiet, faults' = faults, Imported, Complete
    PROVE  ((\A w \in 1..Workloads : Passes(w)) /\ (NoOtherFails => PackageGate))'
<1> USE DEF ReleaseInv, ServedInv, DirectoryInv, AlonePart
<1>1. /\ manifest.exists /\ manifest.gen # Absent /\ manifest.gen <= raw /\ raw \in Nat
      /\ manifest.gen \in Nat
  <2>1. manifest.exists /\ manifest.gen # Absent
    BY DEF Imported, Accepts, ManifestsAreWhole
  <2>2. manifest.gen <= rows[1] /\ rows[1] <= raw
    BY DatasetAssumption DEF DatasetInv, RowsInOrder
  <2>3. manifest.gen \in Nat /\ rows[1] \in Nat /\ raw \in Nat
    BY DatasetAssumption DEF DatasetInv, DatasetTypeOK, Book, Generation, Absent
  <2> QED BY <2>1, <2>2, <2>3
<1>2. db = manifest.gen /\ sum = manifest.gen /\ db # Absent /\ sum # Absent
  BY <1>1 DEF Imported
<1>3. \A w \in 1..Workloads : Serveable(w)
  <2>1. format = "protobuf"
    BY DEF DatasetInv, DatasetTypeOK
  <2> QED BY <1>1, <2>1, CorpusIsFile DEF Serveable, Complete, Imported, ManifestsAreWhole
<1>4. CASE Others \/ StartSuite \/ BenchByHand \/ BenchElsewhere
  BY <1>4 DEF Others, ImportStep, ImportInterrupted, ReplayStarts, ReplayRefused,
     ChecksumWritten, NothingChecksummed, Beside, StartSuite, BenchByHand, BenchElsewhere
<1>5. CASE KillSuite
  BY <1>5 DEF KillSuite, Fault, SuitePart
<1>6. CASE RunOne \/ OpenDatabase
  BY <1>2, <1>6 DEF RunOne, OpenDatabase
<1>7. CASE ReadCorpus
  <2>1. bench.w \in 1..Workloads
    BY <1>7 DEF ReadCorpus, SuitePart, Busy
  <2> QED BY <1>3, <1>7, <2>1 DEF ReadCorpus
<1>8. CASE Measure
  <2>1. bench.served = sum /\ bench.asked = bench.served /\ bench.status = "expected"
    BY <1>2, <1>8 DEF Measure, Busy
  <2>2. PICK missed \in MayMiss : Report(missed) \/ NoResult(missed)
    BY <1>8 DEF Measure
  <2>3. ~ missed
    BY <2>1 DEF MayMiss
  <2>4. Report(missed) /\ GatePasses(missed)
    BY <1>2, <2>1, <2>2, <2>3 DEF NoResult, GatePasses, Status
  <2>5. suite' = suite + 1 /\ suite \in Nat
    BY <2>1, <2>4, ReleaseAssumption DEF Report, Return, ByHand, SuitePart
  <2> QED BY <2>5
<1>9. CASE Summarize
  <2>1. /\ suite = Workloads + 1 /\ summary'
        /\ UNCHANGED <<manifest, raw, sum, reports>>
    BY <1>9 DEF Summarize, FilesOnly, datasetVars, fileVars, importVars, publicVars
  <2>2. \A w \in 1..Workloads : reports[w] = Passing(manifest.gen, manifest.gen, sum)
    <3>1. suite - 1 = Workloads
      BY <2>1, ReleaseAssumption
    <3> QED BY <3>1
  <2>3. \A w \in 1..Workloads : Passes(w)' /\ reports'[w] # NoReport
    BY <2>1, <2>2 DEF Passes, Passing, NoReport
  <2>4. 1 \in 1..Workloads /\ raw' > 0
    BY <1>1, <2>1, ReleaseAssumption DEF Absent
  <2> QED BY <1>1, <1>2, <2>1, <2>3, <2>4 DEF PackageGate
<1>10. CASE UNCHANGED allVars
  BY <1>10 DEF allVars, releaseVars
<1> QED BY <1>4, <1>5, <1>6, <1>7, <1>8, <1>9, <1>10 DEF ReleaseNext, SuiteStep

\* Without a live recorder, a suite that has an imported dataset of recorded input to
\* itself, with rows and queries for all its workloads, and is not killed, ends with a
\* passing report of each, and with a package that the gate accepts unless a report that
\* is not the suite's fails it.
THEOREM PackageCorrect ==
    ASSUME ~ LiveRecorder, Formats = {"protobuf"}
    PROVE  ReleaseSpec => QuietSuiteMakesPackage
<1>1. ReleaseInv /\ [ReleaseNext]_allVars =>
        [suite # 0 /\ suite' = 0 /\ quiet /\ faults' = faults /\ Imported /\ Complete
           => ((\A w \in 1..Workloads : Passes(w))
                 /\ (NoOtherFails => PackageGate))']_allVars
  BY AloneEndsWithPackage
<1> QED BY <1>1, ReleaseInvariance, PTL DEF ReleaseSpec, QuietSuiteMakesPackage
=============================================================================
