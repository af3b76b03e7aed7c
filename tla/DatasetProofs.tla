--------------------------- MODULE DatasetProofs ---------------------------
(***************************************************************************)
(* Theorems about Dataset, for any number of row files, query files and    *)
(* generations of raw input, and for kills at any step.                    *)
(***************************************************************************)
EXTENDS Dataset, TLAPS

\* Which command a step belongs to, and that the outcome of a command that runs is
\* not decided yet.
StepsOfCommand ==
    /\ at \in {"rows", "log", "hash"} => cmd = "normalize"
    /\ cmd = "normalize" => gen \in Generation
    /\ at \in {"queries", "refresh", "manifest"} => cmd \in {"normalize", "corpus"}
    /\ at = "refresh" => cmd = "corpus"
    /\ at \in {"validate", "load", "checkpoint", "loaded"} => cmd = "replay"
    /\ at = "queries" /\ cmd = "normalize" => format = "protobuf"
    /\ cmd # "none" => result = "none"

\* A manifest names the row files of one normalization.
UniformManifests ==
    \A i \in 1..RowFiles : manifest.rows[i] = manifest.gen /\ book.rows[i] = book.gen

\* Row files are written in order and generations only grow: no row file is older
\* than a later one, nor older than the manifest.
RowsInOrder ==
    /\ \A i, j \in 1..RowFiles : i <= j => rows[i] >= rows[j]
    /\ \A i \in 1..RowFiles : manifest.gen <= rows[i] /\ rows[i] <= raw
    /\ at = "rows" => \A i \in 1..RowFiles : rows[i] <= gen
    /\ cmd = "normalize" => gen <= raw
    /\ at = "manifest" => \A i \in 1..RowFiles : book.gen <= rows[i]

\* What normalize has written so far.
RowsWritten ==
    /\ at = "rows" => \A i \in 1..(n - 1) : rows[i] = gen
    /\ cmd = "normalize" /\ at # "rows" => \A i \in 1..RowFiles : rows[i] = gen
    /\ at = "hash" => log = gen
    /\ cmd = "normalize" /\ at = "manifest" =>
         book.exists /\ book.gen = gen /\ book.rows = rows /\ book.log = log

\* What replay has read so far is what it has validated.
RowsLoaded ==
    /\ at \in {"load", "checkpoint", "loaded"} => rows = book.rows
    /\ at = "load" => \A i \in 1..(n - 1) : loaded[i] = rows[i]
    /\ at \in {"checkpoint", "loaded"} => \A i \in 1..RowFiles : loaded[i] = rows[i]
    /\ at = "loaded" => gen = book.gen

\* m's query entries are of m's generation, or m does not validate for good: the
\* row files have moved on.
Coherent(m) ==
    \/ \A q \in 1..QueryFiles : m.queries[q] \in {Absent, m.gen}
    \/ rows[1] # m.gen

\* What is known of the query files when no recorder runs beside the command.
QueriesWritten ==
    ~ LiveRecorder =>
        /\ Coherent(manifest)
        /\ at = "queries" => \A q \in 1..(n - 1) : queries[q] = gen
        /\ at \in {"log", "hash"} /\ format = "protobuf" =>
             \A q \in 1..QueryFiles : queries[q] = gen
        /\ at = "refresh" => \A q \in 1..QueryFiles : queries[q] = gen
        /\ cmd = "corpus" /\ at \in {"queries", "refresh"} => gen = CorpusContent
        /\ at = "manifest" => Coherent(book)
        /\ at = "manifest" /\ cmd = "normalize" =>
             book.queries = IF format = "protobuf" THEN queries ELSE NoEntries
        /\ cmd = "normalize" => gen = raw

\* The inductive invariant.
DatasetInv ==
    /\ DatasetTypeOK
    /\ StepsOfCommand
    /\ UniformManifests
    /\ RowsInOrder
    /\ RowsWritten
    /\ RowsLoaded
    /\ QueriesWritten

-----------------------------------------------------------------------------
\* The initial state satisfies the invariant.
LEMMA InvInit == DatasetInit => DatasetInv
<1> SUFFICES ASSUME DatasetInit PROVE DatasetInv
  OBVIOUS
<1> USE DatasetAssumption
    DEF DatasetInit, NoManifest, NoEntries, Absent, Mixed, Generation, Content
<1>1. DatasetTypeOK
  BY DEF DatasetTypeOK, Book
<1>2. StepsOfCommand /\ UniformManifests /\ RowsInOrder /\ RowsWritten /\ RowsLoaded
  BY DEF StepsOfCommand, UniformManifests, RowsInOrder, RowsWritten, RowsLoaded
<1>3. QueriesWritten
  BY DEF QueriesWritten, Coherent
<1> QED BY <1>1, <1>2, <1>3 DEF DatasetInv

\* The end of a command, with the row files and the manifest as they were, keeps
\* what the invariant says of the files and leaves nothing to say of the command.
LEMMA EndInv ==
    ASSUME DatasetInv, NEW how \in {"ok", "error", "killed"}, End(how), UNCHANGED fileVars,
           kills' \in 0..MaxKills
    PROVE  DatasetInv'
<1> USE DatasetAssumption DEF End, fileVars, Absent
<1>1. DatasetTypeOK'
  BY DEF DatasetInv, DatasetTypeOK, Book, NoManifest, NoEntries, Content, Generation
<1>2. StepsOfCommand'
  BY DEF StepsOfCommand
<1>3. UniformManifests'
  BY DEF DatasetInv, UniformManifests, NoManifest
<1>4. RowsInOrder'
  BY DEF DatasetInv, RowsInOrder
<1>5. RowsWritten' /\ RowsLoaded'
  BY DEF RowsWritten, RowsLoaded
<1>6. QueriesWritten'
  BY DEF DatasetInv, QueriesWritten, Coherent
<1> QED BY <1>1, <1>2, <1>3, <1>4, <1>5, <1>6 DEF DatasetInv

\* The lemmas of this section have the same form: the named step keeps the invariant.
\* Raw input only grows.
LEMMA RecordMoreInv == DatasetInv /\ RecordMore => DatasetInv'
<1> SUFFICES ASSUME DatasetInv, RecordMore PROVE DatasetInv'
  OBVIOUS
<1> USE DatasetAssumption DEF DatasetInv, RecordMore, MayRecord, cmdVars, Absent
<1>1. DatasetTypeOK'
  BY DEF DatasetTypeOK, Book, Content, Generation
<1>2. StepsOfCommand' /\ UniformManifests'
  BY DEF StepsOfCommand, UniformManifests
<1>3. RowsInOrder'
  BY DEF RowsInOrder, DatasetTypeOK, Generation
<1>4. RowsWritten' /\ RowsLoaded'
  BY DEF RowsWritten, RowsLoaded
<1>5. QueriesWritten'
  BY DEF QueriesWritten, Coherent, CorpusContent
<1> QED BY <1>1, <1>2, <1>3, <1>4, <1>5

\* The recorder's key samples replace the first query file.
LEMMA RecordKeysInv == DatasetInv /\ RecordKeys => DatasetInv'
<1> SUFFICES ASSUME DatasetInv, RecordKeys PROVE DatasetInv'
  OBVIOUS
<1> USE DatasetAssumption DEF DatasetInv, RecordKeys, MayRecord, cmdVars, Absent
<1>1. DatasetTypeOK'
  BY DEF DatasetTypeOK, Book, Content, Generation
<1>2. StepsOfCommand' /\ UniformManifests' /\ RowsInOrder'
  BY DEF StepsOfCommand, UniformManifests, RowsInOrder
<1>3. RowsWritten' /\ RowsLoaded'
  BY DEF RowsWritten, RowsLoaded
<1>4. QueriesWritten'
  <2>1. CASE cmd = "none"
    BY <2>1 DEF QueriesWritten, Coherent, DatasetTypeOK
  <2>2. CASE LiveRecorder
    BY <2>2 DEF QueriesWritten
  <2> QED BY <2>1, <2>2
<1> QED BY <1>1, <1>2, <1>3, <1>4

\* A normalize begins.
LEMMA StartNormalizeInv == DatasetInv /\ StartNormalize => DatasetInv'
<1> SUFFICES ASSUME DatasetInv, StartNormalize PROVE DatasetInv'
  OBVIOUS
<1> USE DatasetAssumption DEF DatasetInv, StartNormalize, Goto, fileVars, Absent
<1>1. DatasetTypeOK'
  BY DEF DatasetTypeOK, Generation
<1>2. StepsOfCommand'
  BY DEF StepsOfCommand, Generation, DatasetTypeOK
<1>3. UniformManifests'
  BY DEF UniformManifests
<1>4. RowsInOrder'
  BY DEF RowsInOrder, DatasetTypeOK
<1>5. RowsWritten' /\ RowsLoaded'
  BY DEF RowsWritten, RowsLoaded
<1>6. QueriesWritten'
  BY DEF QueriesWritten, Coherent
<1> QED BY <1>1, <1>2, <1>3, <1>4, <1>5, <1>6

\* Normalize replaces the row files one after the other.
LEMMA WriteRowsInv == DatasetInv /\ WriteRows => DatasetInv'
<1> SUFFICES ASSUME DatasetInv, WriteRows PROVE DatasetInv'
  OBVIOUS
<1> USE DatasetAssumption DEF DatasetInv, WriteRows, More, Goto, Absent
<1>1. cmd = "normalize" /\ gen \in Generation /\ n \in 1..RowFiles
  BY DEF StepsOfCommand, DatasetTypeOK
<1>2. DatasetTypeOK'
  BY <1>1 DEF DatasetTypeOK
<1>3. StepsOfCommand'
  BY <1>1 DEF StepsOfCommand, DatasetTypeOK
<1>4. UniformManifests'
  BY DEF UniformManifests
<1>5. \A i \in 1..RowFiles : rows'[i] = IF i = n THEN gen ELSE rows[i]
  BY DEF DatasetTypeOK
<1>6. RowsInOrder'
  <2>1. \A i \in 1..RowFiles : rows[i] \in Int /\ rows[i] <= gen
    BY DEF RowsInOrder, DatasetTypeOK, Generation
  <2>2. \A i \in 1..(n - 1) : rows[i] = gen
    BY DEF RowsWritten
  <2>3. manifest.gen \in Int /\ book.gen \in Int /\ gen \in Int /\ raw \in Int
    BY <1>1 DEF DatasetTypeOK, Book, Generation
  <2>4. \A i, j \in 1..RowFiles : i <= j => rows'[i] >= rows'[j]
    <3> SUFFICES ASSUME NEW i \in 1..RowFiles, NEW j \in 1..RowFiles, i <= j
                 PROVE  rows'[i] >= rows'[j]
      OBVIOUS
    <3>1. CASE i < n
      BY <1>1, <1>5, <2>1, <2>2, <2>3, <3>1
    <3>2. CASE i >= n
      BY <1>1, <1>5, <2>1, <2>3, <3>2 DEF RowsInOrder
    <3> QED BY <1>1, <3>1, <3>2
  <2>5. \A i \in 1..RowFiles : manifest.gen <= rows'[i] /\ rows'[i] <= raw
    BY <1>1, <1>5, <2>1, <2>3 DEF RowsInOrder
  <2>6. \A i \in 1..RowFiles : rows'[i] <= gen
    BY <1>1, <1>5, <2>1, <2>3
  <2> QED BY <1>1, <2>4, <2>5, <2>6 DEF RowsInOrder
<1>7. RowsWritten'
  <2>1. \A i \in 1..n : rows'[i] = gen
    BY <1>1, <1>5 DEF RowsWritten
  <2>2. CASE n < RowFiles
    BY <1>1, <2>1, <2>2 DEF RowsWritten
  <2>3. CASE ~ (n < RowFiles)
    BY <1>1, <2>1, <2>3 DEF RowsWritten
  <2> QED BY <2>2, <2>3
<1>8. RowsLoaded'
  BY DEF RowsLoaded
<1>9. QueriesWritten'
  <2> SUFFICES ASSUME ~ LiveRecorder PROVE QueriesWritten'
    BY DEF QueriesWritten
  <2>1. Coherent(manifest)'
    <3>1. rows[1] # manifest.gen => rows'[1] # manifest.gen
      <4>1. rows[1] >= manifest.gen /\ gen >= rows[1]
        BY DEF RowsInOrder
      <4>2. rows'[1] \in {rows[1], gen}
        BY <1>1, <1>5
      <4> QED BY <1>1, <4>1, <4>2 DEF DatasetTypeOK, Book, Generation
    <3> QED BY <3>1 DEF QueriesWritten, Coherent
  <2>2. at' = "rows" \/ at' = "queries" \/ (at' = "log" /\ format # "protobuf")
    OBVIOUS
  <2> QED BY <1>1, <2>1, <2>2 DEF QueriesWritten
<1> QED BY <1>2, <1>3, <1>4, <1>6, <1>7, <1>8, <1>9
\* A command replaces the query files one after the other.
LEMMA WriteQueriesInv == DatasetInv /\ WriteQueries => DatasetInv'
<1> SUFFICES ASSUME DatasetInv, WriteQueries PROVE DatasetInv'
  OBVIOUS
<1> USE DatasetAssumption DEF DatasetInv, WriteQueries, More, Absent, Goto
<1>1. (cmd = "normalize" \/ cmd = "corpus") /\ n \in 1..QueryFiles
  BY DEF StepsOfCommand, DatasetTypeOK
<1>2. gen \in Content
  BY DEF DatasetTypeOK, Content
<1>3. DatasetTypeOK'
  BY <1>1, <1>2 DEF DatasetTypeOK
<1>4. StepsOfCommand'
  BY <1>1 DEF StepsOfCommand
<1>5. UniformManifests' /\ RowsInOrder'
  BY DEF UniformManifests, RowsInOrder
<1>6. RowsWritten' /\ RowsLoaded'
  BY DEF RowsWritten, RowsLoaded
<1>7. QueriesWritten'
  <2> SUFFICES ASSUME ~ LiveRecorder PROVE QueriesWritten'
    BY DEF QueriesWritten
  <2>1. \A q \in 1..n : queries'[q] = gen
    BY <1>1 DEF QueriesWritten, DatasetTypeOK
  <2>2. Coherent(manifest)' /\ CorpusContent' = CorpusContent
    BY DEF QueriesWritten, Coherent, CorpusContent
  <2>3. CASE n < QueryFiles
    BY <1>1, <2>1, <2>2, <2>3 DEF QueriesWritten
  <2>4. CASE ~ (n < QueryFiles)
    <3>1. \A q \in 1..QueryFiles : queries'[q] = gen
      BY <1>1, <2>1, <2>4
    <3> QED BY <1>1, <2>2, <2>4, <3>1 DEF QueriesWritten
  <2> QED BY <2>3, <2>4
<1> QED BY <1>1, <1>2, <1>3, <1>4, <1>5, <1>6, <1>7

\* Normalize replaces its log.
LEMMA WriteLogInv == DatasetInv /\ WriteLog => DatasetInv'
<1> SUFFICES ASSUME DatasetInv, WriteLog PROVE DatasetInv'
  OBVIOUS
<1> USE DatasetAssumption DEF DatasetInv, WriteLog, Absent, Goto
<1>1. cmd = "normalize" /\ gen \in Generation
  BY DEF StepsOfCommand
<1>2. DatasetTypeOK'
  BY <1>1 DEF DatasetTypeOK
<1>3. StepsOfCommand' /\ UniformManifests' /\ RowsInOrder'
  BY <1>1 DEF StepsOfCommand, UniformManifests, RowsInOrder
<1>4. RowsWritten' /\ RowsLoaded'
  BY <1>1 DEF RowsWritten, RowsLoaded
<1>5. QueriesWritten'
  BY <1>1 DEF QueriesWritten, Coherent
<1> QED BY <1>1, <1>2, <1>3, <1>4, <1>5

\* Normalize reads back what it has written.
LEMMA HashFilesInv == DatasetInv /\ HashFiles => DatasetInv'
<1> SUFFICES ASSUME DatasetInv, HashFiles PROVE DatasetInv'
  OBVIOUS
<1> USE DatasetAssumption DEF DatasetInv, HashFiles, Absent, Goto, fileVars, Hashes, NoEntries
<1>1. cmd = "normalize" /\ gen \in Generation /\ \A i \in 1..RowFiles : rows[i] = gen
  BY DEF StepsOfCommand, RowsWritten
<1>2. DatasetTypeOK'
  BY <1>1 DEF DatasetTypeOK, Book, Content, Generation
<1>3. StepsOfCommand'
  BY <1>1 DEF StepsOfCommand
<1>4. UniformManifests'
  BY <1>1 DEF UniformManifests
<1>5. RowsInOrder'
  BY <1>1 DEF RowsInOrder, Generation
<1>6. RowsWritten' /\ RowsLoaded'
  BY <1>1 DEF RowsWritten, RowsLoaded
<1>7. QueriesWritten'
  <2> SUFFICES ASSUME ~ LiveRecorder PROVE QueriesWritten'
    BY DEF QueriesWritten
  <2>1. Coherent(manifest)'
    BY DEF QueriesWritten, Coherent
  <2>2. Coherent(book)'
    BY <1>1 DEF QueriesWritten, Coherent
  <2> QED BY <1>1, <2>1, <2>2 DEF QueriesWritten
<1> QED BY <1>1, <1>2, <1>3, <1>4, <1>5, <1>6, <1>7

\* The manifest is replaced last.
LEMMA WriteManifestInv == DatasetInv /\ WriteManifest => DatasetInv'
<1> SUFFICES ASSUME DatasetInv, WriteManifest PROVE DatasetInv'
  OBVIOUS
<1> USE DatasetAssumption DEF DatasetInv, WriteManifest, Absent, End
<1>1. cmd = "normalize" \/ cmd = "corpus"
  BY DEF StepsOfCommand
<1>2. DatasetTypeOK'
  BY DEF DatasetTypeOK, Book, NoManifest, NoEntries, Content, Generation
<1>3. StepsOfCommand'
  BY DEF StepsOfCommand
<1>4. UniformManifests'
  BY DEF UniformManifests, NoManifest
<1>5. RowsInOrder'
  BY DEF RowsInOrder
<1>6. RowsWritten' /\ RowsLoaded'
  BY DEF RowsWritten, RowsLoaded
<1>7. QueriesWritten'
  BY DEF QueriesWritten, Coherent
<1> QED BY <1>1, <1>2, <1>3, <1>4, <1>5, <1>6, <1>7

\* A build-query-corpus begins.
LEMMA StartCorpusInv == DatasetInv /\ StartCorpus => DatasetInv'
<1> SUFFICES ASSUME DatasetInv, StartCorpus PROVE DatasetInv'
  OBVIOUS
<1> USE DatasetAssumption DEF DatasetInv, StartCorpus, Absent, Goto, fileVars
<1>1. CorpusContent \in {Absent, Mixed} \cup Generation
  BY DEF CorpusContent, DatasetTypeOK
<1>2. DatasetTypeOK'
  BY <1>1 DEF DatasetTypeOK
<1>3. StepsOfCommand' /\ UniformManifests' /\ RowsInOrder'
  BY DEF StepsOfCommand, UniformManifests, RowsInOrder
<1>4. RowsWritten' /\ RowsLoaded'
  BY DEF RowsWritten, RowsLoaded
<1>5. QueriesWritten'
  BY DEF QueriesWritten, Coherent, CorpusContent
<1> QED BY <1>1, <1>2, <1>3, <1>4, <1>5

\* A build-query-corpus refreshes the entries of the query files.
LEMMA RefreshManifestInv == DatasetInv /\ RefreshManifest => DatasetInv'
<1> SUFFICES ASSUME DatasetInv, RefreshManifest PROVE DatasetInv'
  OBVIOUS
<1>1. CASE ~ manifest.exists
  <2>1. End("ok") /\ UNCHANGED fileVars /\ kills' = kills
    BY <1>1 DEF RefreshManifest
  <2> QED BY <2>1, EndInv DEF DatasetInv, DatasetTypeOK
<1>2. CASE manifest.exists
  <2> USE <1>2, DatasetAssumption DEF DatasetInv, RefreshManifest, RefreshedManifest, Goto,
          fileVars, Absent
  <2>1. cmd = "corpus"
    BY DEF StepsOfCommand
  <2>2. DatasetTypeOK'
    <3>1. manifest \in Book /\ queries \in [1..QueryFiles -> Content]
      BY DEF DatasetTypeOK
    <3>2. [manifest EXCEPT !.queries = queries] \in Book
      BY ONLY <3>1 DEF Book
    <3> QED BY SMTT(30), <2>1, <3>2 DEF DatasetTypeOK
  <2>3. StepsOfCommand'
    BY <2>1 DEF StepsOfCommand
  <2>4. book' = [manifest EXCEPT !.queries = queries] /\ manifest \in Book
    BY DEF DatasetTypeOK
  <2>5. book'.gen = manifest.gen /\ book'.rows = manifest.rows
        /\ book'.queries = queries
    BY <2>4 DEF Book
  <2>6. UniformManifests' /\ RowsInOrder'
    BY <2>1, <2>5 DEF UniformManifests, RowsInOrder
  <2>7. RowsWritten' /\ RowsLoaded'
    BY <2>1 DEF RowsWritten, RowsLoaded
  <2>8. QueriesWritten'
    <3> SUFFICES ASSUME ~ LiveRecorder PROVE QueriesWritten'
      BY DEF QueriesWritten
    <3>1. Coherent(manifest)'
      BY DEF QueriesWritten, Coherent
    <3>2. Coherent(book)'
      <4>1. \A q \in 1..QueryFiles : queries[q] = CorpusContent
        BY <2>1 DEF QueriesWritten
      <4>2. rows[1] = manifest.gen => CorpusContent = manifest.gen
        <5>1. \A i \in 1..RowFiles : rows[1] >= rows[i] /\ rows[i] >= manifest.gen
          BY DEF RowsInOrder
        <5>2. \A i \in 1..RowFiles : rows[i] \in Int
          BY DEF DatasetTypeOK, Generation
        <5>3. rows[1] = manifest.gen => \A i \in 1..RowFiles : rows[i] = rows[1]
          BY <5>1, <5>2
        <5> QED BY <5>3 DEF CorpusContent
      <4> QED BY <2>5, <4>1, <4>2 DEF Coherent
    <3> QED BY <2>1, <3>1, <3>2 DEF QueriesWritten
  <2> QED BY <2>2, <2>3, <2>6, <2>7, <2>8
<1> QED BY <1>1, <1>2

\* A replay reads the manifest.
LEMMA StartReplayInv == DatasetInv /\ StartReplay => DatasetInv'
<1> SUFFICES ASSUME DatasetInv, StartReplay PROVE DatasetInv'
  OBVIOUS
<1> USE DatasetAssumption DEF DatasetInv, StartReplay, Absent, Goto, fileVars
<1>1. DatasetTypeOK'
  BY DEF DatasetTypeOK
<1>2. StepsOfCommand' /\ UniformManifests' /\ RowsInOrder'
  BY DEF StepsOfCommand, UniformManifests, RowsInOrder
<1>3. RowsWritten' /\ RowsLoaded'
  BY DEF RowsWritten, RowsLoaded
<1>4. QueriesWritten'
  BY DEF QueriesWritten, Coherent
<1> QED BY <1>1, <1>2, <1>3, <1>4

\* A replay validates the hashes, or ends.
LEMMA ValidateInv == DatasetInv /\ Validate => DatasetInv'
<1> SUFFICES ASSUME DatasetInv, Validate PROVE DatasetInv'
  OBVIOUS
<1>1. CASE ~ Accepts(book)
  <2>1. End("error") /\ UNCHANGED fileVars /\ kills' = kills
    BY <1>1 DEF Validate
  <2> QED BY <2>1, EndInv DEF DatasetInv, DatasetTypeOK
<1>2. CASE Accepts(book)
  <2> USE <1>2, DatasetAssumption DEF DatasetInv, Validate, Goto, fileVars, Absent
  <2>1. cmd = "replay"
    BY DEF StepsOfCommand
  <2>2. DatasetTypeOK'
    BY <2>1 DEF DatasetTypeOK
  <2>3. StepsOfCommand' /\ UniformManifests' /\ RowsInOrder'
    BY <2>1 DEF StepsOfCommand, UniformManifests, RowsInOrder
  <2>4. RowsWritten' /\ RowsLoaded'
    BY <2>1 DEF RowsWritten, RowsLoaded, Accepts
  <2>5. QueriesWritten'
    BY <2>1 DEF QueriesWritten, Coherent
  <2> QED BY <2>2, <2>3, <2>4, <2>5
<1> QED BY <1>1, <1>2

\* A replay loads the row files one after the other.
LEMMA LoadRowsInv == DatasetInv /\ LoadRows => DatasetInv'
<1> SUFFICES ASSUME DatasetInv, LoadRows PROVE DatasetInv'
  OBVIOUS
<1> USE DatasetAssumption DEF DatasetInv, LoadRows, More, Absent, Goto, fileVars
<1>1. cmd = "replay" /\ n \in 1..RowFiles
  BY DEF StepsOfCommand, DatasetTypeOK
<1>2. DatasetTypeOK'
  BY <1>1 DEF DatasetTypeOK
<1>3. StepsOfCommand' /\ UniformManifests' /\ RowsInOrder'
  BY <1>1 DEF StepsOfCommand, UniformManifests, RowsInOrder
<1>4. RowsWritten'
  BY <1>1 DEF RowsWritten
<1>5. RowsLoaded'
  <2>1. \A i \in 1..n : loaded'[i] = rows[i]
    BY <1>1 DEF RowsLoaded, DatasetTypeOK
  <2>2. CASE n < RowFiles
    BY <1>1, <2>1, <2>2 DEF RowsLoaded
  <2>3. CASE ~ (n < RowFiles)
    BY <1>1, <2>1, <2>3 DEF RowsLoaded
  <2> QED BY <2>2, <2>3
<1>6. QueriesWritten'
  BY <1>1 DEF QueriesWritten, Coherent
<1> QED BY <1>1, <1>2, <1>3, <1>4, <1>5, <1>6

\* A replay puts its checkpoint.
LEMMA PutCheckpointInv == DatasetInv /\ PutCheckpoint => DatasetInv'
<1> SUFFICES ASSUME DatasetInv, PutCheckpoint PROVE DatasetInv'
  OBVIOUS
<1> USE DatasetAssumption DEF DatasetInv, PutCheckpoint, Absent, Goto, fileVars
<1>1. cmd = "replay"
  BY DEF StepsOfCommand
<1>2. DatasetTypeOK'
  BY <1>1 DEF DatasetTypeOK, Book
<1>3. StepsOfCommand' /\ UniformManifests' /\ RowsInOrder'
  BY <1>1 DEF StepsOfCommand, UniformManifests, RowsInOrder
<1>4. RowsWritten' /\ RowsLoaded'
  BY <1>1 DEF RowsWritten, RowsLoaded
<1>5. QueriesWritten'
  BY <1>1 DEF QueriesWritten, Coherent
<1> QED BY <1>1, <1>2, <1>3, <1>4, <1>5

\* Every step of the system keeps the invariant.
LEMMA InvStep == DatasetInv /\ [DatasetNext]_datasetVars => DatasetInv'
<1> SUFFICES ASSUME DatasetInv, [DatasetNext]_datasetVars PROVE DatasetInv'
  OBVIOUS
<1>1. CASE UNCHANGED datasetVars
  BY <1>1 DEF datasetVars, fileVars, cmdVars, DatasetInv, DatasetTypeOK, StepsOfCommand,
     UniformManifests, RowsInOrder, RowsWritten, RowsLoaded, QueriesWritten, Coherent,
     CorpusContent
<1>2. CASE RecordMore \/ RecordKeys
  BY <1>2, RecordMoreInv, RecordKeysInv
<1>3. CASE StartCommand
  BY <1>3, StartNormalizeInv, StartCorpusInv, StartReplayInv DEF StartCommand
<1>4. CASE CommandStep
  <2>1. CASE FinishReplay
    BY <2>1, EndInv DEF FinishReplay, DatasetInv, DatasetTypeOK
  <2> QED BY <1>4, <2>1, WriteRowsInv, WriteQueriesInv, WriteLogInv, HashFilesInv,
          WriteManifestInv, RefreshManifestInv, ValidateInv, LoadRowsInv, PutCheckpointInv
          DEF CommandStep
<1>5. CASE Kill
  <2>1. kills' \in 0..MaxKills
    BY <1>5, DatasetAssumption DEF Kill, DatasetInv, DatasetTypeOK
  <2> QED BY <1>5, <2>1, EndInv DEF Kill
<1> QED BY <1>1, <1>2, <1>3, <1>4, <1>5 DEF DatasetNext

-----------------------------------------------------------------------------
(* Theorems. *)

\* The invariant holds in every reachable state.
THEOREM DatasetInvariance == DatasetSpec => []DatasetInv
BY InvInit, InvStep, PTL DEF DatasetSpec

\* Every variable keeps its type.
THEOREM DatasetTypeCorrect == DatasetSpec => []DatasetTypeOK
<1>1. DatasetInv => DatasetTypeOK
  BY DEF DatasetInv
<1> QED BY <1>1, DatasetInvariance, PTL

\* A replay that completes has loaded one normalization, the one it counts.
THEOREM ReplayCorrect == DatasetSpec => []LoadsOneNormalization
<1>1. DatasetInv => LoadsOneNormalization
  BY DEF DatasetInv, LoadsOneNormalization, RowsLoaded, UniformManifests
<1> QED BY <1>1, DatasetInvariance, PTL

\* What the invariant says of a dataset that validates, when no recorder is live.
LEMMA ValidIsCoherent == ASSUME ~ LiveRecorder, DatasetInv PROVE ValidMeansCoherent
<1> SUFFICES ASSUME Accepts(manifest)
             PROVE  /\ \A i \in 1..RowFiles : rows[i] = manifest.gen
                    /\ \A q \in 1..QueryFiles :
                         manifest.queries[q] \in {Absent, manifest.gen}
  BY DEF ValidMeansCoherent
<1>1. \A i \in 1..RowFiles : rows[i] = manifest.gen
  BY DEF Accepts, DatasetInv, UniformManifests
<1>2. rows[1] = manifest.gen
  BY <1>1, DatasetAssumption
<1>3. Coherent(manifest)
  BY DEF DatasetInv, QueriesWritten
<1> QED BY <1>1, <1>2, <1>3 DEF Coherent

\* Without a recorder beside them, the commands leave only datasets whose query files
\* belong to their rows, or that do not validate.
THEOREM ValidationCorrect ==
    ASSUME ~ LiveRecorder
    PROVE  DatasetSpec => []ValidMeansCoherent
<1>1. DatasetInv => ValidMeansCoherent
  BY ValidIsCoherent
<1> QED BY <1>1, DatasetInvariance, PTL

\* Without a recorder beside it, a normalize that completes leaves a dataset that
\* validates and holds the newest raw input, whatever was killed before.
THEOREM NormalizeCorrect ==
    ASSUME ~ LiveRecorder
    PROVE  DatasetSpec => NormalizeRepairs
<1>1. ASSUME DatasetInv, [DatasetNext]_datasetVars, cmd = "normalize", result' = "ok"
      PROVE  Accepts(manifest)' /\ manifest'.gen = raw'
  <2>1. WriteManifest
    BY <1>1 DEF DatasetNext, RecordMore, RecordKeys, StartCommand, StartNormalize,
       StartCorpus, StartReplay, CommandStep, WriteRows, WriteQueries, WriteLog, HashFiles,
       RefreshManifest, Validate, LoadRows, PutCheckpoint, FinishReplay, Kill, End,
       datasetVars, cmdVars, DatasetInv, StepsOfCommand
  <2>2. book.exists /\ book.rows = rows /\ book.log = log /\ book.gen = raw
    BY <1>1, <2>1 DEF WriteManifest, DatasetInv, RowsWritten, QueriesWritten
  <2>3. \A q \in 1..QueryFiles : book.queries[q] # Absent => book.queries[q] = queries[q]
    BY <1>1, <2>1 DEF WriteManifest, DatasetInv, QueriesWritten, NoEntries
  <2> QED BY <2>1, <2>2, <2>3 DEF WriteManifest, Accepts
<1>2. DatasetInv /\ [DatasetNext]_datasetVars =>
        [cmd = "normalize" /\ result' = "ok" =>
           Accepts(manifest)' /\ manifest'.gen = raw']_datasetVars
  BY <1>1
<1> QED BY <1>2, DatasetInvariance, PTL DEF DatasetSpec, NormalizeRepairs
=============================================================================
