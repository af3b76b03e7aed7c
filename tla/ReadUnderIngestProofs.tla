------------------------ MODULE ReadUnderIngestProofs ------------------------
(***************************************************************************)
(* Theorems about ReadUnderIngest: a benchmark that reads while its ingest *)
(* thread loads, with any number of readers and of queries, over a dataset *)
(* of any size and content.                                                *)
(***************************************************************************)
EXTENDS ReadUnderIngest, EnginesProofs

-----------------------------------------------------------------------------
(* Numbers. *)

\* Two strides that meet are one.
LEMMA DealtOnce ==
    ASSUME NEW C \in Nat \ {0}, NEW v \in 0..(C - 1), NEW w \in 0..(C - 1),
           NEW j \in Nat, NEW k \in Nat, v + j * C = w + k * C
    PROVE  v = w /\ j = k
<1>1. j * C - k * C = (j - k) * C
  OBVIOUS
<1>2. ~ (j > k)
  <2> SUFFICES ASSUME j > k PROVE FALSE
    OBVIOUS
  <2>1. (k + 1) * C <= j * C
    OBVIOUS
  <2> QED BY <2>1
<1>3. ~ (k > j)
  <2> SUFFICES ASSUME k > j PROVE FALSE
    OBVIOUS
  <2>1. (j + 1) * C <= k * C
    OBVIOUS
  <2> QED BY <2>1
<1> QED BY <1>2, <1>3

\* Every index is one of a worker's stride.
LEMMA SomeoneHasIt ==
    ASSUME NEW C \in Nat \ {0}, NEW i \in Nat
    PROVE  \E w \in 0..(C - 1), k \in Nat : i = w + k * C
<1>1. i = (i % C) + (i \div C) * C /\ i % C \in 0..(C - 1) /\ i \div C \in Nat
  OBVIOUS
<1> QED BY <1>1
-----------------------------------------------------------------------------
(* The keys that a database has. *)

\* The database has an entry under every key of the dataset's rows.
AllKeys == \A p \in Puts : \E w \in rocks : w.key = PutAt(p).key

\* No put takes a key out of the database.
LEMMA KeysStay ==
    ASSUME RocksStep \/ MemoryStep, NEW w \in rocks
    PROVE  \E v \in rocks' : v.key = w.key
<1>1. CASE RocksStep /\ Row # <<>>
  BY <1>1 DEF RocksStep, Upsert
<1>2. CASE ~ (RocksStep /\ Row # <<>>)
  <2>1. rocks' = rocks
    BY <1>2 DEF RocksStep, MemoryStep
  <2> QED BY <2>1
<1> QED BY <1>1, <1>2

\* What a load into an empty database leaves has one.
LEMMA FreshHasAllKeys == ASSUME EventsPart, rocks = Fresh PROVE AllKeys
<1> SUFFICES ASSUME NEW p \in Puts PROVE \E w \in rocks : w.key = PutAt(p).key
  BY DEF AllKeys
<1>1. PICK q \in Puts : /\ PutAt(q).key = PutAt(p).key
                       /\ ~ \E r \in Puts : Earlier(q, r) /\ PutAt(r).key = PutAt(q).key
  BY LastPut
<1>2. PutAt(q) \in Fresh
  BY <1>1 DEF Fresh, LastOf
<1> QED BY <1>1, <1>2

-----------------------------------------------------------------------------
(* What the queries of the corpus find. *)

\* Every transaction has a first event, whose row stands for it.
FirstPart == \A e \in Dataset : \E f \in Dataset : f.version = e.version /\ f.idx = 0

\* Every query of the corpus finds a row in a database with an entry under every key:
\* the files that the corpus is made from are those of the keys that are scanned.
LEMMA QueriesFind ==
    ASSUME EventsPart, FirstPart, AllKeys, engine = "rocksdb",
           NEW q \in QueryCorpus(ToSet(events))
    PROVE  ~ Misses(q)
<1>1. ASSUME NEW p \in Puts PROVE Rows(PutAt(p).key[1], PutAt(p).key[2]) # {}
  <2>1. PICK w \in rocks : w.key = PutAt(p).key
    BY DEF AllKeys
  <2>2. w.row \in Rows(PutAt(p).key[1], PutAt(p).key[2])
    BY <2>1 DEF Rows, RocksRows
  <2> QED BY <2>2
<1>2. ToSet(events) = Dataset /\ \A e \in Dataset : \E i \in 1..Len(events) : events[i] = e
  BY LenProperties DEF ToSet, Dataset, EventsPart
<1>3. ASSUME NEW e \in Dataset PROVE Rows("tx", e.version) # {}
  <2>1. PICK f \in Dataset : f.version = e.version /\ f.idx = 0
    BY DEF FirstPart
  <2>2. PICK i \in 1..Len(events) : events[i] = f
    BY <1>2
  <2>3. <<1, i, 1>> \in Puts /\ PutAt(<<1, i, 1>>) = Entry(PlainKey("txs", f), f)
    BY <2>1, <2>2, SectionsAre DEF Puts, PutAt, Writes, Yields
  <2>4. PutAt(<<1, i, 1>>).key = <<"tx", e.version>>
    BY <2>1, <2>3 DEF Entry, PlainKey
  <2>5. <<"tx", e.version>>[1] = "tx" /\ <<"tx", e.version>>[2] = e.version
    OBVIOUS
  <2> QED BY <1>1, <2>3, <2>4, <2>5
<1>4. ASSUME NEW e \in Dataset, Yields("fills", e)
      PROVE  /\ Rows("fills_by_market", e.content.market) # {}
             /\ Rows("fills_by_account", e.content.account) # {}
  <2>1. PICK i \in 1..Len(events) : events[i] = e
    BY <1>2
  <2>2. /\ <<3, i, 1>> \in Puts /\ PutAt(<<3, i, 1>>) = Entry(MarketKey(e), e)
        /\ <<3, i, 2>> \in Puts /\ PutAt(<<3, i, 2>>) = Entry(AccountKey(e), e)
    BY <1>4, <2>1, SectionsAre DEF Puts, PutAt, Writes, FillWrites
  <2>3. /\ Entry(MarketKey(e), e).key[1] = "fills_by_market"
        /\ Entry(MarketKey(e), e).key[2] = e.content.market
        /\ Entry(AccountKey(e), e).key[1] = "fills_by_account"
        /\ Entry(AccountKey(e), e).key[2] = e.content.account
    BY DEF Entry, MarketKey, AccountKey
  <2> QED BY <1>1, <2>2, <2>3
<1>5. ASSUME NEW e \in Dataset, Yields("builder_rows", e)
      PROVE  Rows("builder", e.content.builder) # {}
  <2>1. PICK i \in 1..Len(events) : events[i] = e
    BY <1>2
  <2>2. <<6, i, 1>> \in Puts /\ PutAt(<<6, i, 1>>) = Entry(BuilderKey(e), e)
    BY <1>5, <2>1, SectionsAre DEF Puts, PutAt, Writes
  <2>3. /\ Entry(BuilderKey(e), e).key[1] = "builder"
        /\ Entry(BuilderKey(e), e).key[2] = e.content.builder
    BY DEF Entry, BuilderKey
  <2> QED BY <1>1, <2>2, <2>3
<1>6. \A v \in Versions(Dataset) : Rows("tx", v) # {}
  BY <1>3 DEF Versions
<1>7. \/ q.kind = "tx" /\ q.of \in Versions(Dataset)
      \/ q.kind = "multi" /\ q.of = FewVersions(Versions(Dataset))
      \/ \E e \in Dataset :
           \/ /\ Yields("fills", e)
              /\ \/ q.kind = "fills_by_market" /\ q.of = e.content.market
                 \/ q.kind = "fills_by_account" /\ q.of = e.content.account
           \/ /\ Yields("builder_rows", e)
              /\ q.kind \in {"builder", "volume"} /\ q.of = e.content.builder
  BY <1>2 DEF QueryCorpus, Query
<1>8. FewVersions(Versions(Dataset)) \subseteq Versions(Dataset)
  BY DEF FewVersions
<1> QED BY <1>4, <1>5, <1>6, <1>7, <1>8 DEF Misses

-----------------------------------------------------------------------------
(* The engine under the benchmark keeps what it keeps under a replay. *)

\* The ingest thread puts every row, and into the database that earlier runs have left.
LEMMA RunLoader == ~ Bench /\ ~ Staged
BY ReadAssumption DEF Bench, Staged

\* To the engine, a step of the benchmark is one of a loader; but a run begins with the
\* rows, gives up where a loader cannot, and goes on when the ingest thread has failed.
LEMMA EngineStep ==
    ASSUME EnginesInv, [ReadNext]_readAndEngineVars
    PROVE  \/ [Next]_vars
           \/ \E kind \in Loaded : Open(kind)
           \/ GiveUp
           \/ IngestFails
<1>1. CASE Grow \/ Ingest \/ Checkpoint
  BY <1>1 DEF Grow, Ingest, Checkpoint, Next, Step
<1>2. CASE Warm \/ (\E w \in Workers : Ask(w)) \/ UNCHANGED readAndEngineVars
  BY <1>2 DEF Warm, Ask, readAndEngineVars
<1>3. CASE JoinIngest
  <2>1. sub = 1 /\ Whole
    BY <1>3 DEF JoinIngest, IngestOver, IngestGood, EnginesInv, PositionPart
  <2>2. EndRows
    BY <1>3, <2>1 DEF JoinIngest, EndRows, RowsDone
  <2> QED BY <2>2 DEF Next, Step
<1>4. CASE WriteReport
  <2>1. Report
    BY <1>4, RunLoader DEF WriteReport, EndRun, Report
  <2> QED BY <2>1 DEF Next, Step
<1>5. CASE CheckpointFails
  <2>1. PutFails
    BY <1>5, RunLoader DEF CheckpointFails, EndRun, PutFails, Abandon
  <2> QED BY <2>1 DEF Next
<1>6. CASE KillRun
  <2>1. Kill
    BY <1>6, RunLoader DEF KillRun, EndRun, Kill, Abandon
  <2> QED BY <2>1 DEF Next
<1> QED BY <1>1, <1>2, <1>3, <1>4, <1>5, <1>6 DEF ReadNext, Thread

\* The invariant of the engine is kept.
LEMMA EngineInvStep ==
    ASSUME EnginesInv, [ReadNext]_readAndEngineVars
    PROVE  EnginesInv'
<1>1. CASE [Next]_vars
  BY <1>1, InvStep
<1>2. ASSUME NEW kind \in Loaded, Open(kind) PROVE EnginesInv'
  BY <1>2, FirstRowInv, EngineAssumption DEF Open
<1>3. CASE GiveUp
  BY <1>3, EndInv DEF GiveUp, EndRun, EnginesInv, CountPart
<1>4. CASE IngestFails
  <2>1. /\ UNCHANGED <<events, rocks, ckpt, final, pc, engine, memory, section, pos, sub>>
        /\ UNCHANGED errors /\ faults' \in 0..MaxFaults
    BY <1>4, EngineAssumption DEF IngestFails, Fault, processVars, EnginesInv, CountPart
  <2>2. EventsPart' /\ CountPart'
    BY <2>1 DEF EnginesInv, EventsPart, CountPart, Distinct
  <2>3. PositionPart'
    BY <2>1, SamePlace DEF EnginesInv, PositionPart, Idle
  <2>4. DatabasePart' /\ LoadPart'
    BY <2>1, SamePlace DEF EnginesInv, DatabasePart, LoadPart, PutAt
  <2> QED BY <2>2, <2>3, <2>4 DEF EnginesInv
<1> QED BY <1>1, <1>2, <1>3, <1>4, EngineStep

\* What the memory engine holds is kept.
LEMMA ReplayUnderReads ==
    ASSUME UniqueFills, EnginesInv, ReplayPart, [ReadNext]_readAndEngineVars
    PROVE  ReplayPart'
<1>1. CASE [Next]_vars
  BY <1>1, RunLoader, ReplayPartStep
<1>2. ASSUME events' = events PROVE InOrder'
  BY <1>2 DEF ReplayPart, InOrder, Precedes
<1>3. ASSUME NEW kind \in Loaded, Open(kind) PROVE ReplayPart'
  <2>1. section' = 1 /\ pos' = 1 /\ memory' = EmptyMemory /\ events' = events
    BY <1>3 DEF Open, Goto, EnginesInv, PositionPart, Idle
  <2>2. (EventsPart /\ section = 1 /\ pos = 1 /\ memory = EmptyMemory => MemoryHolds)'
    BY EmptyHolds, PTL
  <2>3. EmptyMemory' = EmptyMemory /\ EventsPart'
    BY EngineInvStep DEF EmptyMemory, EnginesInv
  <2> QED BY <1>2, <2>1, <2>2, <2>3 DEF ReplayPart
<1>4. CASE GiveUp
  BY <1>2, <1>4 DEF GiveUp, EndRun, End, ReplayPart
<1>5. CASE IngestFails
  <2>1. UNCHANGED <<events, memory, section, pos, engine, pc>>
    BY <1>5 DEF IngestFails, processVars
  <2> QED BY <1>2, <2>1, HoldsStays DEF ReplayPart
<1> QED BY <1>1, <1>3, <1>4, <1>5, EngineStep

\* Whatever the readers of the benchmark meet, its report is about an engine that holds the
\* whole dataset: no step of any thread leads from a failed put, or from a load that is
\* not over, to the report.
THEOREM ReportCorrect ==
    ASSUME UniqueFills
    PROVE  ReadFairSpec => []ReportMeansLoaded
<1>1. ReadInit => EnginesInv /\ ReplayPart
  BY InvInit, EmptySeq DEF ReadInit, Init, Idle, ReplayPart, InOrder
<1>2. EnginesInv /\ ReplayPart /\ [ReadNext]_readAndEngineVars => EnginesInv' /\ ReplayPart'
  BY EngineInvStep, ReplayUnderReads
<1>3. ASSUME EnginesInv, ReplayPart PROVE ReportMeansLoaded
  <2> SUFFICES ASSUME pc = "report", NEW family \in Families
               PROVE  RocksChecksum(Fresh, family) =
                        IF engine = "rocksdb" THEN RocksChecksum(rocks, family)
                        ELSE MemoryChecksum(memory, family)
    BY DEF ReportMeansLoaded
  <2>1. section > Len(Sections) /\ errors = 0 /\ engine \in {"memory", "rocksdb"}
    BY <1>3, RunLoader DEF EnginesInv, PositionPart, CountPart, Whole
  <2>2. CASE engine = "rocksdb"
    BY <1>3, <2>1, <2>2, WholeLoadIsFresh DEF RerunIsFresh
  <2>3. CASE engine = "memory"
    BY <1>3, <2>1, <2>3, HeldChecksums DEF SameChecksums
  <2> QED BY <2>1, <2>2, <2>3
<1> QED BY <1>1, <1>2, <1>3, PTL DEF ReadFairSpec

-----------------------------------------------------------------------------
(* The fills of the builders' rows. *)

\* Between the loads the memory engine is empty, and no entry is added.
LEMMA BuilderUnderReads ==
    ASSUME UniqueFills, EnginesInv, MemoryPart, BuilderHasFill,
           [ReadNext]_readAndEngineVars
    PROVE  MemoryPart' /\ BuilderHasFill'
<1>1. CASE [Next]_vars
  BY <1>1, RunLoader, MemoryPartStep, BuilderStep
<1>2. ASSUME UNCHANGED <<events, rocks>>, MemoryPart' PROVE BuilderHasFill'
  BY <1>2 DEF BuilderHasFill, MemoryPart
<1>3. ASSUME NEW kind \in Loaded, Open(kind) PROVE MemoryPart' /\ UNCHANGED <<events, rocks>>
  BY <1>3 DEF Open, Goto, MemoryPart, Behind, Dataset
<1>4. CASE GiveUp
  <2>1. UNCHANGED <<events, rocks>> /\ pc' = "idle" /\ memory' = EmptyMemory
    BY <1>4 DEF GiveUp, EndRun, End
  <2> QED BY <1>2, <2>1 DEF MemoryPart, EmptyMemory
<1>5. CASE IngestFails
  <2>1. UNCHANGED <<events, rocks, memory, section, pos, engine, pc>>
    BY <1>5 DEF IngestFails, processVars
  <2>2. MemoryPart'
    BY <2>1 DEF MemoryPart, Behind, Dataset
  <2> QED BY <1>2, <2>1, <2>2
<1> QED BY <1>1, <1>2, <1>3, <1>4, <1>5, EngineStep

\* The fill of a builder's attribution row is there whenever a reader can meet the row, in
\* either engine, while the rows are being put, after a failed put and after a kill.
THEOREM BuilderCorrect ==
    ASSUME UniqueFills
    PROVE  ReadFairSpec => []BuilderHasFill
<1>1. ReadInit => EnginesInv /\ MemoryPart /\ BuilderHasFill
  BY InvInit DEF ReadInit, Init, Idle, EmptyMemory, MemoryPart, BuilderHasFill
<1>2. EnginesInv /\ MemoryPart /\ BuilderHasFill /\ [ReadNext]_readAndEngineVars
        => EnginesInv' /\ MemoryPart' /\ BuilderHasFill'
  BY EngineInvStep, BuilderUnderReads
<1> QED BY <1>1, <1>2, PTL DEF ReadFairSpec

-----------------------------------------------------------------------------
(* What the readers of a loaded database meet. *)

\* A dataset that grows has the first event of every transaction.
LEMMA FirstPartStep == ASSUME EventsPart, FirstPart, Normalize PROVE FirstPart'
<1>1. PICK tx \in Transactions :
        events' = events \o [i \in 1..Len(tx) |->
               [content |-> tx[i], version |-> NextVersion, idx |-> i - 1]]
  BY DEF Normalize
<1>2. PICK k \in 1..TxEvents : tx \in [1..k -> Contents]
  BY <1>1 DEF Transactions
<1> DEFINE new == [i \in 1..Len(tx) |->
               [content |-> tx[i], version |-> NextVersion, idx |-> i - 1]]
           n == Len(events)
<1>3. k \in Nat \ {0} /\ Len(tx) = k /\ n \in Nat
  BY <1>2, EngineAssumption, LenProperties DEF EventsPart
<1>4. /\ DOMAIN events = 1..n /\ DOMAIN events' = 1..(n + k)
      /\ \A i \in 1..n : events'[i] = events[i]
      /\ \A i \in 1..k : events'[n + i] = new[i]
  BY <1>1, <1>3, LenProperties DEF EventsPart
<1>5. /\ \A i \in 1..k : new[i].version = NextVersion
      /\ new[1].idx = 0 /\ 1 \in 1..k
  BY <1>3
<1> HIDE DEF new, n
<1>6. events'[n + 1] \in Dataset' /\ Dataset \subseteq Dataset'
  <2>1. n + 1 \in 1..(n + k) /\ 1..n \subseteq 1..(n + k)
    BY <1>3
  <2> QED BY <1>4, <2>1 DEF Dataset
<1> SUFFICES ASSUME NEW i \in 1..(n + k)
             PROVE  \E f \in Dataset' : f.version = events'[i].version /\ f.idx = 0
  BY <1>4 DEF FirstPart, Dataset
<1>7. CASE i \in 1..n
  <2>1. PICK f \in Dataset : f.version = events[i].version /\ f.idx = 0
    BY <1>4, <1>7 DEF FirstPart, Dataset
  <2> QED BY <1>4, <1>6, <1>7, <2>1
<1>8. CASE i \notin 1..n
  <2>1. i - n \in 1..k /\ n + (i - n) = i
    BY <1>3, <1>8
  <2>2. events'[i].version = NextVersion
    BY <1>4, <1>5, <2>1
  <2> QED BY <1>4, <1>5, <1>6, <2>2
<1> QED BY <1>7, <1>8

Corpus == QueryCorpus(ToSet(events))

\* The readers put queries of the corpus; if the run has opened a loaded database, it has
\* entries under all keys throughout, and no query misses.
ReadersPart ==
    /\ pc = "idle" => Off
    /\ FirstPart
    /\ corpus \subseteq Corpus
    /\ wasWhole => engine = "rocksdb" /\ AllKeys
    /\ LoadedNeverMisses

\* A run that is over leaves no reader.
LEMMA ReadersOver ==
    ASSUME ReadersPart, EndRun, events' = events
    PROVE  ReadersPart'
<1>1. Off' /\ corpus' = {} /\ ~ wasWhole'
  BY DEF EndRun, Off, Workers, Indexes
<1>2. FirstPart'
  BY DEF ReadersPart, FirstPart, Dataset
<1> QED BY <1>1, <1>2 DEF ReadersPart, LoadedNeverMisses

\* A step of the readers or of the engine that does not end the run.
LEMMA ReadersGoOn ==
    ASSUME ReadersPart, pc' # "idle", AllKeys => AllKeys', LoadedNeverMisses',
           UNCHANGED <<events, engine, corpus, wasWhole>>
    PROVE  ReadersPart'
<1>1. FirstPart' /\ Corpus' = Corpus
  BY DEF ReadersPart, FirstPart, Dataset, Corpus
<1> QED BY <1>1 DEF ReadersPart

\* Every step keeps what is known of the readers.
LEMMA ReadersStep ==
    ASSUME EnginesInv, ReadersPart, [ReadNext]_readAndEngineVars
    PROVE  ReadersPart'
<1>1. ASSUME UNCHANGED <<events, rocks>> PROVE AllKeys => AllKeys'
  BY <1>1 DEF AllKeys, Puts, PutAt
<1>2. ASSUME wasWhole, NEW q \in corpus PROVE ~ Misses(q)
  BY <1>2, QueriesFind DEF ReadersPart, Corpus, EnginesInv
<1>3. CASE Grow
  <2>1. /\ Normalize /\ Off /\ UNCHANGED readVars /\ UNCHANGED pc
    BY <1>3 DEF Grow, Normalize, processVars, ReadersPart
  <2>2. FirstPart'
    BY <2>1, FirstPartStep DEF ReadersPart, EnginesInv
  <2>3. Off' /\ corpus' = {} /\ ~ wasWhole'
    BY <2>1 DEF Off, readVars, Workers, Indexes
  <2> QED BY <2>2, <2>3 DEF ReadersPart, LoadedNeverMisses
<1>4. ASSUME NEW kind \in Loaded, Open(kind) PROVE ReadersPart'
  <2>1. /\ Off /\ pc' = "rows" /\ engine' = kind /\ stage' = "reads" /\ misses' = misses
        /\ corpus' \in Workloads(ToSet(events)) /\ UNCHANGED <<events, rocks>>
        /\ wasWhole' = (kind = "rocksdb" /\ rocks = Fresh)
    BY <1>4 DEF Open, Goto, ReadersPart
  <2>2. corpus' \subseteq Corpus /\ Corpus' = Corpus /\ FirstPart'
    BY <2>1 DEF Workloads, Corpus, ReadersPart, FirstPart, Dataset
  <2>3. wasWhole' => AllKeys'
    BY <1>1, <2>1, FreshHasAllKeys DEF EnginesInv
  <2> QED BY <2>1, <2>2, <2>3 DEF ReadersPart, LoadedNeverMisses, Off
<1>5. CASE Ingest
  <2>1. /\ pc' # "idle" /\ UNCHANGED <<events, engine>> /\ UNCHANGED readVars
        /\ [Next]_vars
    BY <1>5 DEF Ingest, RocksStep, MemoryStep, Loading, Next, Step
  <2>2. Puts' = Puts /\ \A p : PutAt(p)' = PutAt(p)
    BY <2>1 DEF Puts, PutAt
  <2>3. AllKeys => AllKeys'
    BY <1>5, <2>1, <2>2, KeysStay DEF AllKeys, Ingest
  <2> QED BY <2>1, <2>3, ReadersGoOn DEF readVars, ReadersPart, LoadedNeverMisses
<1>6. CASE IngestFails
  <2>1. /\ pc' # "idle" /\ UNCHANGED <<events, rocks, engine, corpus, wasWhole, misses, stage>>
    BY <1>6 DEF IngestFails, Loading, processVars
  <2> QED BY <1>1, <2>1, ReadersGoOn DEF ReadersPart, LoadedNeverMisses
<1>7. CASE Warm
  <2>1. /\ pc # "idle" /\ UNCHANGED <<events, rocks, engine, pc, corpus, wasWhole, misses>>
    BY <1>7 DEF Warm, vars, processVars, ReadersPart, Off
  <2>2. PICK q \in corpus : IF Misses(q) THEN stage' = "failed" ELSE UNCHANGED stage
    BY <1>7 DEF Warm
  <2>3. wasWhole => stage' = stage
    BY <1>2, <2>2
  <2> QED BY <1>1, <2>1, <2>3, ReadersGoOn DEF ReadersPart, LoadedNeverMisses
<1>8. ASSUME NEW w \in Workers, Ask(w) PROVE ReadersPart'
  <2>1. /\ pc # "idle" /\ UNCHANGED <<events, rocks, engine, pc, corpus, wasWhole, stage>>
    BY <1>8 DEF Ask, vars, processVars, ReadersPart, Off
  <2>2. wasWhole => misses' = misses
    BY <1>2, <1>8 DEF Ask
  <2> QED BY <1>1, <2>1, <2>2, ReadersGoOn DEF ReadersPart, LoadedNeverMisses
<1>9. CASE JoinIngest \/ Checkpoint
  <2>1. pc' # "idle" /\ UNCHANGED <<events, rocks, engine>> /\ UNCHANGED readVars
    BY <1>9 DEF JoinIngest, Checkpoint, PutCheckpoint
  <2> QED BY <1>1, <2>1, ReadersGoOn DEF readVars, ReadersPart, LoadedNeverMisses
<1>10. CASE GiveUp \/ WriteReport \/ CheckpointFails \/ KillRun
  BY <1>10, ReadersOver DEF GiveUp, WriteReport, CheckpointFails, KillRun
<1>11. CASE UNCHANGED readAndEngineVars
  <2>1. UNCHANGED <<events, rocks, engine, pc>> /\ UNCHANGED readVars
    BY <1>11 DEF readAndEngineVars, vars, processVars
  <2>2. FirstPart' /\ Corpus' = Corpus /\ (AllKeys => AllKeys')
    BY <1>1, <2>1 DEF ReadersPart, FirstPart, Dataset, Corpus
  <2>3. (pc = "idle" => Off)'
    BY <2>1 DEF readVars, ReadersPart, Off, Workers, Indexes
  <2> QED BY <2>1, <2>2, <2>3 DEF readVars, ReadersPart, LoadedNeverMisses
<1> QED BY <1>3, <1>4, <1>5, <1>6, <1>7, <1>8, <1>9, <1>10, <1>11 DEF ReadNext, Thread

\* No query of the corpus misses, in the warmup or in a worker, while a database that holds
\* a whole load is loaded once more: a put that replaces a row never hides it.
THEOREM MissesCorrect == ReadFairSpec => []LoadedNeverMisses
<1>1. ReadInit => EnginesInv /\ ReadersPart
  <2> SUFFICES ASSUME ReadInit PROVE EnginesInv /\ ReadersPart
    OBVIOUS
  <2>1. EnginesInv /\ Off /\ Dataset = {}
    BY InvInit DEF ReadInit, Init, Dataset
  <2> QED BY <2>1 DEF ReadersPart, FirstPart, LoadedNeverMisses, Off
<1>2. EnginesInv /\ ReadersPart /\ [ReadNext]_readAndEngineVars => EnginesInv' /\ ReadersPart'
  BY EngineInvStep, ReadersStep
<1>3. ReadersPart => LoadedNeverMisses
  BY DEF ReadersPart
<1> QED BY <1>1, <1>2, <1>3, PTL DEF ReadFairSpec

-----------------------------------------------------------------------------
(* The indexes that the workers are dealt. *)

\* The index that worker w comes to after k others.
Dealt(w, k) == w + k * Concurrency

\* Every worker goes along its own indexes and has asked for those behind it, once.
DealPart ==
    /\ pc = "idle" => Off
    /\ at \in [Workers -> Nat] /\ asked \in [Indexes -> Nat]
    /\ \A w \in Workers : \E k \in Nat : at[w] = Dealt(w, k)
    /\ \A w \in Workers : \A k \in Nat :
         Dealt(w, k) \in Indexes => asked[Dealt(w, k)] = IF Dealt(w, k) < at[w] THEN 1 ELSE 0
    /\ pc \in {"checkpoint", "report"} => \A w \in Workers : at[w] >= Iterations

\* Where a run begins, nothing has been asked.
LEMMA NothingAsked == ASSUME Off, pc \notin {"checkpoint", "report"} PROVE DealPart
<1>1. Concurrency \in Nat \ {0} /\ Workers \subseteq Nat
  BY ReadAssumption DEF Workers
<1>2. at = [w \in Workers |-> w] /\ asked = [i \in Indexes |-> 0]
  BY DEF Off
<1>3. ASSUME NEW w \in Workers PROVE at[w] = Dealt(w, 0)
  BY <1>1, <1>2, <1>3 DEF Dealt
<1>4. ASSUME NEW w \in Workers, NEW k \in Nat PROVE ~ (Dealt(w, k) < at[w])
  <2>1. k * Concurrency \in Nat /\ w \in Nat
    BY <1>1
  <2> QED BY <1>2, <2>1 DEF Dealt
<1> QED BY <1>1, <1>2, <1>3, <1>4 DEF DealPart

\* A query moves its worker on to the next of the worker's indexes.
LEMMA AskStep ==
    ASSUME DealPart, NEW v \in Workers, Ask(v), pc \notin {"idle", "checkpoint", "report"}
    PROVE  DealPart'
<1>1. Concurrency \in Nat \ {0} /\ Workers = 0..(Concurrency - 1) /\ Iterations \in Nat
  BY ReadAssumption DEF Workers
<1>2. /\ at[v] < Iterations /\ UNCHANGED pc
      /\ asked' = [asked EXCEPT ![at[v]] = @ + 1]
      /\ at' = [at EXCEPT ![v] = at[v] + Concurrency]
  BY DEF Ask, Stride, vars, processVars
<1>3. at[v] \in Nat /\ at[v] \in Indexes
  <2>1. at[v] \in Nat
    BY DEF DealPart
  <2> QED BY <1>1, <1>2, <2>1 DEF Indexes
<1>4. at' \in [Workers -> Nat] /\ asked' \in [Indexes -> Nat]
  <2>1. at \in [Workers -> Nat] /\ asked \in [Indexes -> Nat]
    BY DEF DealPart
  <2>2. at[v] + Concurrency \in Nat /\ asked[at[v]] + 1 \in Nat
    BY <1>1, <1>3, <2>1
  <2> QED BY <1>2, <2>1, <2>2
<1>5. PICK j \in Nat : at[v] = Dealt(v, j)
  BY DEF DealPart
<1>6. at'[v] = Dealt(v, j + 1)
  BY <1>1, <1>2, <1>5 DEF DealPart, Dealt
<1>7. ASSUME NEW w \in Workers PROVE \E k \in Nat : at'[w] = Dealt(w, k)
  <2>1. CASE w = v
    BY <1>6, <2>1
  <2>2. CASE w # v
    BY <1>2, <2>2 DEF DealPart
  <2> QED BY <2>1, <2>2
<1>8. ASSUME NEW w \in Workers, NEW k \in Nat, Dealt(w, k) \in Indexes
      PROVE  asked'[Dealt(w, k)] = IF Dealt(w, k) < at'[w] THEN 1 ELSE 0
  <2>1. asked[Dealt(w, k)] = IF Dealt(w, k) < at[w] THEN 1 ELSE 0
    BY <1>8 DEF DealPart
  <2>2. CASE w # v
    <3>1. Dealt(w, k) # at[v]
      BY <1>1, <1>5, <2>2, DealtOnce DEF Dealt
    <3> QED BY <1>2, <1>8, <2>1, <2>2, <3>1 DEF DealPart
  <2>3. CASE w = v /\ k = j
    <3>1. Dealt(w, k) = at[v] /\ at'[w] = at[v] + Concurrency
      BY <1>2, <1>5, <2>3 DEF DealPart
    <3>2. asked[at[v]] = 0 /\ asked'[at[v]] = 1
      BY <1>2, <1>3, <2>1, <2>3, <3>1 DEF DealPart
    <3> QED BY <1>1, <1>3, <3>1, <3>2
  <2>4. CASE w = v /\ k # j
    <3>1. Dealt(w, k) # at[v]
      BY <1>1, <1>5, <2>4, DealtOnce DEF Dealt
    <3>2. asked'[Dealt(w, k)] = asked[Dealt(w, k)]
      BY <1>2, <1>8, <3>1 DEF DealPart
    <3>3. Dealt(w, k) < at'[w] <=> Dealt(w, k) < at[w]
      <4>1. CASE k < j
        <5>1. k * Concurrency <= j * Concurrency
          BY <1>1, <4>1
        <5>2. k * Concurrency \in Nat /\ j * Concurrency \in Nat /\ v \in Nat
          BY <1>1
        <5>3. Dealt(w, k) <= at[w]
          BY <1>5, <2>4, <5>1, <5>2 DEF Dealt
        <5> QED BY <1>1, <1>2, <1>3, <2>4, <3>1, <5>2, <5>3 DEF DealPart, Dealt
      <4>2. CASE k > j
        <5>1. (j + 1) * Concurrency <= k * Concurrency
          BY <1>1, <4>2
        <5>2. k * Concurrency \in Nat /\ (j + 1) * Concurrency \in Nat /\ v \in Nat
          BY <1>1
        <5>3. Dealt(w, k) >= at'[w]
          BY <1>6, <2>4, <5>1, <5>2 DEF Dealt
        <5> QED BY <1>1, <1>2, <1>3, <2>4, <5>2, <5>3 DEF DealPart, Dealt
      <4> QED BY <2>4, <4>1, <4>2
    <3> QED BY <2>1, <3>2, <3>3
  <2> QED BY <2>2, <2>3, <2>4
<1> QED BY <1>2, <1>4, <1>7, <1>8 DEF DealPart

\* Every step keeps what is known of the indexes; only when all workers are through does
\* the run go on to the checkpoint.
LEMMA DealStep ==
    ASSUME DealPart, [ReadNext]_readAndEngineVars
    PROVE  DealPart'
<1>1. ASSUME UNCHANGED <<at, asked>>, pc' # "idle",
             pc' \in {"checkpoint", "report"} => \A w \in Workers : at[w] >= Iterations
      PROVE  DealPart'
  BY <1>1 DEF DealPart
<1>2. ASSUME Off', pc' \notin {"checkpoint", "report"} PROVE DealPart'
  <2>1. (Off /\ pc \notin {"checkpoint", "report"} => DealPart)'
    BY NothingAsked, PTL
  <2> QED BY <1>2, <2>1
<1>3. CASE Grow \/ UNCHANGED readAndEngineVars
  <2>1. UNCHANGED pc /\ UNCHANGED readVars
    BY <1>3 DEF Grow, Normalize, processVars, readAndEngineVars, vars
  <2>2. UNCHANGED <<at, asked>> /\ (Off => Off')
    BY <2>1 DEF readVars, Off
  <2> QED BY <2>1, <2>2 DEF DealPart
<1>4. CASE \E kind \in Loaded : Open(kind)
  BY <1>1, <1>4 DEF Open, Goto
<1>5. CASE Ingest \/ IngestFails
  <2>1. UNCHANGED <<at, asked, pc>> /\ pc # "idle" /\ pc \notin {"checkpoint", "report"}
    BY <1>5 DEF Ingest, IngestFails, RocksStep, MemoryStep, Loading, readVars, processVars
  <2> QED BY <1>1, <2>1
<1>6. CASE Warm
  <2>1. UNCHANGED <<at, asked, pc>> /\ pc # "idle"
    BY <1>6 DEF Warm, vars, processVars, DealPart, Off
  <2> QED BY <1>1, <2>1 DEF DealPart
<1>7. ASSUME NEW w \in Workers, Ask(w) PROVE DealPart'
  <2>1. pc # "idle" /\ at[w] < Iterations /\ at[w] \in Nat
    BY <1>7 DEF Ask, DealPart, Off
  <2>2. pc \notin {"checkpoint", "report"}
    BY <2>1, ReadAssumption DEF DealPart
  <2> QED BY <1>7, <2>1, <2>2, AskStep
<1>8. CASE JoinIngest
  BY <1>1, <1>8 DEF JoinIngest, ReadsOver, readVars
<1>9. CASE Checkpoint
  BY <1>1, <1>9 DEF Checkpoint, PutCheckpoint, readVars, DealPart
<1>10. CASE GiveUp \/ WriteReport \/ CheckpointFails \/ KillRun
  <2>1. EndRun
    BY <1>10 DEF GiveUp, WriteReport, CheckpointFails, KillRun
  <2> QED BY <1>2, <2>1 DEF EndRun, End, Off, Workers, Indexes
<1> QED BY <1>3, <1>4, <1>5, <1>6, <1>7, <1>8, <1>9, <1>10 DEF ReadNext, Thread

\* However the workers interleave, each index is asked for once when they are joined: none
\* is left out and none is asked for by two workers.
THEOREM IndexesCovered == ReadFairSpec => []EveryIndexOnce
<1>1. ReadInit => DealPart
  BY NothingAsked DEF ReadInit, Init, Idle
<1>2. DealPart /\ [ReadNext]_readAndEngineVars => DealPart'
  BY DealStep
<1>3. ASSUME DealPart PROVE EveryIndexOnce
  <2> SUFFICES ASSUME pc \in {"checkpoint", "report"}, NEW i \in Indexes PROVE asked[i] = 1
    BY DEF EveryIndexOnce
  <2>1. i \in Nat /\ i < Iterations /\ Concurrency \in Nat \ {0} /\ Iterations \in Nat
    BY ReadAssumption DEF Indexes
  <2>2. PICK w \in Workers : \E k \in Nat : i = Dealt(w, k)
    BY <2>1, SomeoneHasIt DEF Workers, Dealt
  <2>3. PICK k \in Nat : i = Dealt(w, k)
    BY <2>2
  <2>4. at[w] >= Iterations /\ at[w] \in Nat
    BY <1>3 DEF DealPart
  <2>5. i < at[w]
    BY <2>1, <2>4
  <2>6. asked[i] = IF i < at[w] THEN 1 ELSE 0
    BY <1>3, <2>3 DEF DealPart
  <2> QED BY <2>5, <2>6
<1> QED BY <1>1, <1>2, <1>3, PTL DEF ReadFairSpec

-----------------------------------------------------------------------------
(* Scans with a limit. *)

\* The fields that both engines sort by first: the time, turned round, and in a market
\* the version.
Recency(family, e) ==
    IF family = "fills_by_market" THEN <<-Time(e), e.version>> ELSE <<-Time(e)>>

\* An id is a number or two.
LEMMA IdIsNumbers ==
    ASSUME EventsPart, VersionsPart, NEW e \in Fills
    PROVE  Id(e) \in Seq(Int)
<1>1. e \in Event /\ e.version \in Nat /\ e.idx \in Nat /\ e.content \in Contents
  BY TimeIsNumber DEF Fills, Event
<1>2. e.content.id \in Int \cup {NoValue}
  BY <1>1, ReadAssumption DEF Fills, IsFill
<1>3. <<e.version, e.idx>> \in Seq(Int)
  BY <1>1
<1>4. e.content.id # NoValue => <<e.content.id>> \in Seq(Int)
  BY <1>2
<1> QED BY <1>3, <1>4 DEF Id

\* The rank of a fill in either engine begins with its recency and ends with its id.
LEMMA FillOrders ==
    ASSUME EventsPart, VersionsPart, NEW e \in Fills, NEW family \in ScanFamilies
    PROVE  /\ Recency(family, e) \in Seq(Int)
           /\ \A order \in {RocksOrder(family, e), MemoryOrder(family, e)} :
                /\ order \in Seq(Int)
                /\ Len(Recency(family, e)) <= Len(order)
                /\ \A i \in 1..Len(Recency(family, e)) : order[i] = Recency(family, e)[i]
<1> DEFINE t == -Time(e)
           m == e.content.market
<1>1. e \in Event /\ e.version \in Int /\ e.idx \in Int /\ t \in Int /\ e.content \in Contents
  BY TimeIsNumber DEF Fills, Event
<1>2. m \in Int
  BY <1>1, ReadAssumption DEF Fills, IsFill
<1> HIDE DEF t, m
<1>3. Id(e) \in Seq(Int) /\ Len(Id(e)) \in Nat
  BY IdIsNumbers, LenProperties
<1>4. /\ <<t>> \in Seq(Int) /\ <<t, e.version>> \in Seq(Int) /\ <<t, m>> \in Seq(Int)
      /\ <<t, e.version, e.idx>> \in Seq(Int)
  BY <1>1, <1>2
<1> DEFINE Starts(r, order) == /\ order \in Seq(Int)
                               /\ Len(r) <= Len(order)
                               /\ \A i \in 1..Len(r) : order[i] = r[i]
<1> DEFINE Prefix(r, first) == Len(r) <= Len(first) /\ \A i \in 1..Len(r) : first[i] = r[i]
<1>5. ASSUME NEW r \in Seq(Int), NEW first \in Seq(Int), Prefix(r, first)
      PROVE  Starts(r, first \o Id(e))
  <2>1. /\ first \o Id(e) \in Seq(Int) /\ Len(first \o Id(e)) = Len(first) + Len(Id(e))
        /\ \A i \in 1..(Len(first) + Len(Id(e))) :
              (first \o Id(e))[i] = IF i <= Len(first) THEN first[i] ELSE Id(e)[i - Len(first)]
    BY <1>3, ConcatProperties
  <2>2. Len(r) \in Nat /\ Len(first) \in Nat
    OBVIOUS
  <2> QED BY <1>3, <1>5, <2>1, <2>2
<1>6. Recency(family, e) = IF family = "fills_by_market" THEN <<t, e.version>> ELSE <<t>>
  BY DEF Recency, t
<1>7. Recency(family, e) \in Seq(Int)
  BY <1>4, <1>6
<1>8. /\ Starts(<<t>>, <<t>> \o Id(e)) /\ Starts(<<t>>, <<t, m>> \o Id(e))
      /\ Starts(<<t>>, <<t, e.version, e.idx>> \o Id(e))
      /\ Starts(<<t, e.version>>, <<t, e.version>> \o Id(e))
      /\ Starts(<<t, e.version>>, <<t, e.version, e.idx>> \o Id(e))
  <2>1. /\ Prefix(<<t>>, <<t>>) /\ Prefix(<<t>>, <<t, m>>)
        /\ Prefix(<<t>>, <<t, e.version, e.idx>>)
        /\ Prefix(<<t, e.version>>, <<t, e.version>>)
        /\ Prefix(<<t, e.version>>, <<t, e.version, e.idx>>)
    OBVIOUS
  <2> HIDE DEF Starts, Prefix
  <2> QED BY <1>4, <1>5, <2>1
<1> HIDE DEF Starts
<1>9. Starts(Recency(family, e), RocksOrder(family, e))
  BY <1>6, <1>8 DEF RocksOrder, ScanFamilies, t, m
<1>10. Starts(Recency(family, e), MemoryOrder(family, e))
  BY <1>6, <1>8 DEF MemoryOrder, ScanFamilies, t
<1> QED BY <1>7, <1>9, <1>10 DEF Starts

\* Fills with an id of their own have a rank of their own.
LEMMA FillOrdersDiffer ==
    ASSUME UniqueFills, EventsPart, VersionsPart, NEW e \in Fills, NEW f \in Fills,
           NEW family \in ScanFamilies,
           \/ RocksOrder(family, e) = RocksOrder(family, f)
           \/ MemoryOrder(family, e) = MemoryOrder(family, f)
    PROVE  e = f
<1> DEFINE ranks(g) == {<<-Time(g)>>, <<-Time(g), g.version>>, <<-Time(g), g.content.market>>,
                        <<-Time(g), g.version, g.idx>>}
<1>1. ASSUME NEW g \in Fills PROVE Id(g) \in Seq(Int) /\ ranks(g) \subseteq Seq(Int)
  <2>1. g \in Event /\ g.version \in Int /\ g.idx \in Int /\ -Time(g) \in Int /\ g.content \in Contents
    BY TimeIsNumber DEF Fills, Event
  <2>2. g.content.market \in Int
    BY <2>1, ReadAssumption DEF Fills, IsFill
  <2> QED BY <2>1, <2>2, IdIsNumbers
<1>2. \E a \in ranks(e), b \in ranks(f) : Len(a) = Len(b) /\ a \o Id(e) = b \o Id(f)
  <2>1. /\ RocksOrder(family, e) = RocksOrder(family, f) =>
              \/ <<-Time(e), e.version>> \o Id(e) = <<-Time(f), f.version>> \o Id(f)
              \/ <<-Time(e), e.content.market>> \o Id(e) = <<-Time(f), f.content.market>> \o Id(f)
        /\ MemoryOrder(family, e) = MemoryOrder(family, f) =>
              \/ <<-Time(e)>> \o Id(e) = <<-Time(f)>> \o Id(f)
              \/ <<-Time(e), e.version, e.idx>> \o Id(e) = <<-Time(f), f.version, f.idx>> \o Id(f)
    BY DEF RocksOrder, MemoryOrder, ScanFamilies
  <2>2. /\ Len(<<-Time(e)>>) = Len(<<-Time(f)>>)
        /\ Len(<<-Time(e), e.version>>) = Len(<<-Time(f), f.version>>)
        /\ Len(<<-Time(e), e.content.market>>) = Len(<<-Time(f), f.content.market>>)
        /\ Len(<<-Time(e), e.version, e.idx>>) = Len(<<-Time(f), f.version, f.idx>>)
    OBVIOUS
  <2> DEFINE idE == Id(e)
             idF == Id(f)
  <2> HIDE DEF idE, idF
  <2>3. \/ <<-Time(e), e.version>> \o idE = <<-Time(f), f.version>> \o idF
        \/ <<-Time(e), e.content.market>> \o idE = <<-Time(f), f.content.market>> \o idF
        \/ <<-Time(e)>> \o idE = <<-Time(f)>> \o idF
        \/ <<-Time(e), e.version, e.idx>> \o idE = <<-Time(f), f.version, f.idx>> \o idF
    BY <2>1 DEF idE, idF
  <2>4. \E a \in ranks(e), b \in ranks(f) : Len(a) = Len(b) /\ a \o idE = b \o idF
    BY <2>2, <2>3
  <2> QED BY <2>4 DEF idE, idF
<1>3. Id(e) = Id(f)
  <2> HIDE DEF ranks
  <2> QED BY <1>1, <1>2, TailsAgree
<1> QED BY <1>3, FillsById DEF Fills

\* A whole load of the memory engine finds the fills of a scan that the database finds.
LEMMA ScannedRows ==
    ASSUME UniqueFills, EnginesInv, ReplayPart, pc = "report", engine = "memory",
           NEW family \in ScanFamilies, NEW of
    PROVE  /\ MemoryRows(memory, family, of) = RocksRows(Fresh, family, of)
           /\ MemoryRows(memory, family, of) \subseteq Fills
           /\ IsFiniteSet(MemoryRows(memory, family, of))
<1>1. EventsPart /\ InOrder /\ MemoryHolds /\ Whole
  BY RunLoader DEF EnginesInv, ReplayPart, PositionPart
<1>2. memory.fills = Fills /\ memory.builders = BuilderEvents
  BY <1>1, WholeTables
<1>3. IsFiniteSet(Dataset) /\ Fills \subseteq Dataset /\ BuilderEvents \subseteq Fills
  BY <1>1, DatasetIsFinite DEF Fills, BuilderEvents, Yields
<1>4. CASE family = "fills_by_market"
  <2>1. MemoryRows(memory, family, of) = {e \in Fills : e.content.market = of}
    BY <1>2, <1>4 DEF MemoryRows
  <2>2. RocksRows(Fresh, family, of) =
          {w.row : w \in {w \in {Entry(MarketKey(e), e) : e \in Fills} : w.key[2] = of}}
    BY <1>1, <1>4, FreshRows DEF RocksRows
  <2>3. \A e : Entry(MarketKey(e), e).key[2] = e.content.market /\ Entry(MarketKey(e), e).row = e
    BY DEF Entry, MarketKey
  <2>4. RocksRows(Fresh, family, of) = {e \in Fills : e.content.market = of}
    <3>1. ASSUME NEW e \in Fills, e.content.market = of PROVE e \in RocksRows(Fresh, family, of)
      BY <2>2, <2>3, <3>1
    <3>2. ASSUME NEW r \in RocksRows(Fresh, family, of) PROVE r \in Fills /\ r.content.market = of
      <4>1. PICK e \in Fills : r = Entry(MarketKey(e), e).row /\ Entry(MarketKey(e), e).key[2] = of
        BY <2>2
      <4> QED BY <2>3, <4>1
    <3> QED BY <3>1, <3>2
  <2> QED BY <1>3, <2>1, <2>4, FS_Subset
<1>5. CASE family = "fills_by_account"
  <2>1. MemoryRows(memory, family, of) = {e \in Fills : e.content.account = of}
    BY <1>2, <1>5 DEF MemoryRows
  <2>2. RocksRows(Fresh, family, of) =
          {w.row : w \in {w \in {Entry(AccountKey(e), e) : e \in Fills} : w.key[2] = of}}
    BY <1>1, <1>5, FreshRows DEF RocksRows
  <2>3. \A e : Entry(AccountKey(e), e).key[2] = e.content.account /\ Entry(AccountKey(e), e).row = e
    BY DEF Entry, AccountKey
  <2>4. RocksRows(Fresh, family, of) = {e \in Fills : e.content.account = of}
    <3>1. ASSUME NEW e \in Fills, e.content.account = of PROVE e \in RocksRows(Fresh, family, of)
      BY <2>2, <2>3, <3>1
    <3>2. ASSUME NEW r \in RocksRows(Fresh, family, of) PROVE r \in Fills /\ r.content.account = of
      <4>1. PICK e \in Fills : r = Entry(AccountKey(e), e).row /\ Entry(AccountKey(e), e).key[2] = of
        BY <2>2
      <4> QED BY <2>3, <4>1
    <3> QED BY <3>1, <3>2
  <2> QED BY <1>3, <2>1, <2>4, FS_Subset
<1>6. CASE family = "builder"
  <2>1. MemoryRows(memory, family, of) = {e \in BuilderEvents : e.content.builder = of}
    BY <1>2, <1>6 DEF MemoryRows
  <2>2. RocksRows(Fresh, family, of) =
          {w.row : w \in {w \in {Entry(BuilderKey(e), e) : e \in BuilderEvents} : w.key[2] = of}}
    BY <1>1, <1>6, FreshRows DEF RocksRows
  <2>3. \A e : Entry(BuilderKey(e), e).key[2] = e.content.builder /\ Entry(BuilderKey(e), e).row = e
    BY DEF Entry, BuilderKey
  <2>4. RocksRows(Fresh, family, of) = {e \in BuilderEvents : e.content.builder = of}
    <3>1. ASSUME NEW e \in BuilderEvents, e.content.builder = of PROVE e \in RocksRows(Fresh, family, of)
      BY <2>2, <2>3, <3>1
    <3>2. ASSUME NEW r \in RocksRows(Fresh, family, of) PROVE r \in BuilderEvents /\ r.content.builder = of
      <4>1. PICK e \in BuilderEvents : r = Entry(BuilderKey(e), e).row /\ Entry(BuilderKey(e), e).key[2] = of
        BY <2>2
      <4> QED BY <2>3, <4>1
    <3> QED BY <3>1, <3>2
  <2> QED BY <1>3, <2>1, <2>4, FS_Subset
<1> QED BY <1>4, <1>5, <1>6 DEF ScanFamilies

\* Every step keeps the versions counted.
LEMMA VersionsUnderReads ==
    ASSUME EnginesInv, VersionsPart, [ReadNext]_readAndEngineVars
    PROVE  VersionsPart'
<1>1. CASE Grow
  BY <1>1, VersionsStep DEF Grow, EnginesInv
<1>2. CASE ~ Grow
  <2>1. events' = events
    BY <1>2 DEF ReadNext, Thread, Ingest, RocksStep, MemoryStep, Warm, Ask, JoinIngest, GiveUp,
       Checkpoint, PutCheckpoint, WriteReport, IngestFails, CheckpointFails, KillRun, Open,
       readAndEngineVars, vars
  <2> QED BY <2>1 DEF VersionsPart
<1> QED BY <1>1, <1>2

\* After a whole load a scan with a limit shows as many rows in either engine, and in every
\* place one equally recent: the engines keep the fills under different keys and break ties
\* of time differently, but both sort by the recency first.
THEOREM ScansCorrect ==
    ASSUME UniqueFills
    PROVE  ReadFairSpec => []ScansAgree
<1>1. ReadInit => EnginesInv /\ ReplayPart /\ VersionsPart
  BY InvInit, EmptySeq DEF ReadInit, Init, Idle, ReplayPart, InOrder, VersionsPart
<1>2. EnginesInv /\ ReplayPart /\ VersionsPart /\ [ReadNext]_readAndEngineVars
        => EnginesInv' /\ ReplayPart' /\ VersionsPart'
  BY EngineInvStep, ReplayUnderReads, VersionsUnderReads
<1>3. ASSUME EnginesInv, ReplayPart, VersionsPart PROVE ScansAgree
  <2> SUFFICES ASSUME pc = "report", engine = "memory", NEW family \in ScanFamilies,
                      NEW limit \in 1..MaxEvents, NEW of
               PROVE  LET inMemory == MemoryScan(memory, family, of, limit)
                          inRocks == RocksScan(Fresh, family, of, limit)
                      IN  /\ Len(inMemory) = Len(inRocks)
                          /\ \A i \in DOMAIN inMemory :
                               /\ Time(inMemory[i]) = Time(inRocks[i])
                               /\ family = "fills_by_market" =>
                                      inMemory[i].version = inRocks[i].version
    BY DEF ScansAgree
  <2> DEFINE D == MemoryRows(memory, family, of)
             a == [e \in D |-> MemoryOrder(family, e)]
             b == [e \in D |-> RocksOrder(family, e)]
             r == [e \in D |-> Recency(family, e)]
             n == Cardinality(D)
             most == IF limit < n THEN limit ELSE n
  <2>1. EventsPart /\ D \subseteq Fills /\ IsFiniteSet(D) /\ D = RocksRows(Fresh, family, of)
    BY <1>3, ScannedRows DEF EnginesInv
  <2>2. MemoryScan(memory, family, of, limit) = FirstOf(a, limit)
    BY DEF MemoryScan
  <2>3. RocksScan(Fresh, family, of, limit) = FirstOf(b, limit)
    BY <2>1 DEF RocksScan
  <2> HIDE DEF D
  <2>4. Ranks(a, D) /\ Ranks(b, D)
    BY <1>3, <2>1, FillOrders, FillOrdersDiffer DEF Ranks
  <2>5. r \in [D -> Seq(Int)]
    BY <1>3, <2>1, FillOrders
  <2>6. ASSUME NEW c \in D, NEW d \in D, Before(r[c], r[d])
        PROVE  Before(a[c], a[d]) /\ Before(b[c], b[d])
    <3>1. c \in Fills /\ d \in Fills /\ Len(Recency(family, c)) = Len(Recency(family, d))
      BY <2>1 DEF Recency
    <3>2. Before(Recency(family, c), Recency(family, d))
      BY <2>6
    <3>3. Before(MemoryOrder(family, c), MemoryOrder(family, d))
      BY <1>3, <2>1, <3>1, <3>2, FillOrders, BeforeFromStart
    <3>4. Before(RocksOrder(family, c), RocksOrder(family, d))
      BY <1>3, <2>1, <3>1, <3>2, FillOrders, BeforeFromStart
    <3> QED BY <3>3, <3>4
  <2>7. \A e \in D : r[e] = Recency(family, e)
    OBVIOUS
  <2> HIDE DEF a, b, r
  <2>8. limit \in Nat /\ n \in Nat
    BY <2>1, FS_CardinalityType, EngineAssumption
  <2>9. /\ Len(FirstOf(a, limit)) = most /\ DOMAIN FirstOf(a, limit) = 1..most
        /\ \A i \in 1..most : FirstOf(a, limit)[i] = Sorted(a)[i]
    BY <2>1, <2>4, <2>8, FirstOfIs
  <2>10. /\ Len(FirstOf(b, limit)) = most
         /\ \A i \in 1..most : FirstOf(b, limit)[i] = Sorted(b)[i]
    BY <2>1, <2>4, <2>8, FirstOfIs
  <2>11. ASSUME NEW i \in 1..most
         PROVE  /\ Time(Sorted(a)[i]) = Time(Sorted(b)[i])
                /\ family = "fills_by_market" => Sorted(a)[i].version = Sorted(b)[i].version
    <3> DEFINE e == Sorted(a)[i]
               f == Sorted(b)[i]
    <3>1. i \in 1..n
      BY <2>8
    <3>2. e \in D /\ f \in D /\ r[e] = r[f]
      BY <2>1, <2>4, <2>5, <2>6, <3>1, OrdersAgree
    <3>3. Recency(family, e) = Recency(family, f) /\ e \in Fills /\ f \in Fills
      BY <2>1, <2>7, <3>2
    <3> HIDE DEF e, f
    <3>4. Time(e) \in Int /\ Time(f) \in Int
      BY <1>3, <2>1, <3>3, TimeIsNumber DEF Fills
    <3>5. -Time(e) = -Time(f) /\ (family = "fills_by_market" => e.version = f.version)
      BY <3>3 DEF Recency
    <3>6. Time(e) = Time(f)
      BY <3>4, <3>5
    <3> QED BY <3>5, <3>6 DEF e, f
  <2> HIDE DEF most
  <2> QED BY <2>2, <2>3, <2>9, <2>10, <2>11
<1> QED BY <1>1, <1>2, <1>3, PTL DEF ReadFairSpec
=============================================================================
