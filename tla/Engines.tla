------------------------------ MODULE Engines ------------------------------
(***************************************************************************)
(* The storage engines, and the processes that put the rows of a dataset   *)
(* into them: decibel-dataset replay and the ingest benchmark.             *)
(*                                                                         *)
(* decibel_parser turns each event into rows of several files; the files   *)
(* are loaded one after the other.  MemoryEngine lives in the process.     *)
(* RocksDbEngine is a database on disk: a column family is the set of its  *)
(* [key, row] entries, and put_fill is three puts, between which other     *)
(* threads read and the process may die.  A benchmark opens the database   *)
(* that earlier ones have left; a replay loads a staging directory of its  *)
(* own and publishes it when it is complete.                               *)
(*                                                                         *)
(* The row an event yields has the event's version and index in it, so it  *)
(* is written as the event itself.  Every property is one of every moment  *)
(* a concurrent reader may look.                                           *)
(***************************************************************************)
EXTENDS Integers, Sequences, FiniteSets

CONSTANTS
    Contents,       \* what an event may say: see Content
    NoValue,        \* a field the event lacks
    Timestamp(_),   \* block_timestamp_us of a version
    MaxEvents,      \* how many events a dataset has (bounds the model)
    TxEvents,       \* how many of them one transaction has (bounds the model)
    UniqueFills,    \* does no fill share its fill_id with another
    Loader,         \* which program puts the rows: "replay", "ingest" (the ingest
                    \* benchmark) or "read_under_ingest" (the other one that loads)
    Loaded,         \* the engines that are loaded, of "memory" and "rocksdb"
    Faults,         \* "kill": the process dies; "error": a put fails
    MaxFaults       \* how many (bounds the model)

\* Event kinds of decibel_parser: a notice (liquidation, funding, market, builder fee)
\* only has an activity row; an unknown event, or one that lacks the market or account
\* of its row, has none at all.
Kinds == {"fill", "order", "position", "notice", "unknown"}

ASSUME EngineAssumption ==
    /\ \A c \in Contents : c.kind \in Kinds
    /\ \A v \in 1..MaxEvents : Timestamp(v) \in Nat
    /\ MaxEvents \in Nat
    /\ TxEvents \in Nat
    /\ UniqueFills \in BOOLEAN
    /\ Loader \in {"replay", "ingest", "read_under_ingest"}
    /\ Loaded \subseteq {"memory", "rocksdb"}
    /\ MaxFaults \in Nat

\* The benchmark's --warmup and --iterations may end before the last row.
Bench == Loader = "ingest"

\* A replay's database is private to its process until it is published.
Staged == Loader = "replay"

VARIABLES
    events,     \* of the dataset, in the order of the raw input
    rocks,      \* the entries of the database that is loaded
    ckpt,       \* its ingest checkpoint: how many events it counts, 0 for none
    final,      \* the database that a replay has published
    \* The process.
    pc,         \* "idle", "warmup", "rows", "checkpoint" or "report"
    engine,     \* "memory" or "rocksdb"
    memory,     \* the content of its MemoryEngine
    section,    \* the row file it has come to,
    pos,        \* the event there whose row is next,
    sub,        \* and the put of that row
    errors,     \* failed puts it has counted
    faults

processVars == <<pc, engine, memory, section, pos, sub, errors>>
vars == <<events, rocks, ckpt, final, processVars, faults>>

-----------------------------------------------------------------------------
(* decibel_parser: an event's fields and the ids of its rows. *)

Event == [content : Contents, version : Nat, idx : Nat]

Id(e) == IF e.content.id = NoValue THEN <<e.version, e.idx>> ELSE <<e.content.id>>

IsFill(e) == e.content.kind = "fill"

\* Which row files have a row for e; the first event stands for its transaction.
Yields(file, e) ==
    \/ file = "txs" /\ e.idx = 0
    \/ file = "events"
    \/ file = "fills" /\ IsFill(e)
    \/ file = "orders" /\ e.content.kind = "order"
    \/ file = "positions" /\ e.content.kind = "position"
    \/ file = "builder_rows" /\ IsFill(e) /\ e.content.builder # NoValue
    \/ file = "activity_rows" /\ e.content.kind \in {"order", "position", "notice"}

Sections_BuilderFirst ==
    <<"txs", "events", "builder_rows", "fills", "orders", "positions", "activity_rows">>

\* IngestRows::replay_each
Sections ==
    <<"txs", "events", "fills", "orders", "positions", "builder_rows", "activity_rows">>

-----------------------------------------------------------------------------
(* The keys of the column families; reverse_ts_key turns the order of the  *)
(* timestamps round and loses nothing.                                     *)

Time(e) == Timestamp(e.version)

MarketKey(e) == <<"fills_by_market", e.content.market, Time(e), e.version, Id(e)>>

AccountKey(e) ==
    <<"fills_by_account", e.content.account, Time(e), e.content.market, Id(e)>>

BuilderKey(e) == <<"builder", e.content.builder, Time(e), e.content.market, Id(e)>>

ActivityKey(e) ==
    <<"activity", e.content.market, Time(e), e.content.kind, e.version, e.idx>>

PlainKey(file, e) ==
    CASE file = "txs" -> <<"tx", e.version>>
      [] file = "events" -> <<"event", e.version, e.idx>>
      [] file = "orders" -> <<"order", Id(e)>>
      [] OTHER -> <<"position", e.content.account, e.content.market>>

Entry(key, e) == [key |-> key, row |-> e]

FillWrites_AccountFirst(e) ==
    <<Entry(AccountKey(e), e), Entry(MarketKey(e), e), Entry(ActivityKey(e), e)>>

\* RocksDbEngine::put_fill
FillWrites(e) ==
    <<Entry(MarketKey(e), e), Entry(AccountKey(e), e), Entry(ActivityKey(e), e)>>

\* The puts of the row that a file has for e.
Writes(file, e) ==
    IF ~ Yields(file, e) THEN <<>>
    ELSE IF file = "fills" THEN FillWrites(e)
    ELSE IF file = "builder_rows" THEN <<Entry(BuilderKey(e), e)>>
    ELSE IF file = "activity_rows" THEN <<Entry(ActivityKey(e), e)>>
    ELSE <<Entry(PlainKey(file, e), e)>>

Upsert_KeepsBoth(entries, w) == entries \cup {w}

Upsert_KeepsFirst(entries, w) ==
    IF \E v \in entries : v.key = w.key THEN entries ELSE entries \cup {w}

\* A put replaces the entry of its key.
Upsert(entries, w) == {v \in entries : v.key # w.key} \cup {w}

-----------------------------------------------------------------------------
(* MemoryEngine: fills are kept by fill_id and builder rows by builder and *)
(* fill_id, and every activity is pushed, those of put_fill included.      *)

EmptyMemory == [plain |-> {}, fills |-> {}, builders |-> {}, activities |-> <<>>]

PutFill_NoActivity(m, e) ==
    [m EXCEPT !.fills = {f \in @ : Id(f) # Id(e)} \cup {e}]

PutFill(m, e) ==
    [m EXCEPT !.fills = {f \in @ : Id(f) # Id(e)} \cup {e},
              !.activities = Append(@, e)]

PutBuilder(m, e) ==
    [m EXCEPT !.builders =
        {f \in @ : <<f.content.builder, Id(f)>> # <<e.content.builder, Id(e)>>} \cup {e}]

MemoryPut(m, file, e) ==
    IF ~ Yields(file, e) THEN m
    ELSE IF file = "fills" THEN PutFill(m, e)
    ELSE IF file = "builder_rows" THEN PutBuilder(m, e)
    ELSE IF file = "activity_rows" THEN [m EXCEPT !.activities = Append(@, e)]
    ELSE [m EXCEPT !.plain = Upsert(@, Entry(PlainKey(file, e), e))]

-----------------------------------------------------------------------------
(* checksums: per column family the entries in key order and their number. *)
(* A database holds a key once; the activities of the memory engine may    *)
(* hold one more often.                                                    *)

Families == {"tx", "event", "order", "position", "fills_by_market",
             "fills_by_account", "builder", "activity"}

Checksum(entries, count) == [entries |-> entries, count |-> count]

RocksChecksum(entries, family) ==
    LET those == {w \in entries : w.key[1] = family}
    IN  Checksum(those, Cardinality(those))

MemoryChecksum(m, family) ==
    CASE family = "fills_by_market" ->
            Checksum({Entry(MarketKey(e), e) : e \in m.fills}, Cardinality(m.fills))
      [] family = "fills_by_account" ->
            Checksum({Entry(AccountKey(e), e) : e \in m.fills}, Cardinality(m.fills))
      [] family = "builder" ->
            Checksum({Entry(BuilderKey(e), e) : e \in m.builders}, Cardinality(m.builders))
      [] family = "activity" ->
            Checksum({Entry(ActivityKey(m.activities[i]), m.activities[i]) :
                         i \in DOMAIN m.activities}, Len(m.activities))
      [] OTHER -> RocksChecksum(m.plain, family)

-----------------------------------------------------------------------------
\* No database at the path of a replay.
None == [rows |-> {}, ckpt |-> 0]

Idle ==
    /\ pc = "idle"
    /\ engine = "memory"
    /\ memory = EmptyMemory
    /\ section = 1
    /\ pos = 1
    /\ sub = 1
    /\ errors = 0

Init ==
    /\ events = <<>>
    /\ rocks = {}
    /\ ckpt = 0
    /\ final = None
    /\ Idle
    /\ faults = 0

Fault(kind) ==
    /\ kind \in Faults
    /\ faults < MaxFaults
    /\ faults' = faults + 1

\* The process ends, and its memory engine with it.
End ==
    /\ pc' = "idle"
    /\ engine' = "memory"
    /\ memory' = EmptyMemory
    /\ section' = 1
    /\ pos' = 1
    /\ sub' = 1
    /\ errors' = 0

\* The database of a process that does not come to its end.  A benchmark's stays.  An error
\* removes the staging directory of a replay, and a kill leaves it under the name of that
\* process, where nobody looks for it.
Abandon == IF Staged THEN rocks' = {} /\ ckpt' = 0 ELSE UNCHANGED <<rocks, ckpt>>

Goto(step) ==
    /\ pc' = step
    /\ section' = 1
    /\ pos' = 1
    /\ sub' = 1

-----------------------------------------------------------------------------
(* The dataset grows by a transaction and is normalized again. *)

Distinct(evs) ==
    \A i, j \in DOMAIN evs :
        IsFill(evs[i]) /\ IsFill(evs[j]) /\ Id(evs[i]) = Id(evs[j]) => i = j

NextVersion == IF events = <<>> THEN 1 ELSE events[Len(events)].version + 1

Transactions == UNION {[1..k -> Contents] : k \in 1..TxEvents}

Normalize ==
    /\ pc = "idle"
    /\ \E tx \in Transactions :
         /\ Len(events) + Len(tx) <= MaxEvents
         /\ events' = events \o [i \in 1..Len(tx) |->
                [content |-> tx[i], version |-> NextVersion, idx |-> i - 1]]
    /\ UniqueFills => Distinct(events')
    /\ UNCHANGED <<rocks, ckpt, final, processVars, faults>>

-----------------------------------------------------------------------------
(* Loading. *)

\* A replay refuses a path where a database lies.  (It also refuses a staging directory
\* that a killed process of its id has left, and changes nothing: a stutter.)
Start(kind) ==
    /\ pc = "idle"
    /\ events # <<>>
    /\ Staged /\ kind = "rocksdb" => final = None
    /\ Goto("warmup")
    /\ engine' = kind
    /\ UNCHANGED <<events, rocks, ckpt, final, memory, errors, faults>>

\* What the refusal tells the operator to do.
RemovePublished ==
    /\ Staged
    /\ pc = "idle"
    /\ final # None
    /\ final' = None
    /\ UNCHANGED <<events, rocks, ckpt, processVars, faults>>

\* All rows have been put.
Whole == section > Len(Sections)

Row == Writes(Sections[section], events[pos])

\* The next row, of this file or of the next one.
NextRow ==
    /\ sub' = 1
    /\ IF pos < Len(events)
          THEN pos' = pos + 1 /\ UNCHANGED section
          ELSE pos' = 1 /\ section' = section + 1

Advance ==
    IF sub < Len(Row) THEN sub' = sub + 1 /\ UNCHANGED <<pos, section>> ELSE NextRow

Loading == (pc = "rows" \/ (Bench /\ pc = "warmup")) /\ ~ Whole

RocksStep ==
    /\ Loading
    /\ engine = "rocksdb"
    /\ rocks' = IF Row = <<>> THEN rocks ELSE Upsert(rocks, Row[sub])
    /\ Advance
    /\ UNCHANGED <<events, ckpt, final, pc, engine, memory, errors, faults>>

\* The put of a memory engine holds its lock throughout.
MemoryStep ==
    /\ Loading
    /\ engine = "memory"
    /\ memory' = MemoryPut(memory, Sections[section], events[pos])
    /\ NextRow
    /\ UNCHANGED <<events, rocks, ckpt, final, pc, engine, errors, faults>>

\* A put of the database fails, and the rest of its row is not put; or the flush that ends
\* a replay fails.  The measured rows of the benchmark count it and go on; all else ends
\* there.
PutFails ==
    /\ (Loading /\ Row # <<>>) \/ pc = "checkpoint" \/ (Staged /\ pc = "report")
    /\ engine = "rocksdb"
    /\ Fault("error")
    /\ IF Bench /\ pc = "rows"
          THEN /\ errors' = errors + 1
               /\ NextRow
               /\ UNCHANGED <<rocks, ckpt, pc, engine, memory>>
          ELSE End /\ Abandon
    /\ UNCHANGED <<events, final>>

\* warmup_ingest has put its rows; a replay has no warmup.
EndWarmup ==
    /\ pc = "warmup"
    /\ sub = 1
    /\ Bench \/ (section = 1 /\ pos = 1)
    /\ Goto("rows")
    /\ UNCHANGED <<events, rocks, ckpt, final, engine, memory, errors, faults>>

RowsDone_Early == sub = 1

RowsDone == sub = 1 /\ (Bench \/ Whole)

\* measure_ingest, or the replay, has put its rows.
EndRows ==
    /\ pc = "rows"
    /\ RowsDone
    /\ pc' = "checkpoint"
    /\ UNCHANGED <<events, rocks, ckpt, final, engine, memory, section, pos, sub,
                   errors, faults>>

\* put_checkpoint_from_manifest, whatever has been put.
PutCheckpoint ==
    /\ pc = "checkpoint"
    /\ ckpt' = IF engine = "rocksdb" THEN Len(events) ELSE ckpt
    /\ pc' = "report"
    /\ UNCHANGED <<events, rocks, final, engine, memory, section, pos, sub, errors,
                   faults>>

\* The checksums are taken and the process ends; a replay renames its staging directory to
\* the path that it was free to take.
Report ==
    /\ pc = "report"
    /\ End
    /\ IF Staged /\ engine = "rocksdb"
          THEN /\ final' = [rows |-> rocks, ckpt |-> ckpt]
               /\ rocks' = {}
               /\ ckpt' = 0
          ELSE UNCHANGED <<rocks, ckpt, final>>
    /\ UNCHANGED <<events, faults>>

Kill ==
    /\ pc # "idle"
    /\ Fault("kill")
    /\ End
    /\ Abandon
    /\ UNCHANGED <<events, final>>

Step == RocksStep \/ MemoryStep \/ EndWarmup \/ EndRows \/ PutCheckpoint \/ Report

Next ==
    \/ Normalize
    \/ \E kind \in Loaded : Start(kind)
    \/ RemovePublished
    \/ Step \/ PutFails \/ Kill

Spec == Init /\ [][Next]_vars

\* A process that runs is scheduled; an operator removes the database that a replay has
\* refused and replays again, whatever else is started in between.
FairSpec ==
    /\ Spec
    /\ WF_vars(Step)
    /\ SF_vars(RemovePublished)
    /\ SF_vars(Start("rocksdb"))

-----------------------------------------------------------------------------
(* Properties. *)

\* The puts of a whole load, as <<section, event, put>>.
Puts ==
    {p \in (1..Len(Sections)) \X (1..Len(events)) \X (1..3) :
        p[3] <= Len(Writes(Sections[p[1]], events[p[2]]))}

PutAt(p) == Writes(Sections[p[1]], events[p[2]])[p[3]]

Earlier(p, q) ==
    \/ p[1] < q[1]
    \/ p[1] = q[1] /\ p[2] < q[2]
    \/ p[1] = q[1] /\ p[2] = q[2] /\ p[3] < q[3]

LastOf(puts) ==
    {PutAt(p) : p \in {p \in puts :
        ~ \E q \in puts : Earlier(p, q) /\ PutAt(q).key = PutAt(p).key}}

\* What a load into an empty database leaves: of every key the last put.
Fresh == LastOf(Puts)

\* The same of a dataset that had the first n of the events.
FreshOf(n) == LastOf({p \in Puts : p[2] <= n})

\* Every variable has its type; the database holds a key once and only keys of rows
\* that the dataset has.
EnginesTypeOK ==
    /\ events \in Seq(Event)
    /\ Len(events) <= MaxEvents
    /\ \A w \in rocks : \E p \in Puts : w.key = PutAt(p).key
    /\ \A v, w \in rocks : v.key = w.key => v = w
    /\ ckpt \in 0..Len(events)
    /\ final.ckpt \in 0..Len(events)
    /\ pc \in {"idle", "warmup", "rows", "checkpoint", "report"}
    /\ engine \in {"memory", "rocksdb"}
    /\ section \in 1..(Len(Sections) + 1)
    /\ pos \in 1..(Len(events) + 1)
    /\ sub \in 1..3
    /\ errors \in Nat
    /\ faults \in 0..MaxFaults
    /\ pc = "idle" => Idle

\* However often the database was loaded before, in part, killed, with failed puts or
\* from a smaller dataset: a run that puts every row leaves what a load into an empty
\* database leaves, so that its checksums are those of a fresh import.
RerunIsFresh ==
    pc = "report" /\ engine = "rocksdb" /\ section > Len(Sections) /\ errors = 0
        => rocks = Fresh

\* After a whole load the memory engine has the checksums of the import, as the
\* benchmark's --expected-checksum asks (docs/MILESTONE_5_PLAN.md: "memory ingest with
\* `--expected-checksum`: 200 ops, 0 errors, checksum pass").
SameChecksums ==
    pc = "report" /\ engine = "memory" /\ section > Len(Sections) =>
        \A family \in Families :
            MemoryChecksum(memory, family) = RocksChecksum(Fresh, family)

\* A fill that the account index finds is found by the market index, and one in the
\* recent activity by both, between any two puts of any run.
IndexesAgree ==
    \A e \in {events[i] : i \in DOMAIN events} :
        IsFill(e) =>
            /\ Entry(AccountKey(e), e) \in rocks => Entry(MarketKey(e), e) \in rocks
            /\ Entry(ActivityKey(e), e) \in rocks => Entry(AccountKey(e), e) \in rocks

\* The fill of a builder's attribution row is there, in either engine, whenever a reader
\* meets the row: between any two puts, after a put that failed and after a kill.
BuilderHasFill ==
    /\ \A e \in {events[i] : i \in DOMAIN events} :
         Entry(BuilderKey(e), e) \in rocks => Entry(MarketKey(e), e) \in rocks
    /\ memory.builders \subseteq memory.fills

\* Whatever replays were killed or failed, and however the dataset has grown since: the
\* database that a replay has published is what a load of the events that its checkpoint
\* counts leaves, and a path without a database has no checkpoint.
PublishedWhole == final.rows = FreshOf(final.ckpt)

\* A replay that is repeated, after what it refuses has been removed, publishes the whole
\* dataset again and again, through kills and failures and as the dataset grows.
ReplaysCatchUp ==
    []<>(events = <<>> \/ (final.rows = Fresh /\ final.ckpt = Len(events)))
=============================================================================
