---------------------------- MODULE EnginesProofs ----------------------------
(***************************************************************************)
(* Theorems about Engines, for datasets of any size and content, any       *)
(* timestamps, and any number of loads, kills and failed puts: what a load *)
(* leaves, and that both engines have the same checksums of it.  The last  *)
(* part is about rows that are sorted, for the proofs about what is read.  *)
(***************************************************************************)
EXTENDS Engines, Sorting, FiniteSetTheorems, SequenceTheorems, TLAPS

-----------------------------------------------------------------------------
(* Rows and their puts. *)

\* The row files that are loaded, by their place in the order.
LEMMA SectionsAre ==
    /\ Len(Sections) = 7
    /\ Sections[1] = "txs" /\ Sections[2] = "events" /\ Sections[3] = "fills"
    /\ Sections[4] = "orders" /\ Sections[5] = "positions"
    /\ Sections[6] = "builder_rows" /\ Sections[7] = "activity_rows"
BY DEF Sections

\* A row is put under at most three keys, and every entry holds the row.
LEMMA WritesAre ==
    ASSUME NEW file, NEW e
    PROVE  /\ Writes(file, e) = <<>> \/ Len(Writes(file, e)) \in {1, 3}
           /\ Writes(file, e) # <<>> => Yields(file, e)
           /\ Len(Writes(file, e)) \in 0..3
           /\ \A k \in 1..Len(Writes(file, e)) :
                /\ Writes(file, e)[k].row = e
                /\ \/ file = "fills" /\ k = 1 /\ Writes(file, e)[k] = Entry(MarketKey(e), e)
                   \/ file = "fills" /\ k = 2 /\ Writes(file, e)[k] = Entry(AccountKey(e), e)
                   \/ file = "fills" /\ k = 3 /\ Writes(file, e)[k] = Entry(ActivityKey(e), e)
                   \/ file = "builder_rows" /\ k = 1 /\ Writes(file, e)[k] = Entry(BuilderKey(e), e)
                   \/ file = "activity_rows" /\ k = 1 /\ Writes(file, e)[k] = Entry(ActivityKey(e), e)
                   \/ /\ file \notin {"fills", "builder_rows", "activity_rows"}
                      /\ k = 1 /\ Writes(file, e)[k] = Entry(PlainKey(file, e), e)
<1>1. CASE ~ Yields(file, e)
  BY <1>1 DEF Writes
<1>2. CASE Yields(file, e) /\ file = "fills"
  BY <1>2 DEF Writes, FillWrites, Entry
<1>3. CASE Yields(file, e) /\ file = "builder_rows"
  BY <1>3 DEF Writes, Entry
<1>4. CASE Yields(file, e) /\ file = "activity_rows"
  BY <1>4 DEF Writes, Entry
<1>5. CASE Yields(file, e) /\ file \notin {"fills", "builder_rows", "activity_rows"}
  BY <1>5 DEF Writes, Entry
<1> QED BY <1>1, <1>2, <1>3, <1>4, <1>5

\* The puts of a row go to different families.
LEMMA KeysOfRowDiffer ==
    ASSUME NEW file, NEW e, NEW i \in 1..Len(Writes(file, e)), NEW j \in 1..Len(Writes(file, e)),
           i # j
    PROVE  Writes(file, e)[i].key # Writes(file, e)[j].key
<1> DEFINE w(k) == Writes(file, e)[k]
<1>1. \A k \in {i, j} :
        \/ k = 1 /\ file = "fills" /\ w(k) = Entry(MarketKey(e), e)
        \/ k = 2 /\ file = "fills" /\ w(k) = Entry(AccountKey(e), e)
        \/ k = 3 /\ file = "fills" /\ w(k) = Entry(ActivityKey(e), e)
        \/ k = 1 /\ file # "fills"
  BY WritesAre
<1>2. /\ Entry(MarketKey(e), e).key[1] = "fills_by_market"
      /\ Entry(AccountKey(e), e).key[1] = "fills_by_account"
      /\ Entry(ActivityKey(e), e).key[1] = "activity"
  BY DEF Entry, MarketKey, AccountKey, ActivityKey
<1> HIDE DEF w
<1>3. w(i).key # w(j).key
  BY <1>1, <1>2
<1> QED BY <1>3 DEF w

\* The family of an entry, the first part of its key, tells what was put.
LEMMA FamilyOfPut ==
    ASSUME NEW p \in Puts, NEW e, e = events[p[2]]
    PROVE  /\ PutAt(p).row = e
           /\ Yields(Sections[p[1]], e)
           /\ PutAt(p).key[1] = "fills_by_market" =>
                p[1] = 3 /\ p[3] = 1 /\ IsFill(e) /\ PutAt(p) = Entry(MarketKey(e), e)
           /\ PutAt(p).key[1] = "fills_by_account" =>
                p[1] = 3 /\ p[3] = 2 /\ IsFill(e) /\ PutAt(p) = Entry(AccountKey(e), e)
           /\ PutAt(p).key[1] = "builder" =>
                p[1] = 6 /\ p[3] = 1 /\ IsFill(e) /\ PutAt(p) = Entry(BuilderKey(e), e)
           /\ PutAt(p).key[1] = "activity" =>
                /\ PutAt(p) = Entry(ActivityKey(e), e)
                /\ \/ p[1] = 3 /\ p[3] = 3 /\ IsFill(e)
                   \/ p[1] = 7 /\ p[3] = 1 /\ ~ IsFill(e)
<1> DEFINE file == Sections[p[1]]
<1>1. /\ p[1] \in 1..7 /\ p[3] \in 1..Len(Writes(file, e))
      /\ PutAt(p) = Writes(file, e)[p[3]]
  BY SectionsAre DEF Puts, PutAt
<1>2. Yields(file, e)
  BY <1>1, WritesAre
<1>3. /\ file = "fills" <=> p[1] = 3
      /\ file = "builder_rows" <=> p[1] = 6
      /\ file = "activity_rows" <=> p[1] = 7
  BY <1>1, SectionsAre
<1>4. file \in {"fills", "builder_rows"} => IsFill(e)
  BY <1>2 DEF Yields
<1>5. file = "activity_rows" => ~ IsFill(e)
  BY <1>2 DEF Yields, IsFill
<1>6. /\ MarketKey(e)[1] = "fills_by_market"
      /\ AccountKey(e)[1] = "fills_by_account"
      /\ BuilderKey(e)[1] = "builder"
      /\ ActivityKey(e)[1] = "activity"
      /\ PlainKey(file, e)[1] \in {"tx", "event", "order", "position"}
  BY DEF MarketKey, AccountKey, BuilderKey, ActivityKey, PlainKey
<1>7. PutAt(p).row = e
  BY <1>1, WritesAre
<1> HIDE DEF file
<1>8. \/ file = "fills" /\ p[3] = 1 /\ PutAt(p) = Entry(MarketKey(e), e)
      \/ file = "fills" /\ p[3] = 2 /\ PutAt(p) = Entry(AccountKey(e), e)
      \/ file = "fills" /\ p[3] = 3 /\ PutAt(p) = Entry(ActivityKey(e), e)
      \/ file = "builder_rows" /\ p[3] = 1 /\ PutAt(p) = Entry(BuilderKey(e), e)
      \/ file = "activity_rows" /\ p[3] = 1 /\ PutAt(p) = Entry(ActivityKey(e), e)
      \/ /\ file \notin {"fills", "builder_rows", "activity_rows"}
         /\ p[3] = 1 /\ PutAt(p) = Entry(PlainKey(file, e), e)
  BY <1>1, WritesAre
<1>9. \A k : Entry(k, e).key = k
  BY DEF Entry
<1> QED BY <1>2, <1>3, <1>4, <1>5, <1>6, <1>7, <1>8, <1>9 DEF file

-----------------------------------------------------------------------------
(* The invariant. *)

\* Where the process has come to, and the puts that lie behind it.
Here == <<section, pos, sub>>
Done == {p \in Puts : Earlier(p, Here)}

\* Of every key that was put, the entries hold the last put.
HoldsLast(entries, puts) ==
    /\ \A p \in puts : \E w \in entries : w.key = PutAt(p).key
    /\ \A w \in entries :
         (\E p \in puts : w.key = PutAt(p).key) =>
             \E p \in puts : /\ w = PutAt(p)
                             /\ \A q \in puts : Earlier(p, q) => PutAt(q).key # w.key

\* The events are those of the transactions, in order; no two have the same place.
EventsPart ==
    /\ events \in Seq(Event)
    /\ Len(events) <= MaxEvents
    /\ UniqueFills => Distinct(events)

\* What a process is about to put is a row of the dataset.
PositionPart ==
    /\ pc \in {"idle", "warmup", "rows", "checkpoint", "report"}
    /\ engine \in {"memory", "rocksdb"}
    /\ section \in 1..8
    /\ pos \in Nat \ {0}
    /\ sub \in 1..3
    /\ pc = "idle" => Idle
    /\ pc # "idle" => pos <= Len(events)
    /\ pc # "idle" /\ Whole => pos = 1 /\ sub = 1
    /\ pc # "idle" /\ ~ Whole => sub = 1 \/ sub <= Len(Row)
    /\ pc \in {"checkpoint", "report"} => sub = 1 /\ (Bench \/ Whole)
    /\ pc = "warmup" /\ ~ Bench => Here = <<1, 1, 1>>

CountPart ==
    /\ errors \in Nat
    /\ errors # 0 => Bench /\ "error" \in Faults
    /\ faults \in 0..MaxFaults
    /\ ckpt \in 0..Len(events)
    /\ pc = "report" /\ engine = "rocksdb" => ckpt = Len(events)
    /\ final.ckpt \in 0..Len(events)

\* The database holds a key once, with a row that the dataset puts there, and the first
\* puts of the row that is being put.
DatabasePart ==
    /\ \A w \in rocks : \E p \in Puts : w = PutAt(p)
    /\ \A v, w \in rocks : v.key = w.key => v = w
    /\ engine = "rocksdb" /\ pc # "idle" /\ ~ Whole => \A k \in 1..(sub - 1) : Row[k] \in rocks

\* While no put has failed, the database is what a load into an empty one would have left
\* so far, but for keys that the load has not come to.
LoadPart == engine = "rocksdb" /\ pc # "idle" /\ errors = 0 => HoldsLast(rocks, Done)

\* The inductive invariant.
EnginesInv ==
    /\ EventsPart
    /\ PositionPart
    /\ CountPart
    /\ DatabasePart
    /\ LoadPart

-----------------------------------------------------------------------------
(* The order of the puts. *)

\* A put is that of a section, a row and a part of the row.
LEMMA PutsTyped ==
    ASSUME NEW p \in Puts, EventsPart
    PROVE  p \in (1..7) \X (1..Len(events)) \X (1..3)
BY SectionsAre DEF Puts

\* A put moves the place on by itself.
LEMMA NextPut ==
    ASSUME EventsPart, PositionPart, pc # "idle", ~ Whole, Row # <<>>, Advance, events' = events
    PROVE  /\ Here \in Puts
           /\ PutAt(Here) = Row[sub]
           /\ Done' = Done \cup {Here}
<1>1. /\ section \in 1..7 /\ pos \in 1..Len(events) /\ sub \in 1..3
      /\ Len(events) \in Nat /\ Len(Row) \in 1..3 /\ sub <= Len(Row)
  BY SectionsAre, WritesAre DEF PositionPart, EventsPart, Whole, Row
<1>2. Here \in Puts /\ PutAt(Here) = Row[sub]
  BY <1>1, SectionsAre DEF Here, Puts, PutAt, Row
<1>3. Puts' = Puts
  BY DEF Puts
<1>4. ASSUME NEW p \in Puts PROVE Earlier(p, Here)' <=> Earlier(p, Here) \/ p = Here
  <2>1. p \in (1..7) \X (1..Len(events)) \X (1..3)
    BY PutsTyped
  <2>2. p[1] = section /\ p[2] = pos => p[3] <= Len(Row)
    BY DEF Puts, Row
  <2>3. p = Here <=> p[1] = section /\ p[2] = pos /\ p[3] = sub
    BY <2>1 DEF Here
  <2>4. CASE sub < Len(Row)
    BY <1>1, <2>1, <2>3, <2>4 DEF Advance, Earlier, Here
  <2>5. CASE ~ (sub < Len(Row)) /\ pos < Len(events)
    BY <1>1, <2>1, <2>2, <2>3, <2>5 DEF Advance, NextRow, Earlier, Here
  <2>6. CASE ~ (sub < Len(Row)) /\ ~ (pos < Len(events))
    BY <1>1, <2>1, <2>2, <2>3, <2>6 DEF Advance, NextRow, Earlier, Here
  <2> QED BY <2>4, <2>5, <2>6
<1> QED BY <1>2, <1>3, <1>4 DEF Done

\* A row that an event does not yield is passed over.
LEMMA NoPut ==
    ASSUME EventsPart, PositionPart, pc # "idle", ~ Whole, Row = <<>>, NextRow, events' = events
    PROVE  Done' = Done
<1>1. /\ section \in 1..7 /\ pos \in 1..Len(events) /\ sub = 1 /\ Len(events) \in Nat
  BY SectionsAre DEF PositionPart, EventsPart, Whole
<1>2. Puts' = Puts
  BY DEF Puts
<1>3. ASSUME NEW p \in Puts PROVE Earlier(p, Here)' <=> Earlier(p, Here)
  <2>1. p \in (1..7) \X (1..Len(events)) \X (1..3)
    BY PutsTyped
  <2>2. ~ (p[1] = section /\ p[2] = pos)
    BY <2>1 DEF Puts, Row
  <2>3. CASE pos < Len(events)
    BY <1>1, <2>1, <2>2, <2>3 DEF NextRow, Earlier, Here
  <2>4. CASE ~ (pos < Len(events))
    BY <1>1, <2>1, <2>2, <2>4 DEF NextRow, Earlier, Here
  <2> QED BY <2>3, <2>4
<1> QED BY <1>2, <1>3 DEF Done

\* Putting the next put over entries that hold the last ones.
LEMMA Upserted ==
    ASSUME NEW entries, NEW puts \in SUBSET Puts, NEW p \in Puts, EventsPart,
           HoldsLast(entries, puts), \A q \in puts : Earlier(q, p)
    PROVE  HoldsLast(Upsert(entries, PutAt(p)), puts \cup {p})
<1> DEFINE now == Upsert(entries, PutAt(p))
           all == puts \cup {p}
<1>1. PutAt(p) \in now /\ \A w \in now : w = PutAt(p) \/ (w \in entries /\ w.key # PutAt(p).key)
  BY DEF Upsert
<1>2. \A w \in entries : w.key # PutAt(p).key => w \in now
  BY DEF Upsert
<1>3. \A q \in all : ~ Earlier(p, q)
  <2>1. \A q \in all : q \in (1..7) \X (1..Len(events)) \X (1..3)
    BY PutsTyped
  <2> QED BY <2>1 DEF Earlier
<1> HIDE DEF now
<1>4. ASSUME NEW q \in all PROVE \E w \in now : w.key = PutAt(q).key
  <2>1. CASE PutAt(q).key = PutAt(p).key
    BY <1>1, <2>1
  <2>2. CASE PutAt(q).key # PutAt(p).key
    BY <1>2, <2>2 DEF HoldsLast
  <2> QED BY <2>1, <2>2
<1>5. ASSUME NEW w \in now, NEW q \in all, w.key = PutAt(q).key
      PROVE  \E r \in all : /\ w = PutAt(r)
                            /\ \A t \in all : Earlier(r, t) => PutAt(t).key # w.key
  <2>1. CASE w = PutAt(p)
    BY <1>3, <2>1
  <2>2. CASE w \in entries /\ w.key # PutAt(p).key
    <3>1. q \in puts
      BY <1>5, <2>2
    <3>2. PICK r \in puts : /\ w = PutAt(r)
                            /\ \A t \in puts : Earlier(r, t) => PutAt(t).key # w.key
      BY <1>5, <2>2, <3>1 DEF HoldsLast
    <3> QED BY <2>2, <3>2
  <2> QED BY <1>1, <2>1, <2>2
<1> QED BY <1>4, <1>5 DEF HoldsLast, now

-----------------------------------------------------------------------------
(* The invariant holds initially, and every step keeps it. *)

\* The initial state satisfies the invariant.
LEMMA InvInit == Init => EnginesInv
<1> SUFFICES ASSUME Init PROVE EnginesInv
  OBVIOUS
<1> USE EngineAssumption DEF Init, Idle
<1>1. EventsPart
  BY DEF EventsPart, Distinct
<1>2. PositionPart /\ CountPart
  BY DEF PositionPart, CountPart, None
<1>3. DatabasePart /\ LoadPart
  BY DEF DatabasePart, LoadPart
<1> QED BY <1>1, <1>2, <1>3 DEF EnginesInv

\* A transaction is appended, and the puts of the events before it stay what they are.
LEMMA Appended ==
    ASSUME EventsPart, Normalize
    PROVE  /\ events' \in Seq(Event) /\ Len(events) <= Len(events') /\ Len(events') <= MaxEvents
           /\ Len(events) \in Nat /\ Len(events') \in Nat
           /\ \A i \in 1..Len(events) : events'[i] = events[i]
<1>1. PICK tx \in Transactions :
        /\ Len(events) + Len(tx) <= MaxEvents
        /\ events' = events \o [i \in 1..Len(tx) |->
               [content |-> tx[i], version |-> NextVersion, idx |-> i - 1]]
  BY DEF Normalize
<1>2. PICK k \in 1..TxEvents : tx \in [1..k -> Contents]
  BY <1>1 DEF Transactions
<1>3. NextVersion \in Nat
  <2>1. CASE events # <<>>
    <3>1. Len(events) \in 1..Len(events)
      BY <2>1, EmptySeq DEF EventsPart
    <3>2. events[Len(events)] \in Event
      BY <3>1, ElementOfSeq DEF EventsPart
    <3> QED BY <2>1, <3>2 DEF NextVersion, Event
  <2> QED BY <2>1 DEF NextVersion
<1> DEFINE new == [i \in 1..Len(tx) |->
               [content |-> tx[i], version |-> NextVersion, idx |-> i - 1]]
<1>4. k \in Nat /\ Len(tx) = k
  BY <1>2, EngineAssumption
<1>5. new \in Seq(Event) /\ Len(new) = k
  <2>1. new \in [1..k -> Event]
    BY <1>2, <1>3, <1>4 DEF Event
  <2> QED BY <1>4, <2>1
<1> HIDE DEF new
<1>6. events' = events \o new
  BY <1>1 DEF new
<1>7. events \in Seq(Event) /\ Len(events) \in Nat
  BY LenProperties DEF EventsPart
<1>8. /\ events \o new \in Seq(Event) /\ Len(events \o new) = Len(events) + Len(new)
      /\ \A i \in 1..Len(events) + Len(new) :
           (events \o new)[i] = IF i <= Len(events) THEN events[i] ELSE new[i - Len(events)]
  BY <1>5, <1>7, ConcatProperties
<1>9. \A i \in 1..Len(events) : i \in 1..Len(events) + Len(new) /\ i <= Len(events)
  BY <1>4, <1>5, <1>7
<1> QED BY <1>1, <1>4, <1>5, <1>6, <1>7, <1>8, <1>9

\* A dataset that grows keeps the puts it had.
LEMMA PutsStay ==
    ASSUME EventsPart, Normalize, NEW p \in Puts
    PROVE  p \in Puts' /\ PutAt(p)' = PutAt(p)
<1>1. p[2] \in 1..Len(events) /\ events'[p[2]] = events[p[2]]
  BY PutsTyped, Appended
<1>2. 1..Len(events) \subseteq 1..Len(events')
  BY Appended
<1> QED BY <1>1, <1>2 DEF Puts, PutAt

\* A dataset grows only between two loads.
LEMMA NormalizeInv == EnginesInv /\ Normalize => EnginesInv'
<1> SUFFICES ASSUME EnginesInv, Normalize PROVE EnginesInv'
  OBVIOUS
<1> USE DEF EnginesInv
<1>1. EventsPart'
  BY Appended DEF EventsPart, Normalize
<1>2. pc = "idle" /\ UNCHANGED <<rocks, ckpt, final, processVars, faults>>
  BY DEF Normalize
<1>3. PositionPart'
  BY <1>2 DEF PositionPart, processVars, Idle
<1>4. CountPart'
  BY <1>2, Appended DEF CountPart, processVars
<1>5. DatabasePart' /\ LoadPart'
  BY <1>2, PutsStay DEF DatabasePart, LoadPart, processVars
<1> QED BY <1>1, <1>3, <1>4, <1>5

\* What a process has before it begins to put rows: nothing is done.
LEMMA NothingDone ==
    ASSUME EventsPart, Here = <<1, 1, 1>>
    PROVE  Done = {}
<1>1. \A p \in Puts : p \in (1..7) \X (1..Len(events)) \X (1..3)
  BY PutsTyped
<1> QED BY <1>1 DEF Done, Earlier

\* A process that ends leaves the database as it is, or none.
LEMMA EndInv ==
    ASSUME EnginesInv, End, events' = events, rocks' = rocks \/ rocks' = {},
           ckpt' \in 0..Len(events), final'.ckpt \in 0..Len(events), faults' \in 0..MaxFaults
    PROVE  EnginesInv'
<1> USE DEF EnginesInv
<1>1. EventsPart'
  BY DEF EventsPart, Distinct
<1>2. PositionPart'
  BY DEF PositionPart, End, Idle
<1>3. CountPart'
  BY DEF CountPart, End
<1>4. DatabasePart' /\ LoadPart'
  BY DEF DatabasePart, LoadPart, End, Puts, PutAt
<1> QED BY <1>1, <1>2, <1>3, <1>4

\* A process that begins to put rows, with the first one.
LEMMA FirstRowInv ==
    ASSUME EnginesInv, NEW step \in {"warmup", "rows"}, Goto(step), events # <<>>,
           engine' \in {"memory", "rocksdb"},
           UNCHANGED <<events, rocks, ckpt, final, errors, faults>>
    PROVE  EnginesInv'
<1> USE DEF EnginesInv
<1>1. EventsPart'
  BY DEF EventsPart, Distinct
<1>2. PositionPart'
  BY SectionsAre DEF PositionPart, EventsPart, Goto, Whole, Here
<1>3. CountPart'
  BY DEF CountPart, Goto
<1>4. DatabasePart'
  BY DEF DatabasePart, Goto, Puts, PutAt
<1>5. LoadPart'
  <2>1. Done' = {}
    <3>1. (EventsPart /\ Here = <<1, 1, 1>> => Done = {})'
      BY NothingDone, PTL
    <3> QED BY <1>1, <3>1 DEF Goto, Here
  <2> QED BY <2>1 DEF LoadPart, HoldsLast
<1> QED BY <1>1, <1>2, <1>3, <1>4, <1>5

\* The same place, one row further.
LEMMA NextRowPosition ==
    ASSUME EventsPart, PositionPart, pc \in {"warmup", "rows"}, pc = "warmup" => Bench,
           ~ Whole, NextRow \/ (Advance /\ Row # <<>>), UNCHANGED <<events, pc, engine>>
    PROVE  PositionPart'
<1>1. /\ section \in 1..7 /\ pos \in 1..Len(events) /\ sub \in 1..3
      /\ Len(events) \in Nat /\ Len(Row) \in 0..3
  BY SectionsAre, WritesAre DEF PositionPart, EventsPart, Whole, Row
<1>2. CASE NextRow
  <2>1. /\ section' \in 1..8 /\ pos' \in 1..Len(events) /\ sub' = 1
        /\ section' = 8 => pos' = 1
    BY <1>1, <1>2 DEF NextRow
  <2> QED BY <2>1, SectionsAre DEF PositionPart, Whole, Here
<1>3. CASE Advance /\ sub < Len(Row)
  <2>1. sub' = sub + 1 /\ section' = section /\ pos' = pos /\ Row' = Row
    BY <1>3 DEF Advance, Row
  <2>2. section' \in 1..7 /\ pos' \in 1..Len(events')
    BY <1>1, <2>1
  <2>3. sub' \in 1..3 /\ sub' <= Len(Row)
    <3>1. PICK size \in 0..3 : size = Len(Row)
      BY <1>1
    <3>2. sub < size
      BY <1>3, <3>1
    <3>3. sub' = sub + 1 /\ sub \in 1..3
      BY <1>1, <2>1
    <3> QED BY <3>1, <3>2, <3>3
  <2>4. sub' <= Len(Row')
    BY <2>1, <2>3
  <2>5. ~ Whole'
    BY <2>2, SectionsAre DEF Whole
  <2> QED BY <2>2, <2>3, <2>4, <2>5 DEF PositionPart
<1> QED BY <1>2, <1>3 DEF Advance

\* A step that leaves the dataset, the database and the place.
LEMMA SamePlace ==
    ASSUME UNCHANGED <<events, rocks, section, pos, sub>>
    PROVE  /\ Puts' = Puts /\ Row' = Row /\ Here' = Here /\ Whole' = Whole
           /\ HoldsLast(rocks, Done)' = HoldsLast(rocks, Done)
<1>1. Puts' = Puts /\ Row' = Row /\ Here' = Here /\ Whole' = Whole
  BY DEF Puts, Row, Here, Whole
<1>2. Done' = Done /\ \A p : PutAt(p)' = PutAt(p)
  BY <1>1 DEF Done, PutAt
<1>3. HoldsLast(rocks, Done)' = HoldsLast(rocks, Done)
  BY <1>2 DEF HoldsLast
<1> QED BY <1>1, <1>3

\* A put of the database.
LEMMA RocksStepInv == EnginesInv /\ RocksStep => EnginesInv'
<1> SUFFICES ASSUME EnginesInv, RocksStep PROVE EnginesInv'
  OBVIOUS
<1> USE DEF EnginesInv
<1>1. /\ pc \in {"warmup", "rows"} /\ (pc = "warmup" => Bench) /\ ~ Whole
      /\ engine = "rocksdb" /\ Advance
      /\ UNCHANGED <<events, ckpt, final, pc, engine, memory, errors, faults>>
  BY DEF RocksStep, Loading
<1>2. EventsPart' /\ CountPart'
  BY <1>1 DEF EventsPart, CountPart, Distinct
<1>3. Puts' = Puts /\ \A p : PutAt(p)' = PutAt(p)
  BY <1>1 DEF Puts, PutAt
<1>4. CASE Row = <<>>
  <2>1. NextRow /\ rocks' = rocks
    BY <1>1, <1>4, WritesAre DEF RocksStep, Advance, PositionPart
  <2>2. PositionPart'
    BY <1>1, <2>1, NextRowPosition
  <2>3. Done' = Done
    BY <1>1, <1>4, <2>1, NoPut
  <2>4. DatabasePart'
    BY <1>3, <2>1 DEF DatabasePart, NextRow
  <2>5. LoadPart'
    BY <1>1, <1>3, <2>1, <2>3 DEF LoadPart, HoldsLast
  <2> QED BY <1>2, <2>2, <2>4, <2>5
<1>5. CASE Row # <<>>
  <2>1. rocks' = Upsert(rocks, Row[sub])
    BY <1>5 DEF RocksStep
  <2>2. PositionPart'
    BY <1>1, <1>5, NextRowPosition
  <2>3. Here \in Puts /\ PutAt(Here) = Row[sub] /\ Done' = Done \cup {Here}
    BY <1>1, <1>5, NextPut
  <2>4. DatabasePart'
    <3>1. \A w \in rocks' : \E p \in Puts : w = PutAt(p)
      BY <2>1, <2>3 DEF DatabasePart, Upsert
    <3>2. \A v, w \in rocks' : v.key = w.key => v = w
      BY <2>1 DEF DatabasePart, Upsert
    <3>3. CASE NextRow
      BY <1>3, <3>1, <3>2, <3>3 DEF DatabasePart, NextRow
    <3>4. CASE sub < Len(Row) /\ sub' = sub + 1 /\ UNCHANGED <<pos, section>>
      <4>1. Row' = Row /\ Row[sub] \in rocks'
        BY <1>1, <2>1, <3>4 DEF Row, Upsert
      <4>2. ASSUME NEW k \in 1..(sub - 1) PROVE Row[k] \in rocks'
        <5>1. k \in 1..Len(Row) /\ sub \in 1..Len(Row) /\ k # sub
          BY <3>4, <1>5, WritesAre DEF PositionPart, Row
        <5>2. Row[k] \in rocks
          BY <1>1 DEF DatabasePart
        <5>3. Row[k].key # Row[sub].key
          BY <5>1, KeysOfRowDiffer DEF Row
        <5> QED BY <2>1, <5>2, <5>3 DEF Upsert
      <4>3. \A k \in 1..(sub' - 1) : Row'[k] \in rocks'
        BY <3>4, <4>1, <4>2 DEF PositionPart
      <4> QED BY <1>3, <3>1, <3>2, <4>3 DEF DatabasePart
    <3> QED BY <1>1, <3>3, <3>4 DEF Advance
  <2>5. LoadPart'
    <3>1. \A q \in Done : Earlier(q, Here)
      BY DEF Done
    <3>2. Done \in SUBSET Puts
      BY DEF Done
    <3>3. errors = 0 => HoldsLast(rocks', Done')
      BY <1>1, <2>1, <2>3, <3>1, <3>2, Upserted DEF LoadPart, PositionPart
    <3> QED BY <1>1, <1>3, <3>3 DEF LoadPart, HoldsLast
  <2> QED BY <1>2, <2>2, <2>4, <2>5
<1> QED BY <1>4, <1>5

\* The memory engine is loaded, and the database is left alone.
LEMMA MemoryStepInv == EnginesInv /\ MemoryStep => EnginesInv'
<1> SUFFICES ASSUME EnginesInv, MemoryStep PROVE EnginesInv'
  OBVIOUS
<1> USE DEF EnginesInv
<1>1. /\ pc \in {"warmup", "rows"} /\ (pc = "warmup" => Bench) /\ ~ Whole /\ NextRow
      /\ engine = "memory" /\ UNCHANGED <<events, rocks, ckpt, final, pc, engine, errors, faults>>
  BY DEF MemoryStep, Loading
<1>2. EventsPart' /\ CountPart'
  BY <1>1 DEF EventsPart, CountPart, Distinct
<1>3. PositionPart'
  BY <1>1, NextRowPosition
<1>4. DatabasePart' /\ LoadPart'
  BY <1>1 DEF DatabasePart, LoadPart, Puts, PutAt
<1> QED BY <1>2, <1>3, <1>4

\* An abandoned database is what it was, or none.
LEMMA Abandoned ==
    ASSUME EnginesInv, Abandon
    PROVE  (rocks' = rocks \/ rocks' = {}) /\ ckpt' \in 0..Len(events)
<1>1. Len(events) \in Nat /\ ckpt \in 0..Len(events)
  BY LenProperties DEF EnginesInv, EventsPart, CountPart
<1> QED BY <1>1 DEF Abandon

\* A put that fails is skipped and counted, or ends the load.
LEMMA PutFailsInv == EnginesInv /\ PutFails => EnginesInv'
<1> SUFFICES ASSUME EnginesInv, PutFails PROVE EnginesInv'
  OBVIOUS
<1> USE DEF EnginesInv
<1>1. /\ UNCHANGED <<events, final>> /\ faults' \in 0..MaxFaults
      /\ final'.ckpt \in 0..Len(events) /\ "error" \in Faults
  BY EngineAssumption DEF PutFails, Fault, CountPart
<1>2. CASE Bench /\ pc = "rows"
  <2>1. /\ ~ Whole /\ errors' = errors + 1 /\ NextRow
        /\ UNCHANGED <<rocks, ckpt, pc, engine>>
    BY <1>2 DEF PutFails, Loading
  <2>2. EventsPart' /\ CountPart'
    BY <1>1, <1>2, <2>1 DEF EventsPart, CountPart, Distinct
  <2>3. PositionPart'
    BY <1>1, <1>2, <2>1, NextRowPosition
  <2>4. DatabasePart' /\ LoadPart'
    BY <1>1, <2>1 DEF DatabasePart, LoadPart, Puts, PutAt, NextRow, CountPart
  <2> QED BY <2>2, <2>3, <2>4
<1>3. CASE ~ (Bench /\ pc = "rows")
  <2>1. End /\ Abandon
    BY <1>3 DEF PutFails
  <2> QED BY <1>1, <2>1, Abandoned, EndInv
<1> QED BY <1>2, <1>3

\* The measured rows are put; the place stays where the last one was.
LEMMA EndRowsInv == EnginesInv /\ EndRows => EnginesInv'
<1> SUFFICES ASSUME EnginesInv, EndRows PROVE EnginesInv'
  OBVIOUS
<1> USE DEF EnginesInv
<1>1. EventsPart' /\ CountPart'
  BY DEF EndRows, EventsPart, CountPart, Distinct
<1>2. PositionPart'
  BY DEF EndRows, RowsDone, PositionPart, Whole, Row, Here
<1>3. DatabasePart'
  BY DEF EndRows, DatabasePart, Whole, Row, Puts, PutAt
<1>4. LoadPart'
  BY SamePlace DEF EndRows, LoadPart
<1> QED BY <1>1, <1>2, <1>3, <1>4

\* The checkpoint is put by a load that has come to its end.
LEMMA PutCheckpointInv == EnginesInv /\ PutCheckpoint => EnginesInv'
<1> SUFFICES ASSUME EnginesInv, PutCheckpoint PROVE EnginesInv'
  OBVIOUS
<1> USE DEF EnginesInv
<1>1. EventsPart' /\ CountPart'
  <2>1. Len(events) \in Nat
    BY LenProperties DEF EventsPart
  <2> QED BY <2>1 DEF PutCheckpoint, EventsPart, CountPart, Distinct
<1>2. PositionPart'
  BY DEF PutCheckpoint, PositionPart, Whole, Row, Here
<1>3. DatabasePart'
  BY DEF PutCheckpoint, DatabasePart, Whole, Row, Puts, PutAt
<1>4. LoadPart'
  BY SamePlace DEF PutCheckpoint, LoadPart
<1> QED BY <1>1, <1>2, <1>3, <1>4

\* Every step of the system keeps the invariant.
LEMMA InvStep == EnginesInv /\ [Next]_vars => EnginesInv'
<1> SUFFICES ASSUME EnginesInv, [Next]_vars PROVE EnginesInv'
  OBVIOUS
<1>1. CASE UNCHANGED vars
  <2>1. /\ UNCHANGED <<events, rocks, ckpt, final, pc, engine, memory, section, pos, sub>>
        /\ UNCHANGED <<errors, faults>>
    BY <1>1 DEF vars, processVars
  <2>2. EventsPart' /\ CountPart'
    BY <2>1 DEF EnginesInv, EventsPart, CountPart, Distinct
  <2>3. PositionPart'
    BY <2>1, SamePlace DEF EnginesInv, PositionPart, Idle
  <2>4. DatabasePart' /\ LoadPart'
    BY <2>1, SamePlace DEF EnginesInv, DatabasePart, LoadPart, PutAt
  <2> QED BY <2>2, <2>3, <2>4 DEF EnginesInv
<1>2. ASSUME NEW kind \in Loaded, Start(kind) PROVE EnginesInv'
  BY <1>2, FirstRowInv, EngineAssumption DEF Start
<1>3. CASE EndWarmup
  <2>1. pc = "warmup" /\ Goto("rows") /\ UNCHANGED <<events, rocks, ckpt, final, engine, errors, faults>>
    BY <1>3 DEF EndWarmup
  <2>2. events # <<>> /\ engine \in {"memory", "rocksdb"}
    BY <2>1 DEF EnginesInv, PositionPart
  <2> QED BY <2>1, <2>2, FirstRowInv
<1>4. CASE Report
  <2>1. /\ End /\ events' = events /\ (rocks' = rocks \/ rocks' = {})
        /\ ckpt' \in 0..Len(events) /\ final'.ckpt \in 0..Len(events)
        /\ faults' \in 0..MaxFaults
    <3>1. /\ Len(events) \in Nat /\ ckpt \in 0..Len(events) /\ final.ckpt \in 0..Len(events)
          /\ faults \in 0..MaxFaults
      BY LenProperties DEF EnginesInv, EventsPart, CountPart
    <3> QED BY <1>4, <3>1 DEF Report
  <2> QED BY <2>1, EndInv
<1>5. CASE Kill
  <2>1. /\ End /\ Abandon /\ UNCHANGED <<events, final>> /\ faults' \in 0..MaxFaults
        /\ final.ckpt \in 0..Len(events)
    BY <1>5, EngineAssumption DEF Kill, Fault, EnginesInv, CountPart
  <2> QED BY <2>1, Abandoned, EndInv
<1>6. CASE RemovePublished
  <2>1. /\ UNCHANGED <<events, rocks, ckpt, pc, engine, memory, section, pos, sub>>
        /\ UNCHANGED <<errors, faults>> /\ final' = None
    BY <1>6 DEF RemovePublished, processVars
  <2>2. EventsPart' /\ CountPart'
    <3>1. Len(events) \in Nat
      BY LenProperties DEF EnginesInv, EventsPart
    <3> QED BY <2>1, <3>1 DEF EnginesInv, EventsPart, CountPart, Distinct, None
  <2>3. PositionPart'
    BY <2>1, SamePlace DEF EnginesInv, PositionPart, Idle
  <2>4. DatabasePart' /\ LoadPart'
    BY <2>1, SamePlace DEF EnginesInv, DatabasePart, LoadPart, PutAt
  <2> QED BY <2>2, <2>3, <2>4 DEF EnginesInv
<1> QED BY <1>1, <1>2, <1>3, <1>4, <1>5, <1>6, NormalizeInv, RocksStepInv, MemoryStepInv,
        PutFailsInv, EndRowsInv, PutCheckpointInv DEF Next, Step

\* The invariant holds in every reachable state.
THEOREM EnginesInvariance == Spec => []EnginesInv
BY InvInit, InvStep, PTL DEF Spec

-----------------------------------------------------------------------------
(* Types, and what a whole load leaves. *)

\* Every variable has its type, and the database holds a key once and only keys of rows
\* that the dataset has.
THEOREM EnginesTypeCorrect == Spec => []EnginesTypeOK
<1>1. ASSUME EnginesInv PROVE EnginesTypeOK
  <2> USE <1>1 DEF EnginesInv
  <2>1. Len(events) \in Nat
    BY LenProperties DEF EventsPart
  <2>2. /\ \A w \in rocks : \E p \in Puts : w.key = PutAt(p).key
        /\ \A v, w \in rocks : v.key = w.key => v = w
    BY DEF DatabasePart
  <2>3. section \in 1..(Len(Sections) + 1) /\ pos \in 1..(Len(events) + 1) /\ sub \in 1..3
    BY <2>1, SectionsAre DEF PositionPart, Idle
  <2> QED BY <2>2, <2>3 DEF EventsPart, PositionPart, CountPart, EnginesTypeOK
<1> QED BY <1>1, EnginesInvariance, PTL

\* When every row has been put, every put is done.
LEMMA AllDone == ASSUME EnginesInv, Whole PROVE Done = Puts
<1>1. section > 7
  BY SectionsAre DEF EnginesInv, PositionPart, Whole
<1>2. \A p \in Puts : p \in (1..7) \X (1..Len(events)) \X (1..3)
  BY PutsTyped DEF EnginesInv
<1> QED BY <1>1, <1>2 DEF Done, Earlier, Here, EnginesInv, PositionPart

\* Two puts of one key, each of them the last, are one.
LEMMA LastIsOne ==
    ASSUME EventsPart, NEW p \in Puts, NEW q \in Puts, ~ Earlier(p, q), ~ Earlier(q, p)
    PROVE  p = q
<1>1. p \in (1..7) \X (1..Len(events)) \X (1..3) /\ q \in (1..7) \X (1..Len(events)) \X (1..3)
  BY PutsTyped
<1>2. p[1] = q[1] /\ p[2] = q[2] /\ p[3] = q[3]
  BY <1>1 DEF Earlier
<1> QED BY <1>1, <1>2

\* Entries that are only of puts, with a key once, and hold the last put of every key
\* are those of a load into an empty database.
LEMMA LastPutsAreFresh ==
    ASSUME EventsPart, NEW entries,
           \A w \in entries : \E p \in Puts : w = PutAt(p),
           HoldsLast(entries, Puts)
    PROVE  entries = Fresh
<1>1. ASSUME NEW w \in entries PROVE w \in Fresh
  <2>1. PICK p \in Puts : w = PutAt(p) /\ \A q \in Puts : Earlier(p, q) => PutAt(q).key # w.key
    BY DEF HoldsLast
  <2> QED BY <2>1 DEF Fresh, LastOf
<1>2. ASSUME NEW w \in Fresh PROVE w \in entries
  <2>1. PICK p \in Puts :
          w = PutAt(p) /\ ~ \E q \in Puts : Earlier(p, q) /\ PutAt(q).key = PutAt(p).key
    BY DEF Fresh, LastOf
  <2>2. PICK v \in entries : v.key = w.key
    BY <2>1 DEF HoldsLast
  <2>3. PICK q \in Puts : v = PutAt(q) /\ \A r \in Puts : Earlier(q, r) => PutAt(r).key # v.key
    BY <2>1, <2>2 DEF HoldsLast
  <2>4. p = q
    BY <2>1, <2>2, <2>3, LastIsOne
  <2> QED BY <2>1, <2>3, <2>4
<1> QED BY <1>1, <1>2

\* A load that puts every row without an error leaves what it leaves in an empty database.
LEMMA WholeLoadIsFresh == EnginesInv => RerunIsFresh
<1> SUFFICES ASSUME EnginesInv, pc = "report", engine = "rocksdb", section > Len(Sections),
                    errors = 0
             PROVE  rocks = Fresh
  BY DEF RerunIsFresh
<1>1. HoldsLast(rocks, Puts)
  BY AllDone DEF EnginesInv, LoadPart, Whole
<1> QED BY <1>1, LastPutsAreFresh DEF EnginesInv, DatabasePart

\* A run that puts every row without an error leaves what a load into an empty database
\* leaves, however many partial loads, killed runs and failed puts came before it and
\* however the dataset has grown between them.
THEOREM RerunCorrect == Spec => []RerunIsFresh
BY WholeLoadIsFresh, EnginesInvariance, PTL

-----------------------------------------------------------------------------
(* What a replay publishes. *)

\* The puts of all events are those of the first Len(events).
LEMMA FreshOfAll == ASSUME EventsPart PROVE FreshOf(Len(events)) = Fresh
<1>1. \A p \in Puts : p[2] \in 1..Len(events) /\ Len(events) \in Nat
  BY PutsTyped, LenProperties DEF EventsPart
<1>2. {p \in Puts : p[2] <= Len(events)} = Puts
  BY <1>1
<1> QED BY <1>2 DEF FreshOf, Fresh

\* No event is counted by no database.
LEMMA FreshOfNone == ASSUME EventsPart PROVE FreshOf(0) = {}
<1>1. \A p \in Puts : ~ (p[2] <= 0)
  BY PutsTyped DEF EventsPart
<1>2. {p \in Puts : p[2] <= 0} = {}
  BY <1>1
<1> QED BY <1>2 DEF FreshOf, LastOf

\* A dataset that grows leaves the first n of its events what they were.
LEMMA FreshOfStays ==
    ASSUME EventsPart, Normalize, NEW n \in 0..Len(events)
    PROVE  FreshOf(n)' = FreshOf(n)
<1> DEFINE those == {p \in Puts : p[2] <= n}
<1>1. \A p \in Puts : p \in Puts' /\ PutAt(p)' = PutAt(p)
  BY PutsStay
<1>2. ASSUME NEW p \in Puts', p[2] <= n PROVE p \in Puts
  <2>1. p[2] \in 1..Len(events') /\ Len(events) \in Nat /\ Len(events') \in Nat
    BY Appended DEF Puts
  <2>2. p[2] \in 1..Len(events)
    BY <1>2, <2>1
  <2>3. events'[p[2]] = events[p[2]]
    BY <2>2, Appended
  <2> QED BY <2>2, <2>3 DEF Puts
<1>3. {p \in Puts' : p[2] <= n} = those
  BY <1>1, <1>2
<1>4. \A p \in those : p \in Puts /\ PutAt(p)' = PutAt(p)
  BY <1>1
<1> DEFINE last == {p \in those : ~ \E q \in those : Earlier(p, q) /\ PutAt(q).key = PutAt(p).key}
           lastNext ==
               {p \in those : ~ \E q \in those : Earlier(p, q) /\ PutAt(q)'.key = PutAt(p)'.key}
<1> HIDE DEF those
<1>5. lastNext = last
  BY <1>4
<1>6. \A p \in last : PutAt(p)' = PutAt(p)
  BY <1>4
<1> HIDE DEF last
<1>7. {PutAt(p)' : p \in last} = {PutAt(p) : p \in last}
  BY <1>6
<1>8. FreshOf(n) = {PutAt(p) : p \in last}
  BY DEF FreshOf, LastOf, last, those
<1>9. FreshOf(n)' = {PutAt(p)' : p \in lastNext}
  BY <1>3 DEF FreshOf, LastOf, Earlier
<1> QED BY <1>5, <1>7, <1>8, <1>9

\* Whatever was killed or failed before, and however the dataset has grown since, the
\* database that a replay has published is what a load of the events that its checkpoint
\* counts leaves in an empty database.
THEOREM PublishedCorrect ==
    ASSUME Staged
    PROVE  Spec => []PublishedWhole
<1>1. Init => PublishedWhole
  <2> SUFFICES ASSUME Init PROVE PublishedWhole
    OBVIOUS
  <2>1. EventsPart /\ final.rows = {} /\ final.ckpt = 0
    BY InvInit DEF Init, None, EnginesInv
  <2> QED BY <2>1, FreshOfNone DEF PublishedWhole
<1>2. ASSUME EnginesInv, PublishedWhole, [Next]_vars PROVE PublishedWhole'
  <2> USE <1>2
  <2>1. EventsPart /\ ~ Bench
    BY DEF EnginesInv, Staged, Bench
  <2>2. ASSUME NEW n, events' = events PROVE FreshOf(n)' = FreshOf(n)
    BY <2>2 DEF FreshOf, LastOf, Puts, PutAt, Earlier
  <2>3. CASE Report /\ engine = "rocksdb"
    <3>1. /\ pc = "report" /\ events' = events
          /\ final' = [rows |-> rocks, ckpt |-> ckpt]
      BY <2>3 DEF Report
    <3>2. Whole /\ errors = 0
      BY <2>1, <3>1 DEF EnginesInv, PositionPart, CountPart
    <3>3. rocks = Fresh
      BY <2>3, <3>1, <3>2, WholeLoadIsFresh DEF RerunIsFresh, Whole
    <3>4. ckpt = Len(events)
      BY <2>3, <3>1 DEF EnginesInv, CountPart
    <3> QED BY <2>1, <2>2, <3>1, <3>3, <3>4, FreshOfAll DEF PublishedWhole
  <2>4. CASE Normalize
    <3>1. final' = final /\ final.ckpt \in 0..Len(events)
      BY <2>4 DEF Normalize, EnginesInv, CountPart
    <3> QED BY <2>1, <2>4, <3>1, FreshOfStays DEF PublishedWhole
  <2>5. CASE RemovePublished
    <3>1. final'.rows = {} /\ final'.ckpt = 0 /\ events' = events
      BY <2>5 DEF RemovePublished, None
    <3> QED BY <2>1, <2>2, <3>1, FreshOfNone DEF PublishedWhole
  <2>6. CASE ~ (Report /\ engine = "rocksdb") /\ ~ Normalize /\ ~ RemovePublished
    <3>1. events' = events /\ final' = final
      BY <2>6 DEF Next, Step, Start, RocksStep, MemoryStep, PutFails, EndWarmup, EndRows,
         PutCheckpoint, Report, Kill, vars
    <3> QED BY <2>2, <3>1 DEF PublishedWhole
  <2> QED BY <2>3, <2>4, <2>5, <2>6
<1> QED BY <1>1, <1>2, EnginesInvariance, PTL DEF Spec

-----------------------------------------------------------------------------
(* The indexes of a fill. *)

Dataset == {events[i] : i \in DOMAIN events}

\* A fill has an id of its own.
LEMMA FillsById ==
    ASSUME UniqueFills, EventsPart, NEW e \in Dataset, NEW f \in Dataset, IsFill(e), IsFill(f),
           Id(e) = Id(f)
    PROVE  e = f
<1>1. PICK i \in DOMAIN events : e = events[i]
  BY DEF Dataset
<1>2. PICK j \in DOMAIN events : f = events[j]
  BY DEF Dataset
<1> QED BY <1>1, <1>2 DEF EventsPart, Distinct

\* Fills with an id of their own do not share a key of the market or account index, nor
\* of the builder's.
LEMMA KeysOfFills ==
    ASSUME UniqueFills, EventsPart, NEW e \in Dataset, NEW f \in Dataset, IsFill(e), IsFill(f),
           \/ MarketKey(e) = MarketKey(f)
           \/ AccountKey(e) = AccountKey(f)
           \/ BuilderKey(e) = BuilderKey(f)
    PROVE  e = f
<1>1. Id(e) = Id(f)
  BY DEF MarketKey, AccountKey, BuilderKey
<1> QED BY <1>1, FillsById

\* The row of a put is an event of the dataset.
LEMMA RowOfPut ==
    ASSUME EventsPart, NEW p \in Puts
    PROVE  events[p[2]] \in Dataset /\ PutAt(p).row = events[p[2]]
<1>1. p[2] \in DOMAIN events
  BY PutsTyped, LenProperties DEF EventsPart
<1> QED BY <1>1, FamilyOfPut DEF Dataset

\* But for a put, the database stays as it is or is emptied.
LEMMA OtherSteps ==
    ASSUME [Next]_vars, ~ (RocksStep /\ Row # <<>>)
    PROVE  rocks' = rocks \/ rocks' = {}
<1>1. CASE PutFails \/ Report \/ Kill
  BY <1>1 DEF PutFails, Report, Kill, Abandon
<1>2. CASE ~ (PutFails \/ Report \/ Kill)
  BY <1>2 DEF Next, Step, Normalize, Start, RocksStep, MemoryStep, EndWarmup, EndRows,
     PutCheckpoint, RemovePublished, vars
<1> QED BY <1>1, <1>2

\* A put that takes a fill's entry of the market or account index away puts it again; only
\* an abandoned or published directory loses all its entries.
LEMMA FillEntriesStay ==
    ASSUME UniqueFills, EnginesInv, [Next]_vars, rocks' # {}, NEW e \in Dataset, IsFill(e)
    PROVE  /\ Entry(MarketKey(e), e) \in rocks => Entry(MarketKey(e), e) \in rocks'
           /\ Entry(AccountKey(e), e) \in rocks => Entry(AccountKey(e), e) \in rocks'
<1>1. CASE ~ (RocksStep /\ Row # <<>>)
  <2>1. rocks' = rocks
    BY <1>1, OtherSteps
  <2> QED BY <2>1
<1>2. CASE RocksStep /\ Row # <<>>
  <2>1. Here \in Puts /\ PutAt(Here) = Row[sub]
    BY <1>2, NextPut DEF EnginesInv, RocksStep, Loading
  <2>2. rocks' = Upsert(rocks, PutAt(Here))
    BY <1>2, <2>1 DEF RocksStep
  <2> DEFINE f == events[Here[2]]
  <2>3. f \in Dataset
    BY <2>1, RowOfPut DEF EnginesInv
  <2>4. PutAt(Here).key = MarketKey(e) => PutAt(Here) = Entry(MarketKey(e), e)
    <3> SUFFICES ASSUME PutAt(Here).key = MarketKey(e) PROVE PutAt(Here) = Entry(MarketKey(e), e)
      OBVIOUS
    <3>1. PutAt(Here).key[1] = "fills_by_market"
      BY DEF MarketKey
    <3>2. IsFill(f) /\ PutAt(Here) = Entry(MarketKey(f), f)
      BY <2>1, <3>1, FamilyOfPut
    <3>3. MarketKey(f) = MarketKey(e)
      BY <3>2 DEF Entry
    <3> QED BY <2>3, <3>2, <3>3, KeysOfFills DEF EnginesInv
  <2>5. PutAt(Here).key = AccountKey(e) => PutAt(Here) = Entry(AccountKey(e), e)
    <3> SUFFICES ASSUME PutAt(Here).key = AccountKey(e) PROVE PutAt(Here) = Entry(AccountKey(e), e)
      OBVIOUS
    <3>1. PutAt(Here).key[1] = "fills_by_account"
      BY DEF AccountKey
    <3>2. IsFill(f) /\ PutAt(Here) = Entry(AccountKey(f), f)
      BY <2>1, <3>1, FamilyOfPut
    <3>3. AccountKey(f) = AccountKey(e)
      BY <3>2 DEF Entry
    <3> QED BY <2>3, <3>2, <3>3, KeysOfFills DEF EnginesInv
  <2>6. Entry(MarketKey(e), e).key = MarketKey(e) /\ Entry(AccountKey(e), e).key = AccountKey(e)
    BY DEF Entry
  <2> QED BY <2>2, <2>4, <2>5, <2>6 DEF Upsert
<1> QED BY <1>1, <1>2

\* An entry that a step adds to the database is the put of the row at hand, whose first
\* puts are there, or that of an event that the dataset has had.
LEMMA EntryAdded ==
    ASSUME EnginesInv, [Next]_vars, NEW w \in rocks', w \notin rocks
    PROVE  /\ RocksStep /\ Row # <<>> /\ ~ Whole /\ engine = "rocksdb" /\ pc # "idle"
           /\ Here \in Puts /\ w = PutAt(Here) /\ w = Row[sub]
           /\ \A k \in 1..(sub - 1) : Row[k] \in rocks /\ Row[k] \in rocks'
<1>1. RocksStep /\ Row # <<>>
  BY OtherSteps
<1>2. ~ Whole /\ engine = "rocksdb" /\ pc # "idle" /\ Advance /\ events' = events
  BY <1>1 DEF RocksStep, Loading
<1>3. Here \in Puts /\ PutAt(Here) = Row[sub] /\ rocks' = Upsert(rocks, Row[sub])
  BY <1>1, <1>2, NextPut DEF EnginesInv, RocksStep
<1>4. w = Row[sub]
  BY <1>3 DEF Upsert
<1>5. ASSUME NEW k \in 1..(sub - 1) PROVE Row[k] \in rocks /\ Row[k] \in rocks'
  <2>1. Row[k] \in rocks
    BY <1>2 DEF EnginesInv, DatabasePart
  <2>2. k \in 1..Len(Row) /\ sub \in 1..Len(Row) /\ k # sub
    BY <1>1, <1>2, WritesAre DEF EnginesInv, PositionPart, Row
  <2>3. Row[k].key # Row[sub].key
    BY <2>2, KeysOfRowDiffer DEF Row
  <2> QED BY <1>3, <2>1, <2>3 DEF Upsert
<1> QED BY <1>1, <1>2, <1>3, <1>4, <1>5

\* An event whose entry is in the database is not new in the dataset.
LEMMA NotNew ==
    ASSUME EnginesInv, [Next]_vars, NEW e \in Dataset', NEW key, Entry(key, e) \in rocks
    PROVE  e \in Dataset
<1>1. PICK p \in Puts : Entry(key, e) = PutAt(p)
  BY DEF EnginesInv, DatabasePart
<1>2. Entry(key, e).row = e
  BY DEF Entry
<1> QED BY <1>1, <1>2, RowOfPut DEF EnginesInv

\* If fills have ids of their own, a fill that the account index has is in the market
\* index, and one in the recent activity is in both, between any two puts of any run,
\* whatever was killed or failed before.
THEOREM IndexesCorrect ==
    ASSUME UniqueFills
    PROVE  Spec => []IndexesAgree
<1>1. Init => IndexesAgree
  BY DEF Init, IndexesAgree
<1>2. ASSUME EnginesInv, IndexesAgree, [Next]_vars PROVE IndexesAgree'
  <2> SUFFICES ASSUME NEW e \in Dataset', IsFill(e)
               PROVE  /\ Entry(AccountKey(e), e) \in rocks' => Entry(MarketKey(e), e) \in rocks'
                      /\ Entry(ActivityKey(e), e) \in rocks' => Entry(AccountKey(e), e) \in rocks'
    BY DEF IndexesAgree, Dataset
  <2>1. ASSUME Entry(AccountKey(e), e) \in rocks' PROVE Entry(MarketKey(e), e) \in rocks'
    <3>1. CASE Entry(AccountKey(e), e) \in rocks
      <4>1. e \in Dataset
        BY <1>2, <3>1, NotNew
      <4>2. Entry(MarketKey(e), e) \in rocks
        BY <1>2, <3>1, <4>1 DEF IndexesAgree, Dataset
      <4> QED BY <1>2, <2>1, <4>1, <4>2, FillEntriesStay
    <3>2. CASE Entry(AccountKey(e), e) \notin rocks
      <4> DEFINE w == Entry(AccountKey(e), e)
      <4>1. Here \in Puts /\ w = PutAt(Here) /\ Row # <<>> /\ ~ Whole
            /\ \A k \in 1..(sub - 1) : Row[k] \in rocks'
        BY <1>2, <2>1, <3>2, EntryAdded
      <4>2. w.row = e /\ w.key[1] = "fills_by_account"
        BY DEF Entry, AccountKey
      <4>3. Here[1] = 3 /\ Here[3] = 2 /\ events[Here[2]] = e
        BY <4>1, <4>2, FamilyOfPut
      <4>4. section = 3 /\ sub = 2 /\ events[pos] = e
        BY <4>3 DEF Here
      <4>5. Row = FillWrites(e)
        BY <4>1, <4>4, SectionsAre DEF Row, Writes
      <4>6. Row[1] = Entry(MarketKey(e), e)
        BY <4>5 DEF FillWrites
      <4> QED BY <4>1, <4>4, <4>6
    <3> QED BY <3>1, <3>2
  <2>2. ASSUME Entry(ActivityKey(e), e) \in rocks' PROVE Entry(AccountKey(e), e) \in rocks'
    <3>1. CASE Entry(ActivityKey(e), e) \in rocks
      <4>1. e \in Dataset
        BY <1>2, <3>1, NotNew
      <4>2. Entry(AccountKey(e), e) \in rocks
        BY <1>2, <3>1, <4>1 DEF IndexesAgree, Dataset
      <4> QED BY <1>2, <2>2, <4>1, <4>2, FillEntriesStay
    <3>2. CASE Entry(ActivityKey(e), e) \notin rocks
      <4> DEFINE w == Entry(ActivityKey(e), e)
      <4>1. Here \in Puts /\ w = PutAt(Here) /\ Row # <<>> /\ ~ Whole
            /\ \A k \in 1..(sub - 1) : Row[k] \in rocks'
        BY <1>2, <2>2, <3>2, EntryAdded
      <4>2. w.row = e /\ w.key[1] = "activity"
        BY DEF Entry, ActivityKey
      <4>3. events[Here[2]] = e
        BY <4>1, <4>2, RowOfPut, <1>2 DEF EnginesInv
      <4>4. Here[1] = 3 /\ Here[3] = 3
        BY <4>1, <4>2, <4>3, FamilyOfPut
      <4>5. section = 3 /\ sub = 3 /\ events[pos] = e
        BY <4>3, <4>4 DEF Here
      <4>6. Row = FillWrites(e)
        BY <4>1, <4>5, SectionsAre DEF Row, Writes
      <4>7. Row[2] = Entry(AccountKey(e), e)
        BY <4>6 DEF FillWrites
      <4> QED BY <4>1, <4>5, <4>7
    <3> QED BY <3>1, <3>2
  <2> QED BY <2>1, <2>2
<1> QED BY <1>1, <1>2, EnginesInvariance, PTL DEF Spec

-----------------------------------------------------------------------------
(* The builder's rows and the fills they are about. *)

\* The rows of file s up to event i have been put.
Behind(s, i) == s < section \/ (s = section /\ i < pos)

\* The memory engine has the fills that lie behind, and fills of the dataset only.
MemoryPart ==
    /\ memory = [plain |-> memory.plain, fills |-> memory.fills,
                 builders |-> memory.builders, activities |-> memory.activities]
    /\ \A e \in memory.fills : e \in Dataset /\ IsFill(e)
    /\ engine = "memory" /\ pc # "idle" =>
         \A i \in 1..Len(events) :
            IsFill(events[i]) /\ Behind(3, i) => events[i] \in memory.fills
    /\ memory.builders \subseteq memory.fills

\* A row further, one more lies behind.
LEMMA BehindNext ==
    ASSUME EnginesInv, pc # "idle", ~ Whole, NextRow, UNCHANGED events,
           NEW s \in 1..7, NEW i \in 1..Len(events)
    PROVE  Behind(s, i)' <=> Behind(s, i) \/ (s = section /\ i = pos)
<1>1. section \in 1..7 /\ pos \in 1..Len(events) /\ Len(events) \in Nat
  BY SectionsAre, LenProperties DEF EnginesInv, PositionPart, EventsPart, Whole
<1>2. CASE pos < Len(events)
  BY <1>1, <1>2 DEF Behind, NextRow
<1>3. CASE ~ (pos < Len(events))
  BY <1>1, <1>3 DEF Behind, NextRow
<1> QED BY <1>2, <1>3

\* An entry of the builder's index is of a fill.
LEMMA BuilderRowIsFill ==
    ASSUME EnginesInv, NEW e, Entry(BuilderKey(e), e) \in rocks
    PROVE  IsFill(e)
<1>1. PICK p \in Puts : Entry(BuilderKey(e), e) = PutAt(p)
  BY DEF EnginesInv, DatabasePart
<1>2. PutAt(p).row = e /\ PutAt(p).key[1] = "builder"
  BY <1>1 DEF Entry, BuilderKey
<1> QED BY <1>2, RowOfPut, FamilyOfPut DEF EnginesInv

\* Every step keeps what is known of the memory engine's builder rows.
LEMMA MemoryPartStep ==
    ASSUME UniqueFills, EnginesInv, MemoryPart, [Next]_vars
    PROVE  MemoryPart'
<1> USE DEF MemoryPart
<1>1. CASE MemoryStep
  <2> DEFINE file == Sections[section]
             e == events[pos]
  <2>1. /\ pc # "idle" /\ ~ Whole /\ engine = "memory" /\ NextRow
        /\ UNCHANGED <<events, pc, engine>> /\ memory' = MemoryPut(memory, file, e)
    BY <1>1 DEF MemoryStep, Loading
  <2>2. section \in 1..7 /\ pos \in 1..Len(events) /\ DOMAIN events = 1..Len(events)
    BY <2>1, SectionsAre, LenProperties DEF EnginesInv, PositionPart, EventsPart, Whole
  <2>3. Dataset' = Dataset /\ e \in Dataset
    BY <2>1, <2>2 DEF Dataset
  <2>4. \A i \in 1..Len(events) : Behind(3, i)' <=> Behind(3, i) \/ (section = 3 /\ i = pos)
    BY <2>1, BehindNext
  <2>5. \A i \in 1..Len(events) : Behind(3, i) /\ IsFill(events[i]) => events[i] \in memory.fills
    BY <2>1
  <2>6. memory' = [plain |-> memory'.plain, fills |-> memory'.fills,
                   builders |-> memory'.builders, activities |-> memory'.activities]
    BY <2>1 DEF MemoryPut, PutFill, PutBuilder
  <2>7. CASE Yields(file, e) /\ file = "fills"
    <3>1. IsFill(e) /\ memory' = PutFill(memory, e)
      BY <2>1, <2>7 DEF MemoryPut, Yields
    <3>2. /\ memory'.fills = {f \in memory.fills : Id(f) # Id(e)} \cup {e}
          /\ memory'.builders = memory.builders
      BY <3>1 DEF PutFill
    <3>3. \A f \in memory.fills : Id(f) = Id(e) => f = e
      BY <2>3, <3>1, FillsById DEF EnginesInv
    <3>4. memory.fills \subseteq memory'.fills /\ e \in memory'.fills
      BY <3>2, <3>3
    <3>5. \A f \in memory'.fills : f \in Dataset /\ IsFill(f)
      BY <2>3, <3>1, <3>2
    <3>6. \A i \in 1..Len(events) : IsFill(events[i]) /\ Behind(3, i)' => events[i] \in memory'.fills
      BY <2>4, <2>5, <3>4
    <3> QED BY <2>1, <2>3, <2>6, <3>2, <3>4, <3>5, <3>6
  <2>8. CASE Yields(file, e) /\ file = "builder_rows"
    <3>1. IsFill(e) /\ memory' = PutBuilder(memory, e) /\ section = 6
      BY <2>1, <2>2, <2>8, SectionsAre DEF MemoryPut, Yields
    <3>2. memory'.fills = memory.fills /\ memory'.builders \subseteq memory.builders \cup {e}
      BY <3>1 DEF PutBuilder
    <3>3. e \in memory.fills
      BY <2>2, <2>5, <3>1 DEF Behind
    <3>4. \A i \in 1..Len(events) : IsFill(events[i]) /\ Behind(3, i)' => events[i] \in memory'.fills
      BY <2>4, <2>5, <3>1, <3>2
    <3> QED BY <2>1, <2>3, <2>6, <3>2, <3>3, <3>4
  <2>9. CASE ~ Yields(file, e) \/ file \notin {"fills", "builder_rows"}
    <3>1. memory'.fills = memory.fills /\ memory'.builders = memory.builders
      BY <2>1, <2>9 DEF MemoryPut
    <3>2. section = 3 => ~ IsFill(e)
      BY <2>9, SectionsAre DEF Yields
    <3>3. \A i \in 1..Len(events) : IsFill(events[i]) /\ Behind(3, i)' => events[i] \in memory'.fills
      BY <2>4, <2>5, <3>1, <3>2
    <3> QED BY <2>1, <2>3, <2>6, <3>1, <3>3
  <2> QED BY <2>7, <2>8, <2>9
<1>2. CASE UNCHANGED <<events, memory, pc, engine, section, pos>>
  BY <1>2 DEF Behind, Dataset
<1>3. CASE RocksStep
  BY <1>3 DEF RocksStep, Dataset
<1>4. CASE PutFails \/ Report \/ Kill
  <2>1. CASE End /\ events' = events
    BY <2>1 DEF End, EmptyMemory
  <2>2. CASE ~ End
    BY <1>4, <2>2 DEF PutFails, Report, Kill, Dataset
  <2> QED BY <1>4, <2>1, <2>2 DEF PutFails, Report, Kill
<1>5. CASE Normalize
  BY <1>5 DEF Normalize, processVars, EnginesInv, PositionPart, Idle, EmptyMemory
<1>6. ASSUME NEW step, Goto(step), UNCHANGED <<events, memory>> PROVE MemoryPart'
  BY <1>6 DEF Goto, Behind, Dataset
<1>7. CASE EndWarmup \/ \E kind \in Loaded : Start(kind)
  BY <1>6, <1>7 DEF EndWarmup, Start
<1>8. CASE EndRows \/ PutCheckpoint
  <2>1. UNCHANGED <<events, memory, engine, section, pos>> /\ pc # "idle"
    BY <1>8 DEF EndRows, PutCheckpoint
  <2> QED BY <2>1 DEF Behind, Dataset
<1>9. CASE RemovePublished \/ UNCHANGED vars
  BY <1>2, <1>9 DEF RemovePublished, vars, processVars
<1> QED BY <1>1, <1>3, <1>4, <1>5, <1>7, <1>8, <1>9 DEF Next, Step

\* Where no put fails unnoticed and fills have ids of their own, a step of a load keeps the
\* fill of every builder's attribution row.
LEMMA BuilderStep ==
    ASSUME UniqueFills, ~ Bench \/ "error" \notin Faults,
           EnginesInv, MemoryPart, BuilderHasFill, [Next]_vars
    PROVE  BuilderHasFill'
<1>1. memory'.builders \subseteq memory'.fills
  BY MemoryPartStep DEF MemoryPart
<1> SUFFICES ASSUME NEW e \in Dataset', Entry(BuilderKey(e), e) \in rocks'
             PROVE  Entry(MarketKey(e), e) \in rocks'
  BY <1>1 DEF BuilderHasFill, Dataset
<1>2. CASE Entry(BuilderKey(e), e) \in rocks
  <2>1. e \in Dataset
    BY <1>2, NotNew
  <2>2. Entry(MarketKey(e), e) \in rocks
    BY <1>2, <2>1 DEF BuilderHasFill, Dataset
  <2>3. IsFill(e)
    BY <1>2, BuilderRowIsFill
  <2> QED BY <2>1, <2>2, <2>3, FillEntriesStay
<1>3. CASE Entry(BuilderKey(e), e) \notin rocks
  <2> DEFINE w == Entry(BuilderKey(e), e)
  <2>1. Here \in Puts /\ w = PutAt(Here) /\ engine = "rocksdb" /\ pc # "idle" /\ RocksStep
    BY <1>3, EntryAdded
  <2>2. w.row = e /\ w.key[1] = "builder"
    BY DEF Entry, BuilderKey
  <2>3. events[Here[2]] = e
    BY <2>1, <2>2, RowOfPut DEF EnginesInv
  <2>4. Here[1] = 6 /\ IsFill(e) /\ e \in Dataset
    BY <2>1, <2>2, <2>3, FamilyOfPut, RowOfPut DEF EnginesInv
  <2>5. section = 6 /\ pos \in 1..Len(events) /\ events[pos] = e
    BY <2>1, <2>3, <2>4 DEF Here, Puts
  <2>6. <<3, pos, 1>> \in Puts /\ PutAt(<<3, pos, 1>>) = Entry(MarketKey(e), e)
    BY <2>4, <2>5, SectionsAre DEF Puts, PutAt, Writes, Yields, FillWrites
  <2>7. <<3, pos, 1>> \in Done
    BY <2>5, <2>6 DEF Done, Earlier, Here
  <2>8. errors = 0
    BY DEF EnginesInv, CountPart
  <2>9. PICK v \in rocks : v.key = MarketKey(e)
    BY <2>1, <2>6, <2>7, <2>8 DEF EnginesInv, LoadPart, HoldsLast, Entry
  <2>10. PICK q \in Puts : v = PutAt(q)
    BY DEF EnginesInv, DatabasePart
  <2> DEFINE f == events[q[2]]
  <2>11. v.key[1] = "fills_by_market"
    BY <2>9 DEF MarketKey
  <2>12. IsFill(f) /\ v = Entry(MarketKey(f), f) /\ f \in Dataset
    BY <2>10, <2>11, FamilyOfPut, RowOfPut DEF EnginesInv
  <2>13. f = e
    BY <2>4, <2>9, <2>12, KeysOfFills DEF EnginesInv, Entry
  <2> QED BY <2>4, <2>12, <2>13, FillEntriesStay
<1> QED BY <1>2, <1>3

-----------------------------------------------------------------------------
(* The events of a dataset have their places in the transactions. *)

Precedes(e, f) == e.version < f.version \/ (e.version = f.version /\ e.idx < f.idx)

InOrder == \A i, j \in 1..Len(events) : i < j => Precedes(events[i], events[j])

\* Every step keeps it.
LEMMA InOrderStep == EnginesInv /\ InOrder /\ [Next]_vars => InOrder'
<1> SUFFICES ASSUME EnginesInv, InOrder, [Next]_vars PROVE InOrder'
  OBVIOUS
<1>1. CASE ~ Normalize
  <2>1. events' = events
    BY <1>1 DEF Next, Step, Start, RocksStep, MemoryStep, PutFails, EndWarmup, EndRows,
       PutCheckpoint, Report, Kill, RemovePublished, vars
  <2> QED BY <2>1 DEF InOrder, Precedes
<1>2. CASE Normalize
  <2>1. PICK tx \in Transactions :
          events' = events \o [i \in 1..Len(tx) |->
               [content |-> tx[i], version |-> NextVersion, idx |-> i - 1]]
    BY <1>2 DEF Normalize
  <2> DEFINE new == [i \in 1..Len(tx) |->
               [content |-> tx[i], version |-> NextVersion, idx |-> i - 1]]
             last == Len(events)
  <2>2. PICK k \in Nat : tx \in [1..k -> Contents] /\ Len(tx) = k
    BY <2>1, EngineAssumption DEF Transactions
  <2>3. events \in Seq(Event) /\ last \in Nat
    BY LenProperties DEF EnginesInv, EventsPart
  <2>4. \A i \in 1..last : events[i] \in Event
    BY <2>3, ElementOfSeq
  <2>5. NextVersion \in Nat /\ \A i \in 1..last : events[i].version < NextVersion
    <3>1. CASE last = 0
      <4>1. events = <<>>
        BY <2>3, <3>1, EmptySeq
      <4> QED BY <3>1, <4>1 DEF NextVersion
    <3>2. CASE last # 0
      <4>1. events # <<>> /\ last \in 1..last
        BY <2>3, <3>2, EmptySeq
      <4>2. NextVersion = events[last].version + 1 /\ events[last].version \in Nat
        BY <2>4, <4>1 DEF NextVersion, Event
      <4>3. ASSUME NEW i \in 1..last PROVE events[i].version <= events[last].version
        <5>1. i = last \/ Precedes(events[i], events[last])
          BY <2>3, <4>1 DEF InOrder
        <5>2. events[i].version \in Nat
          BY <2>4 DEF Event
        <5> QED BY <4>2, <5>1, <5>2 DEF Precedes
      <4>4. \A i \in 1..last : events[i].version \in Nat
        BY <2>4 DEF Event
      <4> QED BY <4>2, <4>3, <4>4
    <3> QED BY <3>1, <3>2
  <2>6. new \in Seq(Event) /\ Len(new) = k
    <3>1. new \in [1..k -> Event]
      BY <2>2, <2>5 DEF Event
    <3> QED BY <2>2, <3>1
  <2>7. Len(events') = last + k /\ \A i \in 1..(last + k) :
          events'[i] = IF i <= last THEN events[i] ELSE new[i - last]
    <3>1. events' = events \o new
      BY <2>1
    <3> HIDE DEF new
    <3> QED BY <2>3, <2>6, <3>1, ConcatProperties
  <2>8. \A i \in 1..(last + k) : i > last =>
          events'[i].version = NextVersion /\ events'[i].idx = i - last - 1
    <3> SUFFICES ASSUME NEW i \in 1..(last + k), i > last
                 PROVE  events'[i].version = NextVersion /\ events'[i].idx = i - last - 1
      OBVIOUS
    <3>1. i - last \in 1..k /\ ~ (i <= last)
      BY <2>2, <2>3
    <3>2. events'[i] = new[i - last]
      BY <2>7, <3>1
    <3>3. new[i - last] =
            [content |-> tx[i - last], version |-> NextVersion, idx |-> i - last - 1]
      BY <2>2, <3>1
    <3> HIDE DEF new
    <3> QED BY <3>2, <3>3
  <2> HIDE DEF new
  <2> SUFFICES ASSUME NEW i \in 1..(last + k), NEW j \in 1..(last + k), i < j
               PROVE  Precedes(events'[i], events'[j])
    BY <2>7 DEF InOrder
  <2>9. CASE j <= last
    <3>1. i \in 1..last /\ j \in 1..last
      BY <2>2, <2>3, <2>9
    <3> QED BY <2>7, <3>1 DEF InOrder
  <2>10. CASE i <= last /\ j > last
    <3>1. i \in 1..last
      BY <2>2, <2>3, <2>10
    <3> QED BY <2>5, <2>7, <2>8, <2>10, <3>1 DEF Precedes
  <2>11. CASE i > last
    <3>1. j > last /\ i - last - 1 < j - last - 1
      BY <2>2, <2>3, <2>11
    <3> QED BY <2>8, <2>11, <3>1 DEF Precedes
  <2> QED BY <2>2, <2>3, <2>9, <2>10, <2>11
<1> QED BY <1>1, <1>2

\* Versions are counted from 1.
VersionsPart == \A i \in 1..Len(events) : events[i].version \in 1..i

\* The versions of the transactions that are appended go on from the last.
LEMMA VersionsStep == ASSUME EventsPart, VersionsPart, Normalize PROVE VersionsPart'
<1>1. PICK tx \in Transactions :
        events' = events \o [i \in 1..Len(tx) |->
             [content |-> tx[i], version |-> NextVersion, idx |-> i - 1]]
  BY DEF Normalize
<1> DEFINE new == [i \in 1..Len(tx) |->
             [content |-> tx[i], version |-> NextVersion, idx |-> i - 1]]
           n == Len(events)
<1>2. PICK k \in Nat : tx \in [1..k -> Contents] /\ Len(tx) = k
  BY <1>1, EngineAssumption DEF Transactions
<1>3. /\ n \in Nat /\ DOMAIN events = 1..n /\ DOMAIN events' = 1..(n + k) /\ Len(events') = n + k
      /\ \A i \in 1..n : events'[i] = events[i]
      /\ \A i \in 1..k : events'[n + i] = new[i]
  BY <1>1, <1>2, LenProperties DEF EventsPart
<1>4. \A i \in 1..k : new[i].version = NextVersion
  BY <1>2
<1>5. NextVersion \in 1..(n + 1)
  <2>1. CASE n = 0
    <3>1. events = <<>>
      BY <2>1, EmptySeq DEF EventsPart
    <3> QED BY <2>1, <3>1 DEF NextVersion
  <2>2. CASE n # 0
    <3>1. events # <<>> /\ n \in 1..n
      BY <1>3, <2>2, EmptySeq
    <3>2. NextVersion = events[n].version + 1 /\ events[n].version \in 1..n
      BY <3>1 DEF NextVersion, VersionsPart
    <3> QED BY <1>3, <3>2
  <2> QED BY <2>1, <2>2
<1> HIDE DEF new, n
<1>6. ASSUME NEW i \in 1..(n + k) PROVE events'[i].version \in 1..i
  <2>1. CASE i \in 1..n
    BY <1>3, <2>1 DEF VersionsPart, n
  <2>2. CASE i \notin 1..n
    <3>1. i - n \in 1..k /\ n + (i - n) = i /\ n + 1 <= i
      BY <1>2, <1>3, <2>2
    <3>2. events'[i].version = NextVersion
      BY <1>3, <1>4, <3>1
    <3> QED BY <1>3, <1>5, <3>1, <3>2
  <2> QED BY <2>1, <2>2
<1> QED BY <1>3, <1>6 DEF VersionsPart

\* So every event has a time.
LEMMA TimeIsNumber ==
    ASSUME EventsPart, VersionsPart, NEW e \in Dataset
    PROVE  e \in Event /\ e.version \in Nat /\ e.idx \in Nat /\ Time(e) \in Nat
<1>1. /\ Len(events) \in Nat /\ DOMAIN events = 1..Len(events) /\ Len(events) <= MaxEvents
  BY LenProperties DEF EventsPart
<1>2. PICK i \in 1..Len(events) : events[i] = e
  BY <1>1 DEF Dataset
<1>3. e \in Event /\ e.version \in 1..i
  BY <1>2, ElementOfSeq DEF EventsPart, VersionsPart
<1>4. e.version \in 1..MaxEvents
  BY <1>1, <1>3, EngineAssumption
<1> QED BY <1>3, <1>4, EngineAssumption DEF Time, Event

\* No two events have the same place.
LEMMA PlaceIsOne ==
    ASSUME EventsPart, InOrder, NEW i \in 1..Len(events), NEW j \in 1..Len(events),
           events[i].version = events[j].version, events[i].idx = events[j].idx
    PROVE  i = j
<1>1. events[i] \in Event /\ events[j] \in Event /\ Len(events) \in Nat
  BY ElementOfSeq, LenProperties DEF EventsPart
<1>2. ~ Precedes(events[i], events[j]) /\ ~ Precedes(events[j], events[i])
  BY <1>1 DEF Precedes, Event
<1> QED BY <1>1, <1>2 DEF InOrder

-----------------------------------------------------------------------------
(* What a replay has put into the memory engine so far. *)

PlainSections == {1, 2, 4, 5}

PlainDone == {p \in Puts : p[1] \in PlainSections /\ Behind(p[1], p[2])}

FillsBehind ==
    {events[i] : i \in {k \in 1..Len(events) : IsFill(events[k]) /\ Behind(3, k)}}

BuildersBehind ==
    {events[i] : i \in {k \in 1..Len(events) :
                          Yields("builder_rows", events[k]) /\ Behind(6, k)}}

IsActive(k) ==
    \/ IsFill(events[k]) /\ Behind(3, k)
    \/ Yields("activity_rows", events[k]) /\ Behind(7, k)

ActiveBehind == {events[i] : i \in {k \in 1..Len(events) : IsActive(k)}}

\* The tables hold what lies behind, and every activity has been pushed once.
MemoryHolds ==
    /\ memory = [plain |-> memory.plain, fills |-> memory.fills,
                 builders |-> memory.builders, activities |-> memory.activities]
    /\ \A w \in memory.plain : \E p \in Puts : p[1] \in PlainSections /\ w = PutAt(p)
    /\ HoldsLast(memory.plain, PlainDone)
    /\ memory.fills = FillsBehind
    /\ memory.builders = BuildersBehind
    /\ memory.activities \in Seq(Event)
    /\ \A e \in ActiveBehind : \E i \in 1..Len(memory.activities) : memory.activities[i] = e
    /\ \A i \in 1..Len(memory.activities) : memory.activities[i] \in ActiveBehind
    /\ \A i, j \in 1..Len(memory.activities) :
          memory.activities[i] = memory.activities[j] => i = j

ReplayPart ==
    /\ InOrder
    /\ engine = "memory" /\ pc # "idle" => MemoryHolds

\* A process that begins has put nothing, and its memory engine is empty.
LEMMA EmptyHolds ==
    ASSUME EventsPart, section = 1, pos = 1, memory = EmptyMemory
    PROVE  MemoryHolds
<1>1. \A s \in 1..7, i \in 1..Len(events) : ~ Behind(s, i)
  BY DEF Behind
<1>2. PlainDone = {} /\ FillsBehind = {} /\ BuildersBehind = {} /\ ActiveBehind = {}
  <2>1. \A p \in Puts : p \in (1..7) \X (1..Len(events)) \X (1..3)
    BY PutsTyped
  <2>2. PlainDone = {}
    BY <1>1, <2>1 DEF PlainDone
  <2>3. \A k \in 1..Len(events) : ~ IsActive(k) /\ ~ Behind(3, k) /\ ~ Behind(6, k)
    BY <1>1 DEF IsActive
  <2> QED BY <2>2, <2>3 DEF FillsBehind, BuildersBehind, ActiveBehind
<1>3. memory.plain = {} /\ memory.fills = {} /\ memory.builders = {} /\ memory.activities = <<>>
  BY DEF EmptyMemory
<1>4. Len(<<>>) = 0 /\ <<>> \in Seq(Event)
  BY EmptySeq
<1> QED BY <1>2, <1>3, <1>4 DEF MemoryHolds, HoldsLast, EmptyMemory

\* The step that puts a row into the memory engine puts it where it belongs.
LEMMA MemoryStepHolds ==
    ASSUME UniqueFills, EnginesInv, ReplayPart, MemoryStep
    PROVE  MemoryHolds'
<1> DEFINE file == Sections[section]
           e == events[pos]
<1>1. /\ pc # "idle" /\ ~ Whole /\ engine = "memory" /\ NextRow
      /\ UNCHANGED <<events, pc, engine>> /\ memory' = MemoryPut(memory, file, e)
  BY DEF MemoryStep, Loading
<1>2. MemoryHolds /\ EventsPart
  BY <1>1 DEF ReplayPart, EnginesInv
<1>3. /\ section \in 1..7 /\ pos \in 1..Len(events) /\ Len(events) \in Nat
      /\ DOMAIN events = 1..Len(events) /\ e \in Event /\ e \in Dataset
  <2>1. section \in 1..7 /\ pos \in 1..Len(events)
    BY <1>1, SectionsAre, LenProperties DEF EnginesInv, PositionPart, EventsPart, Whole
  <2> QED BY <1>2, <2>1, ElementOfSeq, LenProperties DEF EventsPart, Dataset
<1>4. \A s \in 1..7, i \in 1..Len(events) :
        Behind(s, i)' <=> Behind(s, i) \/ (s = section /\ i = pos)
  BY <1>1, BehindNext
<1>5. Puts' = Puts /\ \A p : PutAt(p)' = PutAt(p)
  BY <1>1 DEF Puts, PutAt
<1>6. /\ ~ Behind(section, pos) /\ (section = 3 => ~ Behind(7, pos))
      /\ (section = 7 => Behind(3, pos))
  BY <1>3 DEF Behind
<1>7. FillsBehind' = FillsBehind \cup {f \in {e} : section = 3 /\ IsFill(f)}
  BY <1>1, <1>3, <1>4 DEF FillsBehind
<1>8. BuildersBehind' = BuildersBehind \cup {f \in {e} : section = 6 /\ Yields("builder_rows", f)}
  BY <1>1, <1>3, <1>4 DEF BuildersBehind
<1>9. ActiveBehind' = ActiveBehind \cup
        {f \in {e} : \/ section = 3 /\ IsFill(f)
                     \/ section = 7 /\ Yields("activity_rows", f)}
  BY <1>1, <1>3, <1>4 DEF ActiveBehind, IsActive
<1>10. PlainDone' = PlainDone \cup {p \in {<<section, pos, 1>>} : section \in PlainSections /\ Yields(file, e)}
  <2>1. \A p \in Puts : p \in (1..7) \X (1..Len(events)) \X (1..3)
    BY <1>2, PutsTyped
  <2>2. \A p \in Puts : Behind(p[1], p[2])' <=> Behind(p[1], p[2]) \/ (p[1] = section /\ p[2] = pos)
    BY <1>4, <2>1
  <2>3. \A p \in Puts : p[1] = section /\ p[2] = pos /\ section \in PlainSections =>
           p = <<section, pos, 1>> /\ Yields(file, e)
    <3> SUFFICES ASSUME NEW p \in Puts, p[1] = section, p[2] = pos, section \in PlainSections
                 PROVE  p = <<section, pos, 1>> /\ Yields(file, e)
      OBVIOUS
    <3>1. p[3] \in 1..Len(Writes(file, e))
      BY <2>1 DEF Puts
    <3>2. file \notin {"fills", "builder_rows", "activity_rows"}
      BY SectionsAre DEF PlainSections
    <3>3. p[3] = 1 /\ Yields(file, e)
      BY <3>1, <3>2, WritesAre
    <3> QED BY <2>1, <3>3
  <2>4. section \in PlainSections /\ Yields(file, e) => <<section, pos, 1>> \in Puts
    BY <1>3, SectionsAre DEF Puts, Writes, PlainSections
  <2> QED BY <1>5, <2>2, <2>3, <2>4 DEF PlainDone
<1>11. memory' = [plain |-> memory'.plain, fills |-> memory'.fills,
                  builders |-> memory'.builders, activities |-> memory'.activities]
  BY <1>1, <1>2 DEF MemoryHolds, MemoryPut, PutFill, PutBuilder
<1>12. /\ \A w \in memory'.plain : \E p \in Puts' : p[1] \in PlainSections /\ w = PutAt(p)'
       /\ HoldsLast(memory.plain, PlainDone)'
  <2>1. CASE section \in PlainSections /\ Yields(file, e)
    <3> DEFINE p == <<section, pos, 1>>
    <3>1. file \notin {"fills", "builder_rows", "activity_rows"}
      BY <2>1, SectionsAre DEF PlainSections
    <3>2. p \in Puts /\ PutAt(p) = Entry(PlainKey(file, e), e)
      BY <1>3, <2>1, <3>1, SectionsAre DEF Puts, PutAt, Writes
    <3>3. memory'.plain = Upsert(memory.plain, PutAt(p))
      BY <1>1, <1>2, <2>1, <3>1, <3>2 DEF MemoryPut, MemoryHolds
    <3>4. \A q \in PlainDone : Earlier(q, p)
      BY DEF PlainDone, Earlier, Behind
    <3>5. PlainDone \in SUBSET Puts
      BY DEF PlainDone
    <3>6. HoldsLast(memory'.plain, PlainDone \cup {p})
      BY <1>2, <3>2, <3>3, <3>4, <3>5, Upserted DEF MemoryHolds
    <3>7. PlainDone' = PlainDone \cup {p}
      BY <1>10, <2>1
    <3>8. \A w \in memory'.plain : \E q \in Puts : q[1] \in PlainSections /\ w = PutAt(q)
      BY <1>2, <2>1, <3>2, <3>3 DEF MemoryHolds, Upsert
    <3> QED BY <1>5, <3>6, <3>7, <3>8 DEF HoldsLast
  <2>2. CASE ~ (section \in PlainSections /\ Yields(file, e))
    <3>1. memory'.plain = memory.plain
      BY <1>1, <1>2, <1>3, <2>2, SectionsAre
         DEF MemoryHolds, MemoryPut, PutFill, PutBuilder, PlainSections
    <3>2. PlainDone' = PlainDone
      BY <1>10, <2>2
    <3> QED BY <1>2, <1>5, <3>1, <3>2 DEF MemoryHolds, HoldsLast
  <2> QED BY <2>1, <2>2
<1>13. memory'.fills = FillsBehind'
  <2>1. CASE section = 3 /\ IsFill(e)
    <3>1. memory' = PutFill(memory, e)
      BY <1>1, <2>1, SectionsAre DEF MemoryPut, Yields
    <3>2. memory'.fills = {f \in memory.fills : Id(f) # Id(e)} \cup {e}
      BY <1>2, <3>1 DEF PutFill, MemoryHolds
    <3>3. \A f \in memory.fills : f \in Dataset /\ IsFill(f)
      BY <1>2, <1>3 DEF MemoryHolds, FillsBehind, Dataset
    <3>4. \A f \in memory.fills : Id(f) = Id(e) => f = e
      BY <1>2, <1>3, <2>1, <3>3, FillsById
    <3> QED BY <1>2, <1>7, <2>1, <3>2, <3>4 DEF MemoryHolds
  <2>2. CASE ~ (section = 3 /\ IsFill(e))
    <3>1. memory'.fills = memory.fills
      BY <1>1, <1>2, <1>3, <2>2, SectionsAre DEF MemoryHolds, MemoryPut, PutBuilder, Yields
    <3> QED BY <1>2, <1>7, <2>2, <3>1 DEF MemoryHolds
  <2> QED BY <2>1, <2>2
<1>14. memory'.builders = BuildersBehind'
  <2>1. CASE section = 6 /\ Yields("builder_rows", e)
    <3>1. memory' = PutBuilder(memory, e) /\ IsFill(e)
      BY <1>1, <2>1, SectionsAre DEF MemoryPut, Yields
    <3>2. memory'.builders = {f \in memory.builders :
             <<f.content.builder, Id(f)>> # <<e.content.builder, Id(e)>>} \cup {e}
      BY <1>2, <3>1 DEF PutBuilder, MemoryHolds
    <3>3. \A f \in memory.builders : f \in Dataset /\ IsFill(f)
      BY <1>2, <1>3 DEF MemoryHolds, BuildersBehind, Dataset, Yields
    <3>4. \A f \in memory.builders : Id(f) = Id(e) => f = e
      BY <1>2, <1>3, <3>1, <3>3, FillsById
    <3> QED BY <1>2, <1>8, <2>1, <3>2, <3>4 DEF MemoryHolds
  <2>2. CASE ~ (section = 6 /\ Yields("builder_rows", e))
    <3>1. memory'.builders = memory.builders
      BY <1>1, <1>2, <1>3, <2>2, SectionsAre DEF MemoryHolds, MemoryPut, PutFill
    <3> QED BY <1>2, <1>8, <2>2, <3>1 DEF MemoryHolds
  <2> QED BY <2>1, <2>2
<1> DEFINE acts == memory.activities
<1>15. /\ memory'.activities \in Seq(Event)
       /\ \A f \in ActiveBehind' : \E i \in 1..Len(memory'.activities) : memory'.activities[i] = f
       /\ \A i \in 1..Len(memory'.activities) : memory'.activities[i] \in ActiveBehind'
       /\ \A i, j \in 1..Len(memory'.activities) :
             memory'.activities[i] = memory'.activities[j] => i = j
  <2>1. CASE (section = 3 /\ IsFill(e)) \/ (section = 7 /\ Yields("activity_rows", e))
    <3>1. memory'.activities = Append(acts, e)
      BY <1>1, <1>2, <2>1, SectionsAre DEF MemoryHolds, MemoryPut, PutFill, Yields
    <3>2. ActiveBehind' = ActiveBehind \cup {e}
      BY <1>9, <2>1
    <3>3. e \notin ActiveBehind
      <4> SUFFICES ASSUME NEW k \in 1..Len(events), events[k] = e, IsActive(k) PROVE FALSE
        BY DEF ActiveBehind
      <4>1. k = pos
        BY <1>2, <1>3, PlaceIsOne DEF ReplayPart
      <4> QED BY <1>6, <2>1, <4>1 DEF IsActive, Yields, IsFill
    <3>4. acts \in Seq(Event) /\ Len(acts) \in Nat
      BY <1>2, LenProperties DEF MemoryHolds
    <3>5. /\ Append(acts, e) \in Seq(Event) /\ Len(Append(acts, e)) = Len(acts) + 1
          /\ \A i \in 1..Len(acts) : Append(acts, e)[i] = acts[i]
          /\ Append(acts, e)[Len(acts) + 1] = e
      BY <1>3, <3>4, AppendProperties
    <3>6. /\ \A f \in ActiveBehind : \E i \in 1..Len(acts) : acts[i] = f
          /\ \A i \in 1..Len(acts) : acts[i] \in ActiveBehind
          /\ \A i, j \in 1..Len(acts) : acts[i] = acts[j] => i = j
      BY <1>2 DEF MemoryHolds
    <3> HIDE DEF acts
    <3>7. \A i \in 1..(Len(acts) + 1) : i \in 1..Len(acts) \/ i = Len(acts) + 1
      BY <3>4
    <3>8. 1..Len(acts) \subseteq 1..(Len(acts) + 1) /\ Len(acts) + 1 \in 1..(Len(acts) + 1)
      BY <3>4
    <3> QED BY <3>1, <3>2, <3>3, <3>5, <3>6, <3>7, <3>8
  <2>2. CASE ~ ((section = 3 /\ IsFill(e)) \/ (section = 7 /\ Yields("activity_rows", e)))
    <3>1. memory'.activities = acts
      BY <1>1, <1>2, <1>3, <2>2, SectionsAre DEF MemoryHolds, MemoryPut, PutBuilder, Yields
    <3>2. ActiveBehind' = ActiveBehind
      BY <1>9, <2>2
    <3> QED BY <1>2, <3>1, <3>2 DEF MemoryHolds
  <2> QED BY <2>1, <2>2
<1> QED BY <1>11, <1>12, <1>13, <1>14, <1>15 DEF MemoryHolds

\* A step that leaves the engine and the done puts as they are keeps what the engine holds.
LEMMA HoldsStays ==
    ASSUME MemoryHolds, UNCHANGED <<events, memory, section, pos>>
    PROVE  MemoryHolds'
<1>1. Puts' = Puts /\ \A p : PutAt(p)' = PutAt(p)
  BY DEF Puts, PutAt
<1>2. \A s, i : Behind(s, i)' <=> Behind(s, i)
  BY DEF Behind
<1>3. PlainDone' = PlainDone
  BY <1>1, <1>2 DEF PlainDone
<1>4. FillsBehind' = FillsBehind /\ BuildersBehind' = BuildersBehind
  BY <1>2 DEF FillsBehind, BuildersBehind
<1>5. ActiveBehind' = ActiveBehind
  BY <1>2 DEF ActiveBehind, IsActive
<1>6. HoldsLast(memory.plain, PlainDone)'
  BY <1>1, <1>3 DEF MemoryHolds, HoldsLast
<1> QED BY <1>1, <1>4, <1>5, <1>6 DEF MemoryHolds

\* Every step of a replay keeps what the memory engine holds.
LEMMA ReplayPartStep ==
    ASSUME UniqueFills, ~ Bench, EnginesInv, ReplayPart, [Next]_vars
    PROVE  ReplayPart'
<1>1. InOrder' /\ EventsPart'
  BY InOrderStep, InvStep DEF ReplayPart, EnginesInv
<1> SUFFICES ASSUME engine' = "memory", pc' # "idle" PROVE MemoryHolds'
  BY <1>1 DEF ReplayPart
<1>2. CASE MemoryStep
  BY <1>2, MemoryStepHolds
<1>3. ASSUME NEW kind \in Loaded, Start(kind) PROVE MemoryHolds'
  <2>1. section' = 1 /\ pos' = 1 /\ memory' = EmptyMemory
    BY <1>3 DEF Start, Goto, EnginesInv, PositionPart, Idle
  <2>2. (EventsPart /\ section = 1 /\ pos = 1 /\ memory = EmptyMemory => MemoryHolds)'
    BY EmptyHolds, PTL
  <2>3. EmptyMemory' = EmptyMemory
    BY DEF EmptyMemory
  <2> QED BY <1>1, <2>1, <2>2, <2>3
<1>4. CASE EndWarmup
  <2>1. Here = <<1, 1, 1>> /\ section' = 1 /\ pos' = 1 /\ UNCHANGED <<events, engine, memory>> /\ pc # "idle"
    BY <1>4 DEF EndWarmup, Goto, EnginesInv, PositionPart
  <2>2. UNCHANGED <<events, memory, section, pos>>
    BY <2>1 DEF Here
  <2> QED BY <2>1, <2>2, HoldsStays DEF ReplayPart
<1>5. CASE EndRows \/ PutCheckpoint
  <2>1. UNCHANGED <<events, memory, engine, section, pos>> /\ pc # "idle"
    BY <1>5 DEF EndRows, PutCheckpoint
  <2> QED BY <2>1, HoldsStays DEF ReplayPart
<1>6. CASE RemovePublished \/ UNCHANGED vars
  <2>1. UNCHANGED <<events, memory, engine, section, pos, pc>>
    BY <1>6 DEF RemovePublished, vars, processVars
  <2> QED BY <2>1, HoldsStays DEF ReplayPart
<1>7. CASE Normalize
  BY <1>7 DEF Normalize, processVars
<1>8. CASE RocksStep \/ PutFails \/ Report \/ Kill
  BY <1>8 DEF RocksStep, PutFails, Report, Kill, End
<1> QED BY <1>2, <1>3, <1>4, <1>5, <1>6, <1>7, <1>8 DEF Next, Step

-----------------------------------------------------------------------------
(* Counting entries and rows. *)

\* A set of entries with one for every row of a set has the size of the set.
LEMMA OneEntryEach ==
    ASSUME NEW rows, IsFiniteSet(rows), NEW entries,
           \A w \in entries : w.row \in rows,
           \A e \in rows : \E w \in entries : w.row = e,
           \A v, w \in entries : v.row = w.row => v = w
    PROVE  Cardinality(entries) = Cardinality(rows)
<1> DEFINE f == [e \in rows |-> CHOOSE w \in entries : w.row = e]
<1>1. \A e \in rows : f[e] \in entries /\ f[e].row = e
  OBVIOUS
<1>2. f \in [rows -> entries]
  BY <1>1
<1> HIDE DEF f
<1>3. f \in Bijection(rows, entries)
  BY <1>1, <1>2 DEF Bijection, Injection, Surjection, IsInjective
<1> QED BY <1>3, FS_Bijection DEF ExistsBijection

\* So has a sequence that names every row of the set once.
LEMMA OneEntryEachInSeq ==
    ASSUME NEW s, NEW S, s \in Seq(S), NEW entries,
           \A w \in entries : \E i \in 1..Len(s) : w.row = s[i],
           \A i \in 1..Len(s) : \E w \in entries : w.row = s[i],
           \A v, w \in entries : v.row = w.row => v = w,
           \A i, j \in 1..Len(s) : s[i] = s[j] => i = j
    PROVE  Cardinality(entries) = Len(s)
<1> DEFINE f == [i \in 1..Len(s) |-> CHOOSE w \in entries : w.row = s[i]]
<1>1. \A i \in 1..Len(s) : f[i] \in entries /\ f[i].row = s[i]
  OBVIOUS
<1>2. f \in [1..Len(s) -> entries]
  BY <1>1
<1> HIDE DEF f
<1>3. f \in Bijection(1..Len(s), entries)
  BY <1>1, <1>2 DEF Bijection, Injection, Surjection, IsInjective
<1> QED BY <1>3, FS_CountingElements, LenProperties DEF ExistsBijection

-----------------------------------------------------------------------------
(* The families of a database that a load has filled. *)

Fills == {e \in Dataset : IsFill(e)}
BuilderEvents == {e \in Dataset : Yields("builder_rows", e)}
ActiveEvents == {e \in Dataset : IsFill(e) \/ Yields("activity_rows", e)}

OwnFamilies == {"fills_by_market", "fills_by_account", "builder", "activity"}

\* Entries of fills, builder rows and activities are never overwritten within a load.
LEMMA PutOnce ==
    ASSUME UniqueFills, EventsPart, InOrder, NEW p \in Puts, NEW q \in Puts,
           PutAt(p).key[1] \in OwnFamilies, PutAt(q).key = PutAt(p).key
    PROVE  q = p
<1> DEFINE e == events[p[2]]
           f == events[q[2]]
<1>1. /\ p \in (1..7) \X (1..Len(events)) \X (1..3)
      /\ q \in (1..7) \X (1..Len(events)) \X (1..3)
      /\ DOMAIN events = 1..Len(events)
  BY PutsTyped, LenProperties DEF EventsPart
<1>2. IsFill(e) /\ IsFill(f) /\ Id(e) = Id(f) => p[2] = q[2]
  BY <1>1 DEF EventsPart, Distinct
<1>3. e.version = f.version /\ e.idx = f.idx => p[2] = q[2]
  BY <1>1, PlaceIsOne
<1>4. p[1] = q[1] /\ p[2] = q[2] /\ p[3] = q[3]
  <2>1. CASE PutAt(p).key[1] = "fills_by_market"
    <3>1. /\ p[1] = 3 /\ p[3] = 1 /\ IsFill(e) /\ PutAt(p) = Entry(MarketKey(e), e)
          /\ q[1] = 3 /\ q[3] = 1 /\ IsFill(f) /\ PutAt(q) = Entry(MarketKey(f), f)
      BY <2>1, FamilyOfPut
    <3>2. Id(e) = Id(f)
      BY <3>1 DEF Entry, MarketKey
    <3> QED BY <1>2, <3>1, <3>2
  <2>2. CASE PutAt(p).key[1] = "fills_by_account"
    <3>1. /\ p[1] = 3 /\ p[3] = 2 /\ IsFill(e) /\ PutAt(p) = Entry(AccountKey(e), e)
          /\ q[1] = 3 /\ q[3] = 2 /\ IsFill(f) /\ PutAt(q) = Entry(AccountKey(f), f)
      BY <2>2, FamilyOfPut
    <3>2. Id(e) = Id(f)
      BY <3>1 DEF Entry, AccountKey
    <3> QED BY <1>2, <3>1, <3>2
  <2>3. CASE PutAt(p).key[1] = "builder"
    <3>1. /\ p[1] = 6 /\ p[3] = 1 /\ IsFill(e) /\ PutAt(p) = Entry(BuilderKey(e), e)
          /\ q[1] = 6 /\ q[3] = 1 /\ IsFill(f) /\ PutAt(q) = Entry(BuilderKey(f), f)
      BY <2>3, FamilyOfPut
    <3>2. Id(e) = Id(f)
      BY <3>1 DEF Entry, BuilderKey
    <3> QED BY <1>2, <3>1, <3>2
  <2>4. CASE PutAt(p).key[1] = "activity"
    <3>1. PutAt(p) = Entry(ActivityKey(e), e) /\ PutAt(q) = Entry(ActivityKey(f), f)
      BY <2>4, FamilyOfPut
    <3>2. e.version = f.version /\ e.idx = f.idx
      BY <3>1 DEF Entry, ActivityKey
    <3>3. p[2] = q[2]
      BY <1>3, <3>2
    <3> QED BY <2>4, <3>3, FamilyOfPut
  <2> QED BY <2>1, <2>2, <2>3, <2>4 DEF OwnFamilies
<1> QED BY <1>1, <1>4

\* What a whole load leaves in one column family.
LEMMA FreshOfFamily ==
    ASSUME UniqueFills, EventsPart, InOrder, NEW family \in OwnFamilies
    PROVE  {w \in Fresh : w.key[1] = family} =
             {w \in {PutAt(p) : p \in Puts} : w.key[1] = family}
<1>1. ASSUME NEW p \in Puts, PutAt(p).key[1] = family PROVE PutAt(p) \in Fresh
  <2>1. \A q \in Puts : Earlier(p, q) => PutAt(q).key # PutAt(p).key
    <3>1. ~ Earlier(p, p)
      BY PutsTyped DEF Earlier
    <3> QED BY <1>1, <3>1, PutOnce
  <2> QED BY <2>1 DEF Fresh, LastOf
<1>2. Fresh \subseteq {PutAt(p) : p \in Puts}
  BY DEF Fresh, LastOf
<1> QED BY <1>1, <1>2

\* What the families of fills, builder rows and activities hold.
LEMMA FreshRows ==
    ASSUME UniqueFills, EventsPart, InOrder
    PROVE  /\ {w \in Fresh : w.key[1] = "fills_by_market"} = {Entry(MarketKey(e), e) : e \in Fills}
           /\ {w \in Fresh : w.key[1] = "fills_by_account"} = {Entry(AccountKey(e), e) : e \in Fills}
           /\ {w \in Fresh : w.key[1] = "builder"} = {Entry(BuilderKey(e), e) : e \in BuilderEvents}
           /\ {w \in Fresh : w.key[1] = "activity"} = {Entry(ActivityKey(e), e) : e \in ActiveEvents}
<1> DEFINE All == {PutAt(p) : p \in Puts}
<1>1. \A family \in OwnFamilies :
        {w \in Fresh : w.key[1] = family} = {w \in All : w.key[1] = family}
  BY FreshOfFamily
<1>2. DOMAIN events = 1..Len(events)
  BY LenProperties DEF EventsPart
<1>3. ASSUME NEW p \in Puts
      PROVE  /\ PutAt(p).key[1] = "fills_by_market" => \E e \in Fills : PutAt(p) = Entry(MarketKey(e), e)
             /\ PutAt(p).key[1] = "fills_by_account" => \E e \in Fills : PutAt(p) = Entry(AccountKey(e), e)
             /\ PutAt(p).key[1] = "builder" => \E e \in BuilderEvents : PutAt(p) = Entry(BuilderKey(e), e)
             /\ PutAt(p).key[1] = "activity" => \E e \in ActiveEvents : PutAt(p) = Entry(ActivityKey(e), e)
  <2> DEFINE e == events[p[2]]
  <2>1. e \in Dataset
    BY RowOfPut
  <2>2. /\ PutAt(p).key[1] = "fills_by_market" => IsFill(e) /\ PutAt(p) = Entry(MarketKey(e), e)
        /\ PutAt(p).key[1] = "fills_by_account" => IsFill(e) /\ PutAt(p) = Entry(AccountKey(e), e)
    BY FamilyOfPut
  <2>3. PutAt(p).key[1] = "builder" => Yields("builder_rows", e) /\ PutAt(p) = Entry(BuilderKey(e), e)
    BY FamilyOfPut, SectionsAre
  <2>4. PutAt(p).key[1] = "activity" =>
          (IsFill(e) \/ Yields("activity_rows", e)) /\ PutAt(p) = Entry(ActivityKey(e), e)
    BY FamilyOfPut, SectionsAre
  <2> QED BY <2>1, <2>2, <2>3, <2>4 DEF Fills, BuilderEvents, ActiveEvents
<1>4. ASSUME NEW i \in 1..Len(events)
      PROVE  /\ IsFill(events[i]) =>
                  /\ Entry(MarketKey(events[i]), events[i]) \in All
                  /\ Entry(AccountKey(events[i]), events[i]) \in All
                  /\ Entry(ActivityKey(events[i]), events[i]) \in All
             /\ Yields("builder_rows", events[i]) => Entry(BuilderKey(events[i]), events[i]) \in All
             /\ Yields("activity_rows", events[i]) => Entry(ActivityKey(events[i]), events[i]) \in All
  <2> DEFINE e == events[i]
  <2>1. ASSUME IsFill(e), NEW k \in 1..3 PROVE FillWrites(e)[k] \in All
    <3>1. Writes("fills", e) = FillWrites(e)
      BY <2>1 DEF Writes, Yields
    <3>2. <<3, i, k>> \in Puts /\ PutAt(<<3, i, k>>) = FillWrites(e)[k]
      BY <3>1, SectionsAre DEF Puts, PutAt, FillWrites
    <3> QED BY <3>2
  <2>2. ASSUME Yields("builder_rows", e) PROVE Entry(BuilderKey(e), e) \in All
    <3>1. <<6, i, 1>> \in Puts /\ PutAt(<<6, i, 1>>) = Entry(BuilderKey(e), e)
      BY <2>2, SectionsAre DEF Puts, PutAt, Writes
    <3> QED BY <3>1
  <2>3. ASSUME Yields("activity_rows", e) PROVE Entry(ActivityKey(e), e) \in All
    <3>1. <<7, i, 1>> \in Puts /\ PutAt(<<7, i, 1>>) = Entry(ActivityKey(e), e)
      BY <2>3, SectionsAre DEF Puts, PutAt, Writes
    <3> QED BY <3>1
  <2>4. /\ FillWrites(e)[1] = Entry(MarketKey(e), e)
        /\ FillWrites(e)[2] = Entry(AccountKey(e), e)
        /\ FillWrites(e)[3] = Entry(ActivityKey(e), e)
    BY DEF FillWrites
  <2> QED BY <2>1, <2>2, <2>3, <2>4
<1>5. /\ \A e : Entry(MarketKey(e), e).key[1] = "fills_by_market"
      /\ \A e : Entry(AccountKey(e), e).key[1] = "fills_by_account"
      /\ \A e : Entry(BuilderKey(e), e).key[1] = "builder"
      /\ \A e : Entry(ActivityKey(e), e).key[1] = "activity"
  BY DEF Entry, MarketKey, AccountKey, BuilderKey, ActivityKey
<1>6. {w \in All : w.key[1] = "fills_by_market"} = {Entry(MarketKey(e), e) : e \in Fills}
  BY <1>2, <1>3, <1>4, <1>5 DEF Fills, Dataset
<1>7. {w \in All : w.key[1] = "fills_by_account"} = {Entry(AccountKey(e), e) : e \in Fills}
  BY <1>2, <1>3, <1>4, <1>5 DEF Fills, Dataset
<1>8. {w \in All : w.key[1] = "builder"} = {Entry(BuilderKey(e), e) : e \in BuilderEvents}
  BY <1>2, <1>3, <1>4, <1>5 DEF BuilderEvents, Dataset
<1>9. {w \in All : w.key[1] = "activity"} = {Entry(ActivityKey(e), e) : e \in ActiveEvents}
  BY <1>2, <1>3, <1>4, <1>5 DEF ActiveEvents, Dataset
<1> QED BY <1>1, <1>6, <1>7, <1>8, <1>9 DEF OwnFamilies

\* The other families of a whole load are those of the memory engine's tables.
LEMMA PlainAgree ==
    ASSUME EnginesInv, MemoryHolds, Whole, NEW family \in {"tx", "event", "order", "position"}
    PROVE  {w \in memory.plain : w.key[1] = family} = {w \in Fresh : w.key[1] = family}
<1>1. \A p \in Puts : p \in (1..7) \X (1..Len(events)) \X (1..3)
  BY PutsTyped DEF EnginesInv
<1>2. \A p \in Puts : p[1] \in PlainSections => p \in PlainDone
  <2>1. section > 7
    BY SectionsAre DEF EnginesInv, PositionPart, Whole
  <2> QED BY <1>1, <2>1 DEF PlainDone, Behind, EnginesInv, PositionPart
<1>3. ASSUME NEW p \in Puts, PutAt(p).key[1] = family PROVE p[1] \in PlainSections
  <2> DEFINE e == events[p[2]]
             file == Sections[p[1]]
  <2>1. PutAt(p) = Writes(file, e)[p[3]] /\ p[3] \in 1..Len(Writes(file, e))
    BY <1>1 DEF Puts, PutAt
  <2>2. file \notin {"fills", "builder_rows", "activity_rows"}
    <3>1. /\ Entry(MarketKey(e), e).key[1] = "fills_by_market"
          /\ Entry(AccountKey(e), e).key[1] = "fills_by_account"
          /\ Entry(BuilderKey(e), e).key[1] = "builder"
          /\ Entry(ActivityKey(e), e).key[1] = "activity"
      BY DEF Entry, MarketKey, AccountKey, BuilderKey, ActivityKey
    <3> HIDE DEF e, file
    <3> QED BY <1>3, <2>1, <3>1, WritesAre
  <2> QED BY <1>1, <2>2, SectionsAre DEF PlainSections
<1>4. ASSUME NEW w \in memory.plain, w.key[1] = family PROVE w \in Fresh
  <2>1. PICK p \in Puts : p[1] \in PlainSections /\ w = PutAt(p)
    BY DEF MemoryHolds
  <2>2. PICK q \in PlainDone :
          w = PutAt(q) /\ \A r \in PlainDone : Earlier(q, r) => PutAt(r).key # w.key
    BY <1>2, <2>1 DEF MemoryHolds, HoldsLast
  <2>3. q \in Puts
    BY DEF PlainDone
  <2>4. \A r \in Puts : Earlier(q, r) => PutAt(r).key # w.key
    BY <1>2, <1>3, <1>4, <2>2
  <2> QED BY <2>2, <2>3, <2>4 DEF Fresh, LastOf
<1>5. ASSUME NEW w \in Fresh, w.key[1] = family PROVE w \in memory.plain
  <2>1. PICK p \in Puts :
          w = PutAt(p) /\ ~ \E q \in Puts : Earlier(p, q) /\ PutAt(q).key = PutAt(p).key
    BY DEF Fresh, LastOf
  <2>2. p \in PlainDone
    BY <1>2, <1>3, <1>5, <2>1
  <2>3. PICK v \in memory.plain : v.key = w.key
    BY <2>1, <2>2 DEF MemoryHolds, HoldsLast
  <2>4. PICK q \in PlainDone :
          v = PutAt(q) /\ \A r \in PlainDone : Earlier(q, r) => PutAt(r).key # v.key
    BY <2>1, <2>2, <2>3 DEF MemoryHolds, HoldsLast
  <2>5. q \in Puts /\ ~ Earlier(q, p) /\ ~ Earlier(p, q)
    BY <2>1, <2>2, <2>3, <2>4 DEF PlainDone
  <2>6. p = q
    BY <2>5, LastIsOne DEF EnginesInv
  <2> QED BY <2>1, <2>4, <2>6
<1> QED BY <1>4, <1>5

\* A dataset is finite.
LEMMA DatasetIsFinite == ASSUME EventsPart PROVE IsFiniteSet(Dataset)
<1> DEFINE f == [i \in 1..Len(events) |-> events[i]]
<1>1. DOMAIN events = 1..Len(events) /\ Len(events) \in Nat
  BY LenProperties DEF EventsPart
<1>2. f \in Surjection(1..Len(events), Dataset)
  BY <1>1 DEF Surjection, Dataset
<1> HIDE DEF f
<1> QED BY <1>1, <1>2, FS_Surjection, FS_Interval

\* The tables of a memory engine that holds all rows.
LEMMA WholeTables ==
    ASSUME EnginesInv, MemoryHolds, Whole
    PROVE  /\ memory.fills = Fills
           /\ memory.builders = BuilderEvents
           /\ ActiveBehind = ActiveEvents
<1>1. DOMAIN events = 1..Len(events)
  BY LenProperties DEF EnginesInv, EventsPart
<1>2. \A s \in 1..7, i \in 1..Len(events) : Behind(s, i)
  BY SectionsAre DEF EnginesInv, PositionPart, Whole, Behind
<1>3. memory.fills = Fills /\ memory.builders = BuilderEvents
  BY <1>1, <1>2 DEF MemoryHolds, FillsBehind, BuildersBehind, Fills, BuilderEvents, Dataset
<1>4. ActiveBehind = ActiveEvents
  BY <1>1, <1>2 DEF ActiveBehind, IsActive, ActiveEvents, Dataset
<1> QED BY <1>3, <1>4

\* The memory engine that holds all rows has the checksums of the database.
LEMMA HeldChecksums == ASSUME UniqueFills, EnginesInv, ReplayPart PROVE SameChecksums
<1> SUFFICES ASSUME pc = "report", engine = "memory", section > Len(Sections),
                    NEW family \in Families
             PROVE  MemoryChecksum(memory, family) = RocksChecksum(Fresh, family)
  BY DEF SameChecksums
<1>1. EventsPart /\ InOrder /\ MemoryHolds /\ Whole
  BY DEF EnginesInv, ReplayPart, Whole
<1>2. DOMAIN events = 1..Len(events) /\ Len(events) \in Nat
  BY <1>1, LenProperties DEF EventsPart
<1>3. memory.fills = Fills /\ memory.builders = BuilderEvents /\ ActiveBehind = ActiveEvents
  BY <1>1, WholeTables
<1>4. memory.fills = Fills /\ memory.builders = BuilderEvents
  BY <1>3
<1>5. ActiveBehind = ActiveEvents
  BY <1>3
<1>6. IsFiniteSet(Dataset)
  BY <1>1, DatasetIsFinite
<1>7. IsFiniteSet(Fills) /\ IsFiniteSet(BuilderEvents)
  BY <1>6, FS_Subset DEF Fills, BuilderEvents
<1>8. \A k, e : Entry(k, e).row = e
  BY DEF Entry
<1>9. CASE family = "fills_by_market"
  <2> DEFINE those == {Entry(MarketKey(e), e) : e \in Fills}
  <2>1. Cardinality(those) = Cardinality(Fills)
    <3>1. /\ \A w \in those : w.row \in Fills
          /\ \A e \in Fills : \E w \in those : w.row = e
          /\ \A v, w \in those : v.row = w.row => v = w
      BY <1>8
    <3> HIDE DEF those
    <3> QED BY <1>7, <3>1, OneEntryEach
  <2> QED BY <1>1, <1>4, <1>9, <2>1, FreshRows DEF MemoryChecksum, RocksChecksum
<1>10. CASE family = "fills_by_account"
  <2> DEFINE those == {Entry(AccountKey(e), e) : e \in Fills}
  <2>1. Cardinality(those) = Cardinality(Fills)
    <3>1. /\ \A w \in those : w.row \in Fills
          /\ \A e \in Fills : \E w \in those : w.row = e
          /\ \A v, w \in those : v.row = w.row => v = w
      BY <1>8
    <3> HIDE DEF those
    <3> QED BY <1>7, <3>1, OneEntryEach
  <2> QED BY <1>1, <1>4, <1>10, <2>1, FreshRows DEF MemoryChecksum, RocksChecksum
<1>11. CASE family = "builder"
  <2> DEFINE those == {Entry(BuilderKey(e), e) : e \in BuilderEvents}
  <2>1. Cardinality(those) = Cardinality(BuilderEvents)
    <3>1. /\ \A w \in those : w.row \in BuilderEvents
          /\ \A e \in BuilderEvents : \E w \in those : w.row = e
          /\ \A v, w \in those : v.row = w.row => v = w
      BY <1>8
    <3> HIDE DEF those
    <3> QED BY <1>7, <3>1, OneEntryEach
  <2> QED BY <1>1, <1>4, <1>11, <2>1, FreshRows DEF MemoryChecksum, RocksChecksum
<1>12. CASE family = "activity"
  <2> DEFINE acts == memory.activities
             those == {Entry(ActivityKey(e), e) : e \in ActiveEvents}
  <2>1. /\ acts \in Seq(Event) /\ DOMAIN acts = 1..Len(acts)
        /\ \A e \in ActiveEvents : \E i \in 1..Len(acts) : acts[i] = e
        /\ \A i \in 1..Len(acts) : acts[i] \in ActiveEvents
        /\ \A i, j \in 1..Len(acts) : acts[i] = acts[j] => i = j
    BY <1>1, <1>5, LenProperties DEF MemoryHolds
  <2>2. {Entry(ActivityKey(acts[i]), acts[i]) : i \in DOMAIN acts} = those
    BY <2>1
  <2>3. Cardinality(those) = Len(acts)
    <3>1. /\ \A w \in those : \E i \in 1..Len(acts) : w.row = acts[i]
          /\ \A i \in 1..Len(acts) : \E w \in those : w.row = acts[i]
          /\ \A v, w \in those : v.row = w.row => v = w
      <4>1. \A w \in those : \E e \in ActiveEvents : w.row = e /\ w = Entry(ActivityKey(e), e)
        BY <1>8
      <4>2. \A e \in ActiveEvents : \E w \in those : w.row = e
        BY <1>8
      <4> HIDE DEF those, acts
      <4> QED BY SMTT(30), <2>1, <4>1, <4>2
    <3> HIDE DEF those, acts
    <3> QED BY <2>1, <3>1, OneEntryEachInSeq
  <2>4. {w \in Fresh : w.key[1] = "activity"} = those
    BY <1>1, FreshRows
  <2> HIDE DEF those
  <2> QED BY <1>12, <2>2, <2>3, <2>4 DEF MemoryChecksum, RocksChecksum
<1>13. CASE family \in {"tx", "event", "order", "position"}
  BY <1>1, <1>13, PlainAgree DEF MemoryChecksum, RocksChecksum
<1> QED BY <1>9, <1>10, <1>11, <1>12, <1>13 DEF Families

\* After a replay of a whole dataset in which fills have ids of their own, the memory
\* engine has the checksums, entries and counts, of a database loaded from it, in every
\* family: the overwritten rows, the fills it keeps by id and the activities it pushes.
THEOREM ChecksumsCorrect ==
    ASSUME UniqueFills, ~ Bench
    PROVE  Spec => []SameChecksums
<1>1. Init => ReplayPart
  BY EmptySeq DEF Init, Idle, ReplayPart, InOrder
<1>2. EnginesInv /\ ReplayPart /\ [Next]_vars => ReplayPart'
  BY ReplayPartStep
<1> QED BY <1>1, <1>2, HeldChecksums, EnginesInvariance, PTL DEF Spec

-----------------------------------------------------------------------------
(* Sorted rows. *)

\* A set of naturals has a least one.
LEMMA Least ==
    ASSUME NEW S \in SUBSET Nat, S # {}
    PROVE  \E n \in S : \A m \in S : n <= m
<1> DEFINE R == {r \in Nat \X Nat : r[1] < r[2]}
<1>1. IsWellFoundedOn(R, Nat)
  BY NatLessThanWellFounded DEF OpToRel
<1>2. \A m, n \in Nat : <<m, n>> \notin R => n <= m
  OBVIOUS
<1> HIDE DEF R
<1>3. PICK n \in S : \A m \in S : ~ (<<m, n>> \in R)
  BY <1>1, WFMin, Zenon
<1>4. \A m \in S : n <= m
  BY <1>2, <1>3
<1> QED BY <1>4

\* No rank comes before itself, and of two ranks one comes before the other.
LEMMA BeforeIsTotal ==
    ASSUME NEW a \in Seq(Int), NEW b \in Seq(Int)
    PROVE  /\ ~ Before(a, a)
           /\ ~ (Before(a, b) /\ Before(b, a))
           /\ a # b => Before(a, b) \/ Before(b, a)
<1>1. /\ Len(a) \in Nat /\ DOMAIN a = 1..Len(a) /\ \A i \in 1..Len(a) : a[i] \in Int
      /\ Len(b) \in Nat /\ DOMAIN b = 1..Len(b) /\ \A i \in 1..Len(b) : b[i] \in Int
  BY LenProperties, ElementOfSeq
<1>2. ~ Before(a, a)
  BY <1>1 DEF Before
<1>3. ASSUME Before(a, b), Before(b, a) PROVE FALSE
  <2>1. PICK i \in 1..Len(b) : /\ \A j \in 1..(i - 1) : j \in 1..Len(a) /\ a[j] = b[j]
                               /\ i \in 1..Len(a) => a[i] < b[i]
    BY <1>1, <1>3 DEF Before
  <2>2. PICK k \in 1..Len(a) : /\ \A j \in 1..(k - 1) : j \in 1..Len(b) /\ b[j] = a[j]
                               /\ k \in 1..Len(b) => b[k] < a[k]
    BY <1>1, <1>3 DEF Before
  <2>3. CASE i < k
    <3>1. i \in 1..(k - 1)
      BY <1>1, <2>3
    <3>2. i \in 1..Len(a) /\ a[i] = b[i] /\ a[i] \in Int
      BY <1>1, <2>2, <3>1
    <3> QED BY <2>1, <3>2
  <2>4. CASE k < i
    <3>1. k \in 1..(i - 1)
      BY <1>1, <2>4
    <3>2. k \in 1..Len(b) /\ a[k] = b[k] /\ b[k] \in Int
      BY <1>1, <2>1, <3>1
    <3> QED BY <2>2, <3>2
  <2>5. CASE i = k
    <3>1. a[i] < b[i] /\ b[i] < a[i] /\ a[i] \in Int /\ b[i] \in Int
      BY <1>1, <2>1, <2>2, <2>5
    <3> QED BY <3>1
  <2> QED BY <1>1, <2>3, <2>4, <2>5
<1>4. ASSUME a # b PROVE Before(a, b) \/ Before(b, a)
  <2> DEFINE apart == {i \in Nat \ {0} : \/ i \notin 1..Len(a) \/ i \notin 1..Len(b)
                                         \/ a[i] # b[i]}
  <2>1. CASE Len(a) = Len(b) /\ \A i \in 1..Len(a) : a[i] = b[i]
    BY <1>4, <2>1, SeqEqual
  <2>2. CASE ~ (Len(a) = Len(b) /\ \A i \in 1..Len(a) : a[i] = b[i])
    <3>1. \E i \in 1..Len(a) \cup 1..Len(b) : i \in apart
      <4>1. CASE Len(a) < Len(b)
        <5>1. Len(b) \in 1..Len(b) /\ Len(b) \in Nat \ {0} /\ Len(b) \notin 1..Len(a)
          BY <1>1, <4>1
        <5> QED BY <5>1
      <4>2. CASE Len(b) < Len(a)
        <5>1. Len(a) \in 1..Len(a) /\ Len(a) \in Nat \ {0} /\ Len(a) \notin 1..Len(b)
          BY <1>1, <4>2
        <5> QED BY <5>1
      <4>3. CASE Len(a) = Len(b)
        <5>1. PICK i \in 1..Len(a) : a[i] # b[i]
          BY <2>2, <4>3
        <5>2. i \in Nat \ {0}
          BY <1>1
        <5>3. i \in apart
          BY <5>1, <5>2
        <5> QED BY <5>3
      <4>4. Len(a) < Len(b) \/ Len(b) < Len(a) \/ Len(a) = Len(b)
        <5>1. Len(a) \in Nat /\ Len(b) \in Nat
          BY <1>1
        <5> QED BY <5>1
      <4> QED BY <4>1, <4>2, <4>3, <4>4
    <3>2. apart \in SUBSET Nat /\ apart # {}
      BY <3>1
    <3>3. PICK i \in apart : \A k \in apart : i <= k
      <4> HIDE DEF apart
      <4> QED BY <3>2, Least
    <3>4. i \in 1..Len(a) \cup 1..Len(b)
      <4>1. PICK k \in 1..Len(a) \cup 1..Len(b) : k \in apart
        BY <3>1
      <4>2. i <= k /\ i \in Nat \ {0}
        BY <3>3, <4>1
      <4> QED BY <1>1, <4>1, <4>2
    <3>5. ASSUME NEW j \in 1..(i - 1)
          PROVE  j \in 1..Len(a) /\ j \in 1..Len(b) /\ a[j] = b[j]
      <4>1. j \in Nat \ {0} /\ ~ (i <= j) /\ i \in Nat
        BY <3>3
      <4>2. j \notin apart
        BY <3>3, <4>1
      <4> QED BY <4>1, <4>2
    <3>6. \/ i \notin 1..Len(a) \/ i \notin 1..Len(b) \/ a[i] # b[i]
      BY <3>3
    <3> HIDE DEF apart
    <3>7. CASE i \notin 1..Len(a)
      BY <1>1, <3>4, <3>5, <3>7 DEF Before
    <3>8. CASE i \notin 1..Len(b)
      BY <1>1, <3>4, <3>5, <3>8 DEF Before
    <3>9. CASE i \in 1..Len(a) /\ i \in 1..Len(b)
      <4>1. a[i] \in Int /\ b[i] \in Int /\ a[i] # b[i]
        BY <1>1, <3>6, <3>9
      <4>2. a[i] < b[i] \/ b[i] < a[i]
        BY <4>1
      <4> QED BY <1>1, <3>5, <3>9, <4>2 DEF Before
    <3> QED BY <3>7, <3>8, <3>9
  <2> QED BY <2>1, <2>2
<1> QED BY <1>2, <1>3, <1>4

\* What comes before a rank comes before what that rank comes before.
LEMMA BeforeGoesOn ==
    ASSUME NEW a \in Seq(Int), NEW b \in Seq(Int), NEW c \in Seq(Int),
           Before(a, b), Before(b, c)
    PROVE  Before(a, c)
<1>1. /\ Len(a) \in Nat /\ DOMAIN a = 1..Len(a) /\ \A i \in 1..Len(a) : a[i] \in Int
      /\ Len(b) \in Nat /\ DOMAIN b = 1..Len(b) /\ \A i \in 1..Len(b) : b[i] \in Int
      /\ Len(c) \in Nat /\ DOMAIN c = 1..Len(c) /\ \A i \in 1..Len(c) : c[i] \in Int
  BY LenProperties, ElementOfSeq
<1>2. PICK i \in 1..Len(b) : /\ \A j \in 1..(i - 1) : j \in 1..Len(a) /\ a[j] = b[j]
                             /\ i \in 1..Len(a) => a[i] < b[i]
  BY <1>1 DEF Before
<1>3. PICK k \in 1..Len(c) : /\ \A j \in 1..(k - 1) : j \in 1..Len(b) /\ b[j] = c[j]
                             /\ k \in 1..Len(b) => b[k] < c[k]
  BY <1>1 DEF Before
<1>4. CASE i < k
  <2>1. i \in 1..(k - 1) /\ i \in 1..Len(c) /\ 1..(i - 1) \subseteq 1..(k - 1)
    BY <1>1, <1>4
  <2>2. \A j \in 1..(i - 1) : j \in 1..Len(a) /\ a[j] = c[j]
    BY <1>2, <1>3, <2>1
  <2>3. i \in 1..Len(a) => a[i] < c[i]
    BY <1>2, <1>3, <2>1
  <2> QED BY <1>1, <2>1, <2>2, <2>3 DEF Before
<1>5. CASE k < i
  <2>1. k \in 1..(i - 1) /\ k \in 1..Len(b) /\ 1..(k - 1) \subseteq 1..(i - 1)
    BY <1>1, <1>5
  <2>2. \A j \in 1..(k - 1) : j \in 1..Len(a) /\ a[j] = c[j]
    BY <1>2, <1>3, <2>1
  <2>3. k \in 1..Len(a) => a[k] < c[k]
    BY <1>2, <1>3, <2>1
  <2> QED BY <1>1, <2>2, <2>3 DEF Before
<1>6. CASE i = k
  <2>1. i \in 1..Len(a) => a[i] < b[i] /\ b[i] < c[i] /\ a[i] \in Int /\ b[i] \in Int /\ c[i] \in Int
    BY <1>1, <1>2, <1>3, <1>6
  <2>2. \A j \in 1..(k - 1) : j \in 1..Len(a) /\ a[j] = c[j]
    BY <1>2, <1>3, <1>6
  <2>3. k \in 1..Len(a) => a[k] < c[k]
    BY <1>6, <2>1
  <2> QED BY <1>1, <2>2, <2>3 DEF Before
<1> QED BY <1>1, <1>4, <1>5, <1>6

\* A rank that comes before another of its length does so however the two go on.
LEMMA BeforeFromStart ==
    ASSUME NEW a \in Seq(Int), NEW b \in Seq(Int), NEW x \in Seq(Int), NEW y \in Seq(Int),
           Len(a) = Len(b), Len(a) <= Len(x), Len(a) <= Len(y),
           \A i \in 1..Len(a) : x[i] = a[i] /\ y[i] = b[i],
           Before(a, b)
    PROVE  Before(x, y)
<1>1. /\ Len(a) \in Nat /\ Len(x) \in Nat /\ Len(y) \in Nat
      /\ DOMAIN a = 1..Len(a) /\ DOMAIN b = 1..Len(a)
      /\ DOMAIN x = 1..Len(x) /\ DOMAIN y = 1..Len(y)
  BY LenProperties
<1>2. PICK i \in 1..Len(a) : /\ \A j \in 1..(i - 1) : a[j] = b[j]
                             /\ a[i] < b[i]
  BY <1>1 DEF Before
<1>3. /\ i \in 1..Len(y) /\ i \in 1..Len(x) /\ x[i] < y[i]
      /\ \A j \in 1..(i - 1) : j \in 1..Len(x) /\ x[j] = y[j]
  <2>0. /\ Len(a) \in Nat /\ Len(x) \in Nat /\ Len(y) \in Nat
        /\ Len(a) <= Len(x) /\ Len(a) <= Len(y)
    BY <1>1
  <2>1. i \in 1..Len(y) /\ i \in 1..Len(x) /\ 1..(i - 1) \subseteq 1..Len(a)
    <3>1. \A k, m, n \in Nat : k <= m /\ k <= n =>
            \A h \in 1..k : h \in 1..m /\ h \in 1..n /\ 1..(h - 1) \subseteq 1..k
      OBVIOUS
    <3> QED BY <2>0, <3>1
  <2>2. x[i] < y[i]
    BY <1>2
  <2>3. ASSUME NEW j \in 1..(i - 1) PROVE j \in 1..Len(x) /\ x[j] = y[j]
    <3>1. j \in 1..Len(a)
      BY <2>1
    <3> QED BY <1>1, <1>2, <3>1
  <2> QED BY <2>1, <2>2, <2>3
<1> QED BY <1>1, <1>3 DEF Before

\* What is appended to ranks of one length tells them apart.
LEMMA TailsAgree ==
    ASSUME NEW a \in Seq(Int), NEW b \in Seq(Int), NEW c \in Seq(Int), NEW d \in Seq(Int),
           Len(a) = Len(b), a \o c = b \o d
    PROVE  c = d
<1>1. /\ Len(a) \in Nat /\ Len(c) \in Nat /\ Len(d) \in Nat
      /\ Len(a \o c) = Len(a) + Len(c)
      /\ \A k \in 1..(Len(a) + Len(c)) : (a \o c)[k] = IF k <= Len(a) THEN a[k] ELSE c[k - Len(a)]
  BY LenProperties, ConcatProperties
<1>2. /\ Len(b \o d) = Len(a) + Len(d)
      /\ \A k \in 1..(Len(a) + Len(d)) : (b \o d)[k] = IF k <= Len(a) THEN b[k] ELSE d[k - Len(a)]
  BY ConcatProperties
<1>3. Len(c) = Len(d)
  BY <1>1, <1>2
<1>4. ASSUME NEW i \in 1..Len(c) PROVE c[i] = d[i]
  <2>1. Len(a) + i \in 1..(Len(a) + Len(c)) /\ ~ (Len(a) + i <= Len(a)) /\ (Len(a) + i) - Len(a) = i
    BY <1>1
  <2>2. (a \o c)[Len(a) + i] = c[i]
    BY <1>1, <2>1
  <2>3. (b \o d)[Len(a) + i] = d[i]
    BY <1>2, <1>3, <2>1
  <2> QED BY <2>2, <2>3
<1> QED BY <1>3, <1>4, SeqEqual

\* Ranks that tell the members of a set apart.
Ranks(rank, D) ==
    /\ rank \in [D -> Seq(Int)]
    /\ \A c, d \in D : rank[c] = rank[d] => c = d

\* Sorting a finite set by ranks that tell its members apart yields each of them once, and
\* each before those of the ranks that come after its own.
LEMMA SortedIs ==
    ASSUME NEW D, IsFiniteSet(D), NEW rank, Ranks(rank, D)
    PROVE  /\ Cardinality(D) \in Nat
           /\ Sorted(rank) \in [1..Cardinality(D) -> D]
           /\ \A d \in D : \E i \in 1..Cardinality(D) : Sorted(rank)[i] = d
           /\ \A i, j \in 1..Cardinality(D) :
                 i < j => Before(rank[Sorted(rank)[i]], rank[Sorted(rank)[j]])
           /\ \A i, j \in 1..Cardinality(D) : Sorted(rank)[i] = Sorted(rank)[j] => i = j
<1> DEFINE n == Cardinality(D)
           before(d) == {c \in D : Before(rank[c], rank[d])}
           place == [d \in D |-> Cardinality(before(d))]
<1>1. n \in Nat /\ DOMAIN rank = D /\ \A d \in D : rank[d] \in Seq(Int)
  BY FS_CardinalityType DEF Ranks
<1>2. \A d \in D : before(d) \in SUBSET D /\ d \notin before(d)
  BY <1>1, BeforeIsTotal
<1>3. \A d \in D : IsFiniteSet(before(d)) /\ Cardinality(before(d)) \in Nat
  BY <1>2, FS_Subset, FS_CardinalityType
<1>4. ASSUME NEW c \in D, NEW d \in D, Before(rank[c], rank[d]) PROVE place[c] < place[d]
  <2>1. before(c) \subseteq before(d)
    BY <1>1, <1>4, BeforeGoesOn
  <2>2. c \in before(d) /\ c \notin before(c)
    BY <1>2, <1>4
  <2> HIDE DEF before
  <2>3. /\ Cardinality(before(c)) <= Cardinality(before(d))
        /\ Cardinality(before(d)) = Cardinality(before(c)) => before(d) = before(c)
    BY <1>3, <2>1, FS_Subset
  <2>4. Cardinality(before(c)) \in Nat /\ Cardinality(before(d)) \in Nat
    BY <1>3
  <2> QED BY <2>2, <2>3, <2>4
<1>5. \A c, d \in D : c # d => place[c] < place[d] \/ place[d] < place[c]
  <2> HIDE DEF place
  <2> QED BY <1>1, <1>4, BeforeIsTotal DEF Ranks
<1>6. \A d \in D : place[d] \in 0..(n - 1)
  <2> SUFFICES ASSUME NEW d \in D PROVE place[d] \in 0..(n - 1)
    OBVIOUS
  <2>1. before(d) \in SUBSET D /\ before(d) # D
    BY <1>2
  <2>2. Cardinality(before(d)) <= n /\ Cardinality(before(d)) # n
    <3> HIDE DEF before
    <3> QED BY <2>1, FS_Subset
  <2>3. Cardinality(before(d)) \in Nat
    BY <1>3
  <2> HIDE DEF before
  <2> QED BY <1>1, <2>2, <2>3
<1>7. \A k \in 0..(n - 1) : \E d \in D : place[d] = k
  <2>1. place \in [D -> 0..(n - 1)] /\ \A c, d \in D : place[c] = place[d] => c = d
    <3>1. \A d \in D : place[d] \in Nat
      BY <1>3
    <3>2. place = [d \in D |-> place[d]]
      OBVIOUS
    <3> HIDE DEF place
    <3> QED BY <1>5, <1>6, <3>1, <3>2
  <2> HIDE DEF place
  <2>2. place \in Injection(D, 0..(n - 1))
    BY <2>1 DEF Injection, IsInjective
  <2>3. IsFiniteSet(0..(n - 1)) /\ Cardinality(0..(n - 1)) = n
    <3> HIDE DEF n
    <3>0. 0 \in Int /\ n - 1 \in Int
      BY <1>1
    <3>1. IsFiniteSet(0..(n - 1)) /\ Cardinality(0..(n - 1)) = IF 0 > n - 1 THEN 0 ELSE (n - 1) - 0 + 1
      BY <3>0, FS_Interval
    <3> QED BY <1>1, <3>1
  <2>4. place \in Surjection(D, 0..(n - 1))
    BY <2>2, <2>3, FS_Injection
  <2> QED BY <2>4 DEF Surjection
<1> DEFINE sorted == [i \in 1..n |-> CHOOSE d \in D : Cardinality(before(d)) = i - 1]
<1>8. Sorted(rank) = sorted
  BY <1>1 DEF Sorted
<1>9. \A i \in 1..n : sorted[i] \in D /\ place[sorted[i]] = i - 1
  <2> SUFFICES ASSUME NEW i \in 1..n
               PROVE  sorted[i] \in D /\ Cardinality(before(sorted[i])) = i - 1
    OBVIOUS
  <2>1. i - 1 \in 0..(n - 1)
    BY <1>1
  <2>2. \E d \in D : Cardinality(before(d)) = i - 1
    BY <1>7, <2>1
  <2> HIDE DEF before
  <2> QED BY <2>2
<1> HIDE DEF place, before
<1>10. sorted \in [1..n -> D]
  BY <1>9
<1> HIDE DEF sorted
<1>11. \A i, j \in 1..n : sorted[i] = sorted[j] => i = j
  <2> SUFFICES ASSUME NEW i \in 1..n, NEW j \in 1..n, sorted[i] = sorted[j]
               PROVE  i = j
    OBVIOUS
  <2>1. i - 1 = j - 1
    BY <1>9
  <2> HIDE DEF n
  <2> QED BY <1>1, <2>1
<1>12. ASSUME NEW i \in 1..n, NEW j \in 1..n, i < j
       PROVE  Before(rank[sorted[i]], rank[sorted[j]])
  <2>1. sorted[i] \in D /\ sorted[j] \in D /\ place[sorted[i]] < place[sorted[j]]
    BY <1>1, <1>9, <1>12
  <2>2. ~ Before(rank[sorted[j]], rank[sorted[i]])
    BY <1>4, <1>6, <1>1, <2>1
  <2>3. rank[sorted[i]] # rank[sorted[j]]
    BY <1>1, <1>11, <1>12, <2>1 DEF Ranks
  <2> QED BY <1>1, <2>1, <2>2, <2>3, BeforeIsTotal
<1>13. ASSUME NEW d \in D PROVE \E i \in 1..n : sorted[i] = d
  <2>1. place[d] + 1 \in 1..n /\ place[d] \in Int
    BY <1>1, <1>6
  <2>2. sorted[place[d] + 1] \in D /\ place[sorted[place[d] + 1]] = place[d]
    BY <1>9, <2>1
  <2>3. sorted[place[d] + 1] = d
    BY <1>1, <1>5, <1>6, <2>2
  <2> QED BY <2>1, <2>3
<1> QED BY <1>1, <1>8, <1>10, <1>11, <1>12, <1>13

\* A scan with a limit yields the first of them.
LEMMA FirstOfIs ==
    ASSUME NEW D, IsFiniteSet(D), NEW rank, Ranks(rank, D), NEW limit \in Nat
    PROVE  LET n == Cardinality(D)
               most == IF limit < n THEN limit ELSE n
           IN  /\ most \in 0..n /\ Len(FirstOf(rank, limit)) = most
               /\ DOMAIN FirstOf(rank, limit) = 1..most
               /\ \A i \in 1..most : FirstOf(rank, limit)[i] = Sorted(rank)[i]
<1> DEFINE n == Cardinality(D)
           most == IF limit < n THEN limit ELSE n
           s == Sorted(rank)
<1>1. n \in Nat /\ s \in [1..n -> D]
  BY SortedIs
<1>2. s \in Seq(D) /\ Len(s) = n /\ most \in 0..n /\ most \in Nat
  BY <1>1, LenProperties, SeqDef
<1>3. FirstOf(rank, limit) = SubSeq(s, 1, most)
  BY <1>2 DEF FirstOf
<1> HIDE DEF s, most
<1>4. SubSeq(s, 1, most) = [i \in 1..most |-> s[i]]
  BY <1>2, SubSeqProperties
<1>5. Len([i \in 1..most |-> s[i]]) = most
  BY <1>2
<1> QED BY <1>1, <1>2, <1>3, <1>4, <1>5 DEF s, most

\* One place less than members is too few.
LEMMA TooFewPlaces ==
    ASSUME NEW n \in Nat \ {0}, NEW at \in [1..n -> 1..(n - 1)]
    PROVE  \E j \in 1..n, k \in 1..n : j # k /\ at[j] = at[k]
<1>1. n \in Int /\ n - 1 \in Int /\ 1 \in Int /\ ~ (1 > n)
  OBVIOUS
<1>2. IsFiniteSet(1..n) /\ Cardinality(1..n) = n - 1 + 1
  BY <1>1, FS_Interval
<1>3. IsFiniteSet(1..(n - 1)) /\ Cardinality(1..(n - 1)) = IF 1 > n - 1 THEN 0 ELSE (n - 1) - 1 + 1
  BY <1>1, FS_Interval
<1>4. Cardinality(1..(n - 1)) < Cardinality(1..n)
  BY <1>1, <1>2, <1>3
<1> DEFINE S == 1..n
           T == 1..(n - 1)
<1>5. /\ IsFiniteSet(S) /\ IsFiniteSet(T) /\ Cardinality(T) < Cardinality(S)
      /\ at \in [S -> T]
  BY <1>2, <1>3, <1>4
<1> HIDE DEF S, T
<1>6. \E j, k \in S : j # k /\ at[j] = at[k]
  <2> SUFFICES ASSUME \A j, k \in S : at[j] = at[k] => j = k PROVE FALSE
    OBVIOUS
  <2>1. at \in Injection(S, T)
    BY <1>5 DEF Injection, IsInjective
  <2>2. Cardinality(S) <= Cardinality(T)
    BY <1>5, <2>1, FS_Injection
  <2>3. Cardinality(S) \in Nat /\ Cardinality(T) \in Nat
    BY <1>5, FS_CardinalityType
  <2> QED BY <1>5, <2>2, <2>3
<1> QED BY <1>6 DEF S

\* A sequence that has every member of a set once,
Lists(s, D, n) ==
    /\ s \in [1..n -> D]
    /\ \A i, j \in 1..n : s[i] = s[j] => i = j
    /\ \A d \in D : \E i \in 1..n : s[i] = d

\* and none behind one whose rank comes after its own.
GoesBy(r, s, n) == \A i, j \in 1..n : i < j => ~ Before(r[s[j]], r[s[i]])

\* Where two such sequences of one set differ, the one is not ahead of the other.
LEMMA NoneIsEarlier ==
    ASSUME NEW D, NEW n \in Nat, NEW r \in [D -> Seq(Int)],
           NEW s, NEW t, Lists(s, D, n), Lists(t, D, n), GoesBy(r, s, n), GoesBy(r, t, n),
           NEW i \in 1..n
    PROVE  ~ Before(r[s[i]], r[t[i]])
<1> SUFFICES ASSUME Before(r[s[i]], r[t[i]]) PROVE FALSE
  OBVIOUS
<1>1. /\ \A d \in D : r[d] \in Seq(Int)
      /\ \A k \in 1..n : s[k] \in D /\ t[k] \in D
  BY DEF Lists
<1>2. ASSUME NEW k \in 1..i PROVE \E m \in 1..(i - 1) : t[m] = s[k]
  <2>1. k \in 1..n /\ s[k] \in D /\ s[i] \in D /\ t[i] \in D
    BY <1>1
  <2>2. ~ Before(r[s[i]], r[s[k]])
    <3>1. CASE k = i
      BY <1>1, <2>1, <3>1, BeforeIsTotal
    <3>2. CASE k < i
      BY <2>1, <3>2 DEF GoesBy
    <3> QED BY <3>1, <3>2
  <2>3. Before(r[s[k]], r[t[i]])
    <3>1. CASE r[s[k]] = r[s[i]]
      BY <3>1
    <3>2. CASE r[s[k]] # r[s[i]]
      <4>1. Before(r[s[k]], r[s[i]])
        BY <1>1, <2>1, <2>2, <3>2, BeforeIsTotal
      <4> QED BY <1>1, <2>1, <4>1, BeforeGoesOn
    <3> QED BY <3>1, <3>2
  <2>4. PICK m \in 1..n : t[m] = s[k]
    BY <2>1 DEF Lists
  <2>5. m # i
    BY <1>1, <2>1, <2>3, <2>4, BeforeIsTotal
  <2>6. ~ (i < m)
    BY <2>3, <2>4 DEF GoesBy
  <2>7. m \in 1..(i - 1)
    BY <2>5, <2>6
  <2> QED BY <2>4, <2>7
<1> DEFINE at == [k \in 1..i |-> CHOOSE m \in 1..(i - 1) : t[m] = s[k]]
<1>3. \A k \in 1..i : at[k] \in 1..(i - 1) /\ t[at[k]] = s[k]
  BY <1>2
<1>4. at \in [1..i -> 1..(i - 1)]
  BY <1>2
<1> HIDE DEF at
<1>5. i \in Nat \ {0} /\ 1..i \subseteq 1..n
  OBVIOUS
<1>6. PICK j \in 1..i, k \in 1..i : j # k /\ at[j] = at[k]
  BY <1>4, <1>5, TooFewPlaces
<1>7. s[j] = s[k] /\ j \in 1..n /\ k \in 1..n
  BY <1>3, <1>5, <1>6
<1> QED BY <1>6, <1>7 DEF Lists

\* However ties are broken: two orders of one set that go by the same coarse ranks have
\* the same coarse rank in every place.
LEMMA OrdersAgree ==
    ASSUME NEW D, IsFiniteSet(D), NEW r \in [D -> Seq(Int)],
           NEW a, Ranks(a, D), NEW b, Ranks(b, D),
           \A c, d \in D : Before(r[c], r[d]) => Before(a[c], a[d]) /\ Before(b[c], b[d]),
           NEW i \in 1..Cardinality(D)
    PROVE  Sorted(a)[i] \in D /\ Sorted(b)[i] \in D /\ r[Sorted(a)[i]] = r[Sorted(b)[i]]
<1> DEFINE n == Cardinality(D)
           s == Sorted(a)
           t == Sorted(b)
<1>1. n \in Nat /\ Lists(s, D, n) /\ Lists(t, D, n)
  BY SortedIs DEF Lists
<1>2. /\ \A j, k \in 1..n : j < k => Before(a[s[j]], a[s[k]])
      /\ \A j, k \in 1..n : j < k => Before(b[t[j]], b[t[k]])
  BY SortedIs
<1> HIDE DEF s, t, n
<1>3. /\ \A d \in D : a[d] \in Seq(Int) /\ b[d] \in Seq(Int) /\ r[d] \in Seq(Int)
      /\ \A k \in 1..n : s[k] \in D /\ t[k] \in D
  BY <1>1 DEF Ranks, Lists
<1>4. GoesBy(r, s, n)
  BY <1>2, <1>3, BeforeIsTotal DEF GoesBy
<1>5. GoesBy(r, t, n)
  BY <1>2, <1>3, BeforeIsTotal DEF GoesBy
<1>6. i \in 1..n
  BY DEF n
<1>7. ~ Before(r[s[i]], r[t[i]]) /\ ~ Before(r[t[i]], r[s[i]])
  BY <1>1, <1>4, <1>5, <1>6, NoneIsEarlier
<1>8. s[i] \in D /\ t[i] \in D
  BY <1>3, <1>6
<1> QED BY <1>3, <1>7, <1>8, BeforeIsTotal DEF s, t
-----------------------------------------------------------------------------
(* The last put of a key. *)

\* Of the puts that share a key, one comes last.
LEMMA LastPut ==
    ASSUME EventsPart, NEW p \in Puts
    PROVE  \E q \in Puts : /\ PutAt(q).key = PutAt(p).key
                          /\ ~ \E r \in Puts : Earlier(q, r) /\ PutAt(r).key = PutAt(q).key
<1> DEFINE A == {q \in Puts : PutAt(q).key = PutAt(p).key}
<1>1. /\ A \subseteq (1..7) \X (1..Len(events)) \X (1..3) /\ p \in A /\ Len(events) \in Nat
      /\ \A q \in A : PutAt(q).key = PutAt(p).key
      /\ \A r \in Puts : PutAt(r).key = PutAt(p).key => r \in A
  BY PutsTyped, LenProperties DEF EventsPart
<1> HIDE DEF A
<1>2. PICK a \in A : \A q \in A : q[1] <= a[1]
  <2> DEFINE S == {7 - q[1] : q \in A}
  <2>1. S \in SUBSET Nat /\ S # {}
    BY <1>1
  <2>2. PICK n \in S : \A m \in S : n <= m
    BY <2>1, Least
  <2>3. PICK a \in A : n = 7 - a[1]
    BY <2>2
  <2>4. ASSUME NEW q \in A PROVE q[1] <= a[1]
    <3>1. 7 - q[1] \in S /\ 7 - a[1] <= 7 - q[1]
      BY <2>2, <2>3
    <3>2. q[1] \in 1..7 /\ a[1] \in 1..7 /\ Len(events) \in Nat
      BY <1>1
    <3> QED BY <3>1, <3>2
  <2> QED BY <2>4
<1> DEFINE B == {q \in A : q[1] = a[1]}
<1>3. B \subseteq A /\ a \in B /\ \A q \in A : q[1] = a[1] <=> q \in B
  OBVIOUS
<1> HIDE DEF B
<1>4. PICK b \in B : \A q \in B : q[2] <= b[2]
  <2> DEFINE S == {Len(events) - q[2] : q \in B}
  <2>1. S \in SUBSET Nat /\ S # {}
    BY <1>1, <1>3
  <2>2. PICK n \in S : \A m \in S : n <= m
    BY <2>1, Least
  <2>3. PICK b \in B : n = Len(events) - b[2]
    BY <2>2
  <2>4. ASSUME NEW q \in B PROVE q[2] <= b[2]
    <3>1. Len(events) - q[2] \in S /\ Len(events) - b[2] <= Len(events) - q[2]
      BY <2>2, <2>3
    <3>2. q[2] \in 1..Len(events) /\ b[2] \in 1..Len(events) /\ Len(events) \in Nat
      BY <1>1, <1>3
    <3> QED BY <3>1, <3>2
  <2> QED BY <2>4
<1> DEFINE C == {q \in B : q[2] = b[2]}
<1>5. C \subseteq B /\ b \in C /\ \A q \in B : q[2] = b[2] <=> q \in C
  OBVIOUS
<1> HIDE DEF C
<1>6. PICK c \in C : \A q \in C : q[3] <= c[3]
  <2> DEFINE S == {3 - q[3] : q \in C}
  <2>1. S \in SUBSET Nat /\ S # {}
    BY <1>1, <1>3, <1>5
  <2>2. PICK n \in S : \A m \in S : n <= m
    BY <2>1, Least
  <2>3. PICK c \in C : n = 3 - c[3]
    BY <2>2
  <2>4. ASSUME NEW q \in C PROVE q[3] <= c[3]
    <3>1. 3 - q[3] \in S /\ 3 - c[3] <= 3 - q[3]
      BY <2>2, <2>3
    <3>2. q[3] \in 1..3 /\ c[3] \in 1..3 /\ Len(events) \in Nat
      BY <1>1, <1>3, <1>5
    <3> QED BY <3>1, <3>2
  <2> QED BY <2>4
<1>7. c \in A /\ c \in Puts
  BY <1>3, <1>5, <1>6 DEF A
<1>8. ASSUME NEW r \in A PROVE ~ Earlier(c, r)
  <2>1. c[1] = a[1] /\ c[2] = b[2] /\ b[1] = a[1]
    BY <1>3, <1>5, <1>6
  <2>2. r[1] <= c[1] /\ (r[1] = c[1] => r[2] <= c[2]) /\ (r[1] = c[1] /\ r[2] = c[2] => r[3] <= c[3])
    BY <1>2, <1>3, <1>4, <1>5, <1>6, <2>1
  <2> QED BY <1>1, <1>7, <2>2 DEF Earlier
<1> QED BY <1>1, <1>7, <1>8
=============================================================================
