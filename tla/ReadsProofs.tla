------------------------------ MODULE ReadsProofs ------------------------------
(***************************************************************************)
(* Theorems about Reads: that either engine answers with the last event    *)
(* about an order or a position, with the most recent activities of a      *)
(* market, and with the number of a builder's fills and accounts.          *)
(* EnginesProofs shows what a replay has put, and in what order sorted     *)
(* rows are.                                                               *)
(***************************************************************************)
EXTENDS Reads, EnginesProofs

-----------------------------------------------------------------------------
(* The last event about something. *)

\* A row file of rows that are overwritten, and the family it is put under.
Overwritten == {<<4, "order">>, <<5, "position">>}

\* Events of which no later one has the same key in a row file.
Latest(file) ==
    {e \in Dataset : /\ Yields(file, e)
                     /\ \A f \in Dataset :
                          Yields(file, f) /\ PlainKey(file, f) = PlainKey(file, e) =>
                              f = e \/ Precedes(f, e)}

\* An event that all others of a set precede is its newest.
LEMMA NewestIs ==
    ASSUME EventsPart, InOrder, NEW S \in SUBSET Dataset, NEW e \in S,
           \A f \in S : f = e \/ Precedes(f, e)
    PROVE  Newest(S) = e
<1> DEFINE IsLast(x) == \A f \in S : f.version < x.version \/ (f.version = x.version /\ f.idx <= x.idx)
<1>1. DOMAIN events = 1..Len(events) /\ \A i \in 1..Len(events) : events[i] \in Event
  BY LenProperties, ElementOfSeq DEF EventsPart
<1>2. \A f \in S : f.version \in Nat /\ f.idx \in Nat
  BY <1>1 DEF Dataset, Event
<1>3. IsLast(e)
  BY <1>2 DEF Precedes
<1>4. ASSUME NEW x \in S, IsLast(x) PROVE x = e
  <2>1. e.version < x.version \/ (e.version = x.version /\ e.idx <= x.idx)
    BY <1>4
  <2>2. x = e \/ x.version < e.version \/ (x.version = e.version /\ x.idx < e.idx)
    BY DEF Precedes
  <2> QED BY <1>2, <2>1, <2>2
<1>5. Newest(S) = CHOOSE x \in S : IsLast(x)
  BY DEF Newest
<1> HIDE DEF IsLast
<1> QED BY <1>3, <1>4, <1>5

\* What a put of such a family puts.
LEMMA OverwrittenPut ==
    ASSUME EventsPart, NEW pair \in Overwritten, NEW p \in Puts
    PROVE  PutAt(p).key[1] = pair[2] <=> p[1] = pair[1]
<1> DEFINE e == events[p[2]]
           file == Sections[p[1]]
<1>1. p \in (1..7) \X (1..Len(events)) \X (1..3) /\ p[3] \in 1..Len(Writes(file, e))
  BY PutsTyped DEF Puts
<1>2. PutAt(p) = Writes(file, e)[p[3]]
  BY DEF PutAt
<1>3. /\ MarketKey(e)[1] = "fills_by_market"
      /\ AccountKey(e)[1] = "fills_by_account"
      /\ BuilderKey(e)[1] = "builder"
      /\ ActivityKey(e)[1] = "activity"
  BY DEF MarketKey, AccountKey, BuilderKey, ActivityKey
<1>4. \A k : Entry(k, e).key = k
  BY DEF Entry
<1>5. /\ PlainKey("txs", e)[1] = "tx" /\ PlainKey("events", e)[1] = "event"
      /\ PlainKey("orders", e)[1] = "order" /\ PlainKey("positions", e)[1] = "position"
  BY DEF PlainKey
<1> HIDE DEF e
<1>6. \/ file \in {"fills", "builder_rows", "activity_rows"}
         /\ PutAt(p).key[1] \in {"fills_by_market", "fills_by_account", "builder", "activity"}
      \/ file \notin {"fills", "builder_rows", "activity_rows"} /\ PutAt(p).key = PlainKey(file, e)
  <2> HIDE DEF file
  <2> QED BY <1>1, <1>2, <1>3, <1>4, WritesAre
<1>7. p[1] \in 1..7
  BY <1>1
<1> QED BY <1>5, <1>6, <1>7, SectionsAre DEF Overwritten

\* The put of an event's row under its key, and its place among the puts.
LEMMA PutOfRow ==
    ASSUME EventsPart, NEW pair \in Overwritten, NEW i \in 1..Len(events)
    PROVE  /\ Yields(Sections[pair[1]], events[i]) => <<pair[1], i, 1>> \in Puts
           /\ \A p \in Puts : p[1] = pair[1] /\ p[2] = i =>
                /\ p = <<pair[1], i, 1>>
                /\ Yields(Sections[pair[1]], events[i])
                /\ PutAt(p) = Entry(PlainKey(Sections[pair[1]], events[i]), events[i])
<1> DEFINE e == events[i]
           file == Sections[pair[1]]
<1>1. pair[1] \in 1..7 /\ file \in {"orders", "positions"}
  BY SectionsAre DEF Overwritten
<1>2. Yields(file, e) => /\ Len(Writes(file, e)) = 1
                         /\ Writes(file, e)[1] = Entry(PlainKey(file, e), e)
  BY <1>1 DEF Writes
<1>3. ~ Yields(file, e) => Len(Writes(file, e)) = 0
  BY DEF Writes
<1>4. Yields(file, e) => <<pair[1], i, 1>> \in Puts
  <2> DEFINE p == <<pair[1], i, 1>>
  <2>1. p[1] = pair[1] /\ p[2] = i /\ p[3] = 1
    OBVIOUS
  <2>2. p \in (1..Len(Sections)) \X (1..Len(events)) \X (1..3)
    BY <1>1, SectionsAre
  <2> HIDE DEF p
  <2>3. Yields(file, e) => p \in Puts
    BY <1>2, <2>1, <2>2 DEF Puts
  <2> QED BY <2>3 DEF p
<1>5. ASSUME NEW p \in Puts, p[1] = pair[1], p[2] = i
      PROVE  p = <<pair[1], i, 1>> /\ Yields(file, e) /\ PutAt(p) = Entry(PlainKey(file, e), e)
  <2>1. /\ p \in (1..7) \X (1..Len(events)) \X (1..3) /\ p[3] \in 1..3
        /\ p[3] <= Len(Writes(file, e))
    BY <1>5, PutsTyped DEF Puts
  <2>2. PutAt(p) = Writes(file, e)[p[3]]
    BY <1>5 DEF PutAt
  <2> HIDE DEF e, file
  <2>3. Yields(file, e)
    BY <1>3, <2>1
  <2>4. p[3] = 1
    <3>1. Len(Writes(file, e)) = 1
      BY <1>2, <2>3
    <3>2. p[3] \in 1..3 /\ p[3] <= 1
      BY <2>1, <3>1
    <3> QED BY <3>2
  <2> QED BY <1>2, <1>5, <2>1, <2>2, <2>3, <2>4
<1> QED BY <1>4, <1>5

\* A whole load leaves the last event's row under every key of the two families.
LEMMA FreshLatest ==
    ASSUME EventsPart, InOrder, NEW pair \in Overwritten, NEW file, file = Sections[pair[1]]
    PROVE  {w \in Fresh : w.key[1] = pair[2]} = {Entry(PlainKey(file, e), e) : e \in Latest(file)}
<1>1. DOMAIN events = 1..Len(events) /\ Len(events) \in Nat
  BY LenProperties DEF EventsPart
<1>2. \A k, e : Entry(k, e).key = k
  BY DEF Entry
<1>3. \A e : PlainKey(file, e)[1] = pair[2]
  BY SectionsAre DEF Overwritten, PlainKey
<1>4. ASSUME NEW i \in 1..Len(events), NEW j \in 1..Len(events)
      PROVE  /\ i < j <=> Precedes(events[i], events[j])
             /\ Earlier(<<pair[1], i, 1>>, <<pair[1], j, 1>>) <=> i < j
             /\ events[i] = events[j] => i = j
  <2>1. events[i] \in Event /\ events[j] \in Event
    BY ElementOfSeq DEF EventsPart
  <2>2. ~ (Precedes(events[i], events[j]) /\ Precedes(events[j], events[i]))
        /\ (Precedes(events[i], events[j]) => events[i] # events[j])
    BY <2>1 DEF Precedes, Event
  <2>3. events[i] = events[j] => i = j
    BY PlaceIsOne
  <2>4. i < j <=> Precedes(events[i], events[j])
    BY <2>2, <2>3 DEF InOrder
  <2>5. pair[1] \in Int
    BY DEF Overwritten
  <2>6. Earlier(<<pair[1], i, 1>>, <<pair[1], j, 1>>) <=> i < j
    BY <2>5 DEF Earlier
  <2> QED BY <2>3, <2>4, <2>6
<1>5. ASSUME NEW w \in Fresh, w.key[1] = pair[2]
      PROVE  \E e \in Latest(file) : w = Entry(PlainKey(file, e), e)
  <2>1. PICK p \in Puts :
          w = PutAt(p) /\ ~ \E q \in Puts : Earlier(p, q) /\ PutAt(q).key = PutAt(p).key
    BY DEF Fresh, LastOf
  <2>2. p[1] = pair[1] /\ p[2] \in 1..Len(events)
    BY <1>5, <2>1, OverwrittenPut, PutsTyped
  <2> DEFINE i == p[2]
             e == events[i]
  <2>3. p = <<pair[1], i, 1>> /\ Yields(file, e) /\ w = Entry(PlainKey(file, e), e)
    <3>1. /\ p = <<pair[1], i, 1>>
          /\ Yields(Sections[pair[1]], events[i])
          /\ PutAt(p) = Entry(PlainKey(Sections[pair[1]], events[i]), events[i])
      BY <2>2, PutOfRow
    <3> QED BY <2>1, <3>1
  <2>4. ASSUME NEW f \in Dataset, Yields(file, f), PlainKey(file, f) = PlainKey(file, e)
        PROVE  f = e \/ Precedes(f, e)
    <3>1. PICK j \in 1..Len(events) : f = events[j]
      BY <1>1 DEF Dataset
    <3>2. <<pair[1], j, 1>> \in Puts
      BY <2>4, <3>1, PutOfRow
    <3>3. PutAt(<<pair[1], j, 1>>) = Entry(PlainKey(file, f), f)
      BY <3>1, <3>2, PutOfRow
    <3>4. ~ Earlier(p, <<pair[1], j, 1>>)
      BY <1>2, <2>1, <2>3, <2>4, <3>2, <3>3
    <3>5. ~ (i < j)
      BY <1>4, <2>2, <2>3, <3>4
    <3> HIDE DEF i
    <3>6. i = j \/ j < i
      BY <1>1, <2>2, <3>5 DEF i
    <3> QED BY <1>4, <2>2, <3>1, <3>6 DEF i
  <2>5. e \in Dataset
    BY <1>1, <2>2 DEF Dataset
  <2> HIDE DEF e
  <2>6. e \in Latest(file)
    BY <2>3, <2>4, <2>5 DEF Latest
  <2> QED BY <2>3, <2>6
<1>6. ASSUME NEW e \in Latest(file) PROVE Entry(PlainKey(file, e), e) \in Fresh
  <2>1. PICK i \in 1..Len(events) : e = events[i]
    BY <1>1 DEF Dataset, Latest
  <2> DEFINE p == <<pair[1], i, 1>>
  <2>2. p \in Puts
    BY <2>1, PutOfRow DEF Latest
  <2>3. PutAt(p) = Entry(PlainKey(file, e), e)
    BY <2>1, <2>2, PutOfRow
  <2>4. ASSUME NEW q \in Puts, Earlier(p, q), PutAt(q).key = PutAt(p).key PROVE FALSE
    <3>1. q[1] = pair[1] /\ q[2] \in 1..Len(events)
      BY <1>2, <1>3, <2>3, <2>4, OverwrittenPut, PutsTyped
    <3> DEFINE j == q[2]
               f == events[j]
    <3>2. q = <<pair[1], j, 1>> /\ Yields(file, f) /\ PutAt(q) = Entry(PlainKey(file, f), f)
      BY <3>1, PutOfRow
    <3>3. f \in Dataset /\ PlainKey(file, f) = PlainKey(file, e)
      BY <1>1, <1>2, <2>3, <2>4, <3>1, <3>2 DEF Dataset
    <3>4. f = e \/ Precedes(f, e)
      BY <3>2, <3>3 DEF Latest
    <3>5. i < j
      BY <1>4, <2>4, <3>1, <3>2
    <3>6. ~ (j < i) /\ j # i
      BY <1>1, <3>1, <3>5
    <3> QED BY <1>4, <2>1, <3>1, <3>4, <3>6
  <2> QED BY <2>2, <2>3, <2>4 DEF Fresh, LastOf
<1> QED BY <1>2, <1>3, <1>5, <1>6

\* Of the events with one key there is a last one, and it is the newest of them.
LEMMA LatestOfKey ==
    ASSUME EventsPart, InOrder, NEW pair \in Overwritten, NEW file, file = Sections[pair[1]],
           NEW e \in Dataset, Yields(file, e), NEW same,
           same = {f \in Dataset : Yields(file, f) /\ PlainKey(file, f) = PlainKey(file, e)}
    PROVE  /\ Newest(same) \in same /\ Newest(same) \in Latest(file)
           /\ \A f \in Latest(file) : PlainKey(file, f) = PlainKey(file, e) => f = Newest(same)
<1>1. DOMAIN events = 1..Len(events)
  BY LenProperties DEF EventsPart
<1>2. \A k, f : Entry(k, f).key = k
  BY DEF Entry
<1>3. PICK i \in 1..Len(events) : e = events[i]
  BY <1>1 DEF Dataset
<1>4. <<pair[1], i, 1>> \in Puts
  BY <1>3, PutOfRow
<1>5. PutAt(<<pair[1], i, 1>>) = Entry(PlainKey(file, e), e)
  BY <1>3, <1>4, PutOfRow
<1>6. PICK q \in Puts : /\ PutAt(q).key = PlainKey(file, e)
                       /\ ~ \E r \in Puts : Earlier(q, r) /\ PutAt(r).key = PutAt(q).key
  BY <1>2, <1>4, <1>5, LastPut
<1>7. PutAt(q) \in Fresh
  BY <1>6 DEF Fresh, LastOf
<1>8. PlainKey(file, e)[1] = pair[2]
  BY SectionsAre DEF Overwritten, PlainKey
<1>9. PICK g \in Latest(file) : PutAt(q) = Entry(PlainKey(file, g), g)
  BY <1>6, <1>7, <1>8, FreshLatest
<1>10. PlainKey(file, g) = PlainKey(file, e)
  BY <1>2, <1>6, <1>9
<1>11. ASSUME NEW f \in Latest(file), PlainKey(file, f) = PlainKey(file, e)
       PROVE  f \in same /\ f = Newest(same)
  <2>1. f \in same /\ same \in SUBSET Dataset
    BY <1>11 DEF Latest
  <2>2. \A h \in same : h = f \/ Precedes(h, f)
    BY <1>11 DEF Latest
  <2> QED BY <2>1, <2>2, NewestIs
<1> QED BY <1>9, <1>10, <1>11

-----------------------------------------------------------------------------
(* What a reader finds of orders and positions. *)

\* After a replay either engine holds what a load into an empty database leaves.
LEMMA StoredIs ==
    ASSUME EnginesInv, ReplayPart, Replayed,
           NEW family \in {"order", "position"}, NEW of
    PROVE  Stored(family, of) =
             {w.row : w \in {w \in {w \in Fresh : w.key[1] = family} : w.key[2] = of}}
<1>1. CASE engine = "rocksdb"
  <2>1. rocks = Fresh
    BY <1>1, WholeLoadIsFresh DEF RerunIsFresh, Replayed, Whole
  <2> QED BY <1>1, <2>1 DEF Stored
<1>2. CASE engine # "rocksdb"
  <2>1. MemoryHolds
    BY <1>2 DEF ReplayPart, EnginesInv, PositionPart, Replayed
  <2>2. {w \in memory.plain : w.key[1] = family} = {w \in Fresh : w.key[1] = family}
    BY <2>1, PlainAgree DEF Replayed
  <2> QED BY <1>2, <2>2 DEF Stored
<1> QED BY <1>1, <1>2

\* The rows are those of the last events about something.
LEMMA StoredLatest ==
    ASSUME EnginesInv, ReplayPart, Replayed, NEW pair \in Overwritten, NEW of,
           NEW file, file = Sections[pair[1]]
    PROVE  Stored(pair[2], of) = {e \in Latest(file) : PlainKey(file, e)[2] = of}
<1>1. {w \in Fresh : w.key[1] = pair[2]} = {Entry(PlainKey(file, e), e) : e \in Latest(file)}
  BY FreshLatest DEF EnginesInv, ReplayPart
<1>2. \A k, e : Entry(k, e).key = k /\ Entry(k, e).row = e
  BY DEF Entry
<1>3. pair[2] \in {"order", "position"}
  BY DEF Overwritten
<1>4. Stored(pair[2], of) =
        {w.row : w \in {w \in {Entry(PlainKey(file, e), e) : e \in Latest(file)} : w.key[2] = of}}
  BY <1>1, <1>3, StoredIs
<1>5. ASSUME NEW e \in Stored(pair[2], of) PROVE e \in Latest(file) /\ PlainKey(file, e)[2] = of
  <2>1. PICK f \in Latest(file) :
          Entry(PlainKey(file, f), f).key[2] = of /\ e = Entry(PlainKey(file, f), f).row
    BY <1>4
  <2> QED BY <1>2, <2>1
<1>6. ASSUME NEW e \in Latest(file), PlainKey(file, e)[2] = of PROVE e \in Stored(pair[2], of)
  <2>1. Entry(PlainKey(file, e), e).key[2] = of
    BY <1>2, <1>6
  <2>2. Entry(PlainKey(file, e), e).row \in Stored(pair[2], of)
    BY <1>4, <2>1
  <2> QED BY <1>2, <2>2
<1> QED BY <1>5, <1>6

\* An order is that of the last event about it.
LEMMA OrderIsLatest ==
    ASSUME EnginesInv, ReplayPart, Replayed, NEW e \in Dataset, e.content.kind = "order"
    PROVE  GetOrder(Id(e)) =
             {Newest({f \in Dataset : f.content.kind = "order" /\ Id(f) = Id(e)})}
<1> DEFINE same == {f \in Dataset : Yields("orders", f) /\ PlainKey("orders", f) = PlainKey("orders", e)}
<1>1. <<4, "order">> \in Overwritten /\ Sections[4] = "orders"
  BY SectionsAre DEF Overwritten
<1>2. \A f : Yields("orders", f) <=> f.content.kind = "order"
  BY DEF Yields
<1>3. \A f : PlainKey("orders", f) = <<"order", Id(f)>>
  BY DEF PlainKey
<1>4. same = {f \in Dataset : f.content.kind = "order" /\ Id(f) = Id(e)}
  BY <1>2, <1>3
<1>5. GetOrder(Id(e)) = {f \in Latest("orders") : Id(f) = Id(e)}
  <2>1. Stored("order", Id(e)) = {f \in Latest("orders") : PlainKey("orders", f)[2] = Id(e)}
    BY <1>1, StoredLatest
  <2> QED BY <1>3, <2>1 DEF GetOrder
<1> HIDE DEF same
<1>6. /\ Newest(same) \in same /\ Newest(same) \in Latest("orders")
      /\ \A f \in Latest("orders") : PlainKey("orders", f) = PlainKey("orders", e) => f = Newest(same)
  <2>1. Yields("orders", e)
    BY <1>2
  <2> QED BY <1>1, <2>1, LatestOfKey DEF EnginesInv, ReplayPart, same
<1>7. Id(Newest(same)) = Id(e)
  BY <1>4, <1>6
<1>8. \A f \in Latest("orders") : Id(f) = Id(e) => f = Newest(same)
  BY <1>3, <1>6
<1> QED BY <1>4, <1>5, <1>6, <1>7, <1>8

\* Of two ranks the first field of the one that comes first is not the greater.
LEMMA FirstFieldLeads ==
    ASSUME NEW a \in Seq(Int), NEW b \in Seq(Int), Len(a) >= 1, Len(b) >= 1, Before(a, b)
    PROVE  a[1] <= b[1]
<1>1. /\ Len(a) \in Nat /\ DOMAIN a = 1..Len(a) /\ \A i \in 1..Len(a) : a[i] \in Int
      /\ Len(b) \in Nat /\ DOMAIN b = 1..Len(b) /\ \A i \in 1..Len(b) : b[i] \in Int
  BY LenProperties, ElementOfSeq
<1>2. PICK i \in 1..Len(b) : /\ \A j \in 1..(i - 1) : j \in 1..Len(a) /\ a[j] = b[j]
                             /\ i \in 1..Len(a) => a[i] < b[i]
  BY <1>1 DEF Before
<1>3. CASE i = 1
  BY <1>1, <1>2, <1>3
<1>4. CASE i # 1
  <2>1. 1 \in 1..(i - 1)
    BY <1>1, <1>4
  <2>2. a[1] = b[1]
    BY <1>2, <2>1
  <2> QED BY <1>1, <2>2
<1> QED BY <1>3, <1>4

\* What is found of the positions that events are about.
LatestByMarket(same, found) ==
    /\ ToSet(found) = {Newest({f \in same : f.content.market = g.content.market}) : g \in same}
    /\ \A i \in 1..(Len(found) - 1) :
          found[i].content.market < found[i + 1].content.market

\* An account's positions are those of the last events about each, by market.
LEMMA PositionsAreLatest ==
    ASSUME EnginesInv, ReplayPart, Replayed, NEW account, NEW same,
           same = {f \in Dataset : f.content.kind = "position" /\ f.content.account = account}
    PROVE  LatestByMarket(same, GetPositions(account))
<1> DEFINE D == {e \in Latest("positions") : e.content.account = account}
           rank == [e \in D |-> <<e.content.market>>]
           n == Cardinality(D)
           found == Sorted(rank)
<1>1. <<5, "position">> \in Overwritten /\ Sections[5] = "positions" /\ EventsPart /\ InOrder
  BY SectionsAre DEF Overwritten, EnginesInv, ReplayPart
<1>2. \A f : Yields("positions", f) <=> f.content.kind = "position"
  BY DEF Yields
<1>3. \A f : PlainKey("positions", f) = <<"position", f.content.account, f.content.market>>
  BY DEF PlainKey
<1>4. Stored("position", account) = D
  <2>1. Stored("position", account) =
          {f \in Latest("positions") : PlainKey("positions", f)[2] = account}
    BY <1>1, StoredLatest
  <2> QED BY <1>3, <2>1
<1>5. GetPositions(account) = found
  <2> HIDE DEF D
  <2> QED BY <1>4 DEF GetPositions
<1>6. D \subseteq same /\ D \subseteq Dataset /\ D \subseteq Latest("positions")
  BY <1>2 DEF Latest
<1>7. ASSUME NEW g \in same, NEW those, those = {f \in same : f.content.market = g.content.market}
      PROVE  /\ Newest(those) \in D /\ Newest(those).content.market = g.content.market
             /\ \A e \in D : e.content.market = g.content.market => e = Newest(those)
  <2> DEFINE keyed == {f \in Dataset : /\ Yields("positions", f)
                                       /\ PlainKey("positions", f) = PlainKey("positions", g)}
  <2>1. g \in Dataset /\ Yields("positions", g) /\ g.content.account = account
    BY <1>2
  <2>2. keyed = those
    <3>1. \A f : PlainKey("positions", f) = PlainKey("positions", g) <=>
                 f.content.account = g.content.account /\ f.content.market = g.content.market
      <4> TAKE f
      <4>1. /\ PlainKey("positions", f) = <<"position", f.content.account, f.content.market>>
            /\ PlainKey("positions", g) = <<"position", g.content.account, g.content.market>>
        BY <1>3
      <4> QED BY <4>1
    <3> QED BY <1>2, <1>7, <2>1, <3>1
  <2> HIDE DEF keyed
  <2>3. /\ Newest(keyed) \in keyed /\ Newest(keyed) \in Latest("positions")
        /\ \A f \in Latest("positions") :
              PlainKey("positions", f) = PlainKey("positions", g) => f = Newest(keyed)
    BY <1>1, <2>1, LatestOfKey DEF keyed
  <2>4. Newest(those) \in same /\ Newest(those).content.market = g.content.market
    BY <1>7, <2>2, <2>3
  <2>5. Newest(those) \in D
    BY <2>2, <2>3, <2>4
  <2>6. \A e \in D : e.content.market = g.content.market => e = Newest(those)
    BY <1>3, <2>1, <2>2, <2>3
  <2> QED BY <2>4, <2>5, <2>6
<1> DEFINE NewestOf(g) == Newest({f \in same : f.content.market = g.content.market})
<1> HIDE DEF D
<1>8. ASSUME NEW g \in same
      PROVE  NewestOf(g) \in D /\ \A e \in D : e.content.market = g.content.market => e = NewestOf(g)
  BY <1>7
<1> HIDE DEF NewestOf
<1>9. D = {NewestOf(g) : g \in same}
  BY <1>6, <1>8
<1>10. IsFiniteSet(D)
  BY <1>1, <1>6, DatasetIsFinite, FS_Subset
<1>11. \A e \in D : e.content.market \in Int
  <2>1. \A e \in Dataset : e \in Event
    BY <1>1, LenProperties, ElementOfSeq DEF EventsPart, Dataset
  <2>2. \A e \in D : e.content \in Contents /\ e.content.kind = "position"
    BY <1>6, <2>1 DEF Event
  <2> QED BY <2>2, ReadsAssumption
<1>12. \A e, f \in D : e.content.market = f.content.market => e = f
  BY <1>6, <1>8
<1>13. Ranks(rank, D)
  <2>1. rank \in [D -> Seq(Int)]
    BY <1>11
  <2>2. \A e, f \in D : rank[e] = rank[f] => e = f
    BY <1>12
  <2> QED BY <2>1, <2>2 DEF Ranks
<1>14. \A e \in D : rank[e] = <<e.content.market>>
  OBVIOUS
<1> HIDE DEF rank
<1>15. /\ n \in Nat /\ found \in [1..n -> D]
       /\ \A d \in D : \E i \in 1..n : found[i] = d
       /\ \A i, j \in 1..n : i < j => Before(rank[found[i]], rank[found[j]])
  BY <1>10, <1>13, SortedIs
<1> HIDE DEF found, n
<1>16. ToSet(found) = D
  BY <1>15 DEF ToSet
<1>17. Len(found) = n
  BY <1>15
<1>18. ASSUME NEW i \in 1..(n - 1)
       PROVE  found[i].content.market < found[i + 1].content.market
  <2>1. i \in 1..n /\ i + 1 \in 1..n /\ i < i + 1 /\ i # i + 1
    BY <1>15
  <2> DEFINE a == rank[found[i]]
             b == rank[found[i + 1]]
  <2>2. Before(a, b) /\ found[i] \in D /\ found[i + 1] \in D
    BY <1>15, <2>1
  <2>3. a \in Seq(Int) /\ b \in Seq(Int)
    BY <1>13, <2>2 DEF Ranks
  <2>4. a = <<found[i].content.market>> /\ b = <<found[i + 1].content.market>>
    BY <1>14, <2>2
  <2>5. /\ a[1] = found[i].content.market /\ b[1] = found[i + 1].content.market
        /\ Len(a) = 1 /\ Len(b) = 1
    BY <2>4
  <2>6. a # b
    BY <2>2, <2>3, BeforeIsTotal
  <2> HIDE DEF a, b
  <2>7. a[1] <= b[1]
    BY <2>2, <2>3, <2>5, FirstFieldLeads
  <2>8. found[i].content.market # found[i + 1].content.market
    BY <2>4, <2>6
  <2>9. found[i].content.market \in Int /\ found[i + 1].content.market \in Int
    BY <1>11, <2>2
  <2> QED BY <2>5, <2>7, <2>8, <2>9
<1> QED BY <1>5, <1>9, <1>16, <1>17, <1>18 DEF NewestOf, LatestByMarket

-----------------------------------------------------------------------------
(* What a reader finds of a market's activity. *)

\* What a scan with a limit must yield of a set of events.
MostRecent(all, limit, found) ==
    LET rest == all \ ToSet(found)
    IN  /\ Len(found) = IF limit < Cardinality(all) THEN limit ELSE Cardinality(all)
        /\ Cardinality(ToSet(found)) = Len(found)
        /\ ToSet(found) \subseteq all
        /\ \A i \in 1..(Len(found) - 1) : Time(found[i]) >= Time(found[i + 1])
        /\ \A f \in rest, g \in ToSet(found) : Time(f) <= Time(g)

\* The rows are those of a set of events, each of them under a rank of its own, and no
\* rank comes before that of an event that is more recent.
RanksByTime(rank, row, D, all) ==
    /\ Ranks(rank, D)
    /\ row \in Bijection(D, all)
    /\ \A c, d \in D : Before(rank[c], rank[d]) => Time(row[d]) <= Time(row[c])

\* What is found is the rows that come first.
FoundFirst(found, rank, row, limit) ==
    LET first == FirstOf(rank, limit)
    IN  /\ Len(found) = Len(first)
        /\ DOMAIN found = DOMAIN first
        /\ \A k \in DOMAIN first : found[k] = row[first[k]]

\* The first by such ranks are the most recent.
LEMMA FirstAreRecent ==
    ASSUME NEW all, \A e \in all : Time(e) \in Nat, NEW D, IsFiniteSet(D),
           NEW rank, NEW row, RanksByTime(rank, row, D, all),
           NEW limit \in Nat, NEW found, FoundFirst(found, rank, row, limit)
    PROVE  MostRecent(all, limit, found)
<1> DEFINE n == Cardinality(D)
           most == IF limit < n THEN limit ELSE n
           s == Sorted(rank)
<1>1. /\ Ranks(rank, D) /\ row \in [D -> all] /\ \A e \in all : \E d \in D : row[d] = e
      /\ \A c, d \in D : row[c] = row[d] => c = d
      /\ \A c, d \in D : Before(rank[c], rank[d]) => Time(row[d]) <= Time(row[c])
  BY DEF RanksByTime, Bijection, Injection, Surjection, IsInjective
<1>2. IsFiniteSet(all) /\ Cardinality(all) = n
  <2>1. ExistsBijection(D, all)
    BY DEF RanksByTime, ExistsBijection
  <2> QED BY <2>1, FS_Bijection
<1>3. /\ n \in Nat /\ s \in [1..n -> D]
      /\ \A d \in D : \E i \in 1..n : s[i] = d
      /\ \A i, j \in 1..n : i < j => Before(rank[s[i]], rank[s[j]])
      /\ \A i, j \in 1..n : s[i] = s[j] => i = j
  BY <1>1, SortedIs
<1>4. /\ most \in 0..n /\ Len(found) = most /\ DOMAIN found = 1..most
      /\ \A i \in 1..most : found[i] = row[s[i]]
  <2> DEFINE first == FirstOf(rank, limit)
  <2>1. /\ most \in 0..n /\ Len(first) = most /\ DOMAIN first = 1..most
        /\ \A i \in 1..most : first[i] = s[i]
    <3>1. Ranks(rank, D)
      BY <1>1
    <3> QED BY <3>1, FirstOfIs
  <2> HIDE DEF most, s
  <2> QED BY <2>1 DEF FoundFirst
<1> HIDE DEF s
<1>5. most \in Nat /\ \A i \in 1..most : i \in 1..n
  BY <1>3, <1>4
<1> HIDE DEF most, n
<1>6. \A i \in 1..most : s[i] \in D /\ found[i] \in all
  BY <1>1, <1>3, <1>4, <1>5
<1>7. ToSet(found) = {found[i] : i \in 1..most}
  BY <1>4 DEF ToSet
<1>8. Cardinality(ToSet(found)) = most
  <2> DEFINE f == [i \in 1..most |-> found[i]]
             T == ToSet(found)
  <2>1. \A i, j \in 1..most : found[i] = found[j] => i = j
    BY <1>1, <1>3, <1>4, <1>5, <1>6
  <2>2. f \in Bijection(1..most, T)
    BY <1>7, <2>1 DEF Bijection, Injection, Surjection, IsInjective
  <2> HIDE DEF f, T
  <2> QED BY <1>5, <2>2, FS_CountingElements DEF ExistsBijection, T
<1>9. ASSUME NEW i \in 1..n, NEW j \in 1..n, i < j PROVE Time(row[s[j]]) <= Time(row[s[i]])
  BY <1>1, <1>3, <1>9
<1>10. ASSUME NEW i \in 1..(most - 1) PROVE Time(found[i]) >= Time(found[i + 1])
  <2>1. i \in 1..most /\ i + 1 \in 1..most /\ i < i + 1
    BY <1>5
  <2>2. found[i] = row[s[i]] /\ found[i + 1] = row[s[i + 1]] /\ i \in 1..n /\ i + 1 \in 1..n
    BY <1>4, <1>5, <2>1
  <2>3. Time(found[i]) \in Nat /\ Time(found[i + 1]) \in Nat
    BY <1>6, <2>1
  <2>4. Time(found[i + 1]) <= Time(found[i])
    BY <1>9, <2>1, <2>2
  <2> QED BY <2>3, <2>4
<1>11. ASSUME NEW f \in all \ ToSet(found), NEW g \in ToSet(found) PROVE Time(f) <= Time(g)
  <2>1. PICK i \in 1..most : g = found[i]
    BY <1>7
  <2>2. PICK d \in D : f = row[d]
    BY <1>1
  <2>3. PICK j \in 1..n : d = s[j]
    BY <1>3
  <2>4. j \notin 1..most
    BY <1>4, <1>7, <2>2, <2>3
  <2>5. i < j /\ i \in 1..n
    BY <1>3, <1>5, <2>4
  <2> QED BY <1>4, <1>9, <2>1, <2>2, <2>3, <2>5
<1>12. ToSet(found) \subseteq all
  BY <1>6, <1>7
<1>13. Len(found) = IF limit < Cardinality(all) THEN limit ELSE Cardinality(all)
  BY <1>2, <1>4 DEF most
<1>14. Len(found) = most
  BY <1>4
<1>15. \A i \in 1..(Len(found) - 1) : Time(found[i]) >= Time(found[i + 1])
  BY <1>10, <1>14
<1> QED BY <1>8, <1>11, <1>12, <1>13, <1>14, <1>15 DEF MostRecent

\* What a rank is that a number is appended to.
LEMMA LongerRank ==
    ASSUME NEW a \in Seq(Int), NEW i \in Int
    PROVE  /\ Append(a, i) \in Seq(Int) /\ Len(Append(a, i)) = Len(a) + 1
           /\ \A j \in 1..Len(a) : Append(a, i)[j] = a[j]
           /\ Append(a, i)[Len(a) + 1] = i
BY AppendProperties

\* The rank of an activity, in either engine, begins with its time, turned round, and
\* ends with its place.
LEMMA ActivityOrders ==
    ASSUME EventsPart, VersionsPart, NEW e \in Dataset
    PROVE  LET order == ActivityOrder(e)
           IN  /\ order \in Seq(Int) /\ order[1] = -Time(e)
               /\ engine = "rocksdb" => Len(order) = 4 /\ order[3] = e.version /\ order[4] = e.idx
               /\ engine # "rocksdb" => Len(order) = 3
<1>1. -Time(e) \in Int /\ e.version \in Int /\ e.idx \in Int
  BY TimeIsNumber
<1>2. TypeRank(e) \in Int
  BY DEF TypeRank
<1> QED BY <1>1, <1>2 DEF ActivityOrder

\* The events of a market that are no unknown ones are its activities.
LEMMA MarketActivities ==
    ASSUME EventsPart, NEW market, NEW all,
           all = {f \in Dataset : f.content.kind # "unknown" /\ f.content.market = market}
    PROVE  all = {e \in ActiveEvents : e.content.market = market} /\ IsFiniteSet(all)
<1>1. \A e \in Dataset : e.content.kind \in {"fill", "order", "position", "notice", "unknown"}
  <2>1. \A e \in Dataset : e \in Event
    BY LenProperties, ElementOfSeq DEF EventsPart, Dataset
  <2> QED BY <2>1, EngineAssumption DEF Event, Kinds
<1>2. \A e \in Dataset : e.content.kind # "unknown" <=> IsFill(e) \/ Yields("activity_rows", e)
  BY <1>1 DEF IsFill, Yields
<1>3. all = {e \in ActiveEvents : e.content.market = market}
  BY <1>2 DEF ActiveEvents
<1>4. all \subseteq Dataset
  OBVIOUS
<1> QED BY <1>3, <1>4, DatasetIsFinite, FS_Subset

\* The scan of the database.
LEMMA RocksActivity ==
    ASSUME UniqueFills, EnginesInv, ReplayPart, VersionsPart, Replayed, engine = "rocksdb",
           NEW market, NEW limit \in Nat, NEW all,
           all = {f \in Dataset : f.content.kind # "unknown" /\ f.content.market = market}
    PROVE  MostRecent(all, limit, ScanActivity(market, limit))
<1> DEFINE rank == [e \in all |-> ActivityOrder(e)]
           row == [e \in all |-> e]
           found == FirstOf(rank, limit)
<1>1. EventsPart /\ InOrder
  BY DEF EnginesInv, ReplayPart
<1>2. all = {e \in ActiveEvents : e.content.market = market} /\ IsFiniteSet(all)
  BY <1>1, MarketActivities
<1>3. Stored("activity", market) = all
  <2>1. rocks = Fresh
    BY WholeLoadIsFresh DEF RerunIsFresh, Replayed, Whole
  <2>2. {w \in Fresh : w.key[1] = "activity"} = {Entry(ActivityKey(e), e) : e \in ActiveEvents}
    BY <1>1, FreshRows
  <2>3. Stored("activity", market) =
          {w.row : w \in {w \in {Entry(ActivityKey(e), e) : e \in ActiveEvents} : w.key[2] = market}}
    BY <2>1, <2>2 DEF Stored
  <2>4. \A e : Entry(ActivityKey(e), e).key[2] = e.content.market /\ Entry(ActivityKey(e), e).row = e
    BY DEF Entry, ActivityKey
  <2> QED BY <1>2, <2>3, <2>4
<1>4. ScanActivity(market, limit) = found
  BY <1>3 DEF ScanActivity
<1>5. all \subseteq Dataset /\ \A e \in all : Time(e) \in Nat
  BY <1>1, TimeIsNumber
<1>6. \A e \in all : /\ ActivityOrder(e) \in Seq(Int) /\ Len(ActivityOrder(e)) = 4
                     /\ ActivityOrder(e)[1] = -Time(e)
                     /\ ActivityOrder(e)[3] = e.version /\ ActivityOrder(e)[4] = e.idx
  BY <1>1, <1>5, ActivityOrders
<1>7. \A e, f \in all : e.version = f.version /\ e.idx = f.idx => e = f
  <2>1. DOMAIN events = 1..Len(events)
    BY <1>1, LenProperties DEF EventsPart
  <2> QED BY <1>1, <1>5, <2>1, PlaceIsOne DEF Dataset
<1>8. Ranks(rank, all)
  BY <1>6, <1>7 DEF Ranks
<1>9. row \in Bijection(all, all)
  BY DEF Bijection, Injection, Surjection, IsInjective
<1>10. ASSUME NEW c \in all, NEW d \in all, Before(rank[c], rank[d]) PROVE Time(row[d]) <= Time(row[c])
  <2>1. Before(ActivityOrder(c), ActivityOrder(d))
    BY <1>10
  <2>2. -Time(c) <= -Time(d)
    BY <1>6, <2>1, FirstFieldLeads
  <2>3. Time(c) \in Nat /\ Time(d) \in Nat
    BY <1>5
  <2> QED BY <2>2, <2>3
<1>11. \A e \in all : row[e] = e
  OBVIOUS
<1> HIDE DEF rank, row
<1>12. RanksByTime(rank, row, all, all)
  BY <1>8, <1>9, <1>10 DEF RanksByTime
<1>13. \A k \in DOMAIN found : found[k] = row[found[k]]
  <2> DEFINE n == Cardinality(all)
             most == IF limit < n THEN limit ELSE n
  <2>1. /\ most \in 0..n /\ DOMAIN found = 1..most
        /\ \A k \in 1..most : found[k] = Sorted(rank)[k]
    <3>1. found = FirstOf(rank, limit)
      OBVIOUS
    <3>2. /\ most \in 0..n /\ DOMAIN FirstOf(rank, limit) = 1..most
          /\ \A k \in 1..most : FirstOf(rank, limit)[k] = Sorted(rank)[k]
      BY <1>2, <1>8, FirstOfIs, Zenon
    <3> HIDE DEF found, n, most
    <3> QED BY <3>1, <3>2
  <2>2. Sorted(rank) \in [1..n -> all] /\ n \in Nat
    BY <1>2, <1>8, SortedIs
  <2> HIDE DEF most, found, n
  <2>3. \A k \in DOMAIN found : found[k] \in all
    BY <2>1, <2>2
  <2> QED BY <1>11, <2>3
<1>14. FoundFirst(found, rank, row, limit)
  BY <1>13 DEF FoundFirst
<1>15. MostRecent(all, limit, found)
  BY <1>2, <1>5, <1>12, <1>14, FirstAreRecent
<1> QED BY <1>4, <1>15

\* The scan of the memory engine, where a replay has pushed every activity once.
LEMMA MemoryActivity ==
    ASSUME UniqueFills, EnginesInv, ReplayPart, VersionsPart, Replayed, engine # "rocksdb",
           NEW market, NEW limit \in Nat, NEW all,
           all = {f \in Dataset : f.content.kind # "unknown" /\ f.content.market = market}
    PROVE  MostRecent(all, limit, ScanActivity(market, limit))
<1> DEFINE pushed == memory.activities
           those == {i \in DOMAIN pushed : pushed[i].content.market = market}
           rank == [i \in those |-> Append(ActivityOrder(pushed[i]), i)]
           row == [i \in those |-> pushed[i]]
           first == FirstOf(rank, limit)
           found == [k \in DOMAIN first |-> pushed[first[k]]]
<1>1. EventsPart /\ InOrder /\ MemoryHolds
  BY DEF EnginesInv, ReplayPart, PositionPart, Replayed
<1>2. all = {e \in ActiveEvents : e.content.market = market} /\ IsFiniteSet(all)
  BY <1>1, MarketActivities
<1>3. ScanActivity(market, limit) = found
  BY DEF ScanActivity
<1>4. /\ pushed \in Seq(Event) /\ DOMAIN pushed = 1..Len(pushed) /\ Len(pushed) \in Nat
      /\ \A e \in ActiveEvents : \E i \in 1..Len(pushed) : pushed[i] = e
      /\ \A i \in 1..Len(pushed) : pushed[i] \in ActiveEvents
      /\ \A i, j \in 1..Len(pushed) : pushed[i] = pushed[j] => i = j
  <2>1. ActiveBehind = ActiveEvents
    BY <1>1, WholeTables DEF Replayed
  <2> QED BY <1>1, <2>1, LenProperties DEF MemoryHolds
<1> HIDE DEF pushed
<1>5. those \in SUBSET (1..Len(pushed)) /\ \A i \in those : pushed[i] \in all
  BY <1>2, <1>4
<1>6. row \in Bijection(those, all)
  <2>1. row \in [those -> all]
    BY <1>5
  <2>2. \A i, j \in those : row[i] = row[j] => i = j
    BY <1>4, <1>5
  <2>3. \A e \in all : \E i \in those : row[i] = e
    BY <1>2, <1>4
  <2> QED BY <2>1, <2>2, <2>3 DEF Bijection, Injection, Surjection, IsInjective
<1>7. IsFiniteSet(those)
  <2>1. IsFiniteSet(1..Len(pushed))
    BY <1>4, FS_Interval
  <2> QED BY <1>5, <2>1, FS_Subset
<1>8. all \subseteq Dataset /\ \A e \in all : Time(e) \in Nat
  BY <1>1, TimeIsNumber
<1>9. ASSUME NEW i \in those
      PROVE  /\ rank[i] \in Seq(Int) /\ Len(rank[i]) = 4
             /\ rank[i][1] = -Time(pushed[i]) /\ rank[i][4] = i
  <2> DEFINE order == ActivityOrder(pushed[i])
  <2>1. pushed[i] \in Dataset /\ i \in Int
    BY <1>5, <1>8
  <2>2. order \in Seq(Int) /\ Len(order) = 3 /\ order[1] = -Time(pushed[i])
    BY <1>1, <2>1, ActivityOrders
  <2>3. rank[i] = Append(order, i)
    OBVIOUS
  <2> HIDE DEF order, rank
  <2>4. /\ Append(order, i) \in Seq(Int) /\ Len(Append(order, i)) = Len(order) + 1
        /\ \A j \in 1..Len(order) : Append(order, i)[j] = order[j]
        /\ Append(order, i)[Len(order) + 1] = i
    BY <2>1, <2>2, LongerRank
  <2> QED BY <2>2, <2>3, <2>4
<1>10. \A i \in those : row[i] = pushed[i]
  OBVIOUS
<1> HIDE DEF row
<1>11. Ranks(rank, those)
  <2>1. \A i \in those : rank[i] \in Seq(Int)
    BY <1>9
  <2>2. rank = [i \in those |-> rank[i]]
    OBVIOUS
  <2> HIDE DEF rank, those
  <2>3. rank \in [those -> Seq(Int)]
    BY <2>1, <2>2
  <2>4. \A i, j \in those : rank[i] = rank[j] => i = j
    BY <1>9
  <2> QED BY <2>3, <2>4 DEF Ranks
<1> HIDE DEF rank
<1>12. ASSUME NEW c \in those, NEW d \in those, Before(rank[c], rank[d])
       PROVE  Time(row[d]) <= Time(row[c])
  <2>1. rank[c][1] <= rank[d][1]
    <3>1. /\ rank[c] \in Seq(Int) /\ Len(rank[c]) >= 1
          /\ rank[d] \in Seq(Int) /\ Len(rank[d]) >= 1
      BY <1>9
    <3> QED BY <1>12, <3>1, FirstFieldLeads
  <2>2. -Time(pushed[c]) <= -Time(pushed[d])
    BY <1>9, <2>1
  <2>3. Time(pushed[c]) \in Nat /\ Time(pushed[d]) \in Nat
    BY <1>5, <1>8
  <2> QED BY <1>10, <2>2, <2>3
<1> HIDE DEF those
<1>13. RanksByTime(rank, row, those, all)
  BY <1>6, <1>11, <1>12 DEF RanksByTime
<1>14. /\ DOMAIN first = 1..Len(first) /\ Len(first) \in Nat
       /\ \A k \in DOMAIN first : first[k] \in those
  <2> DEFINE n == Cardinality(those)
             most == IF limit < n THEN limit ELSE n
  <2>1. /\ most \in 0..n /\ Len(first) = most /\ DOMAIN first = 1..most
        /\ \A k \in 1..most : first[k] = Sorted(rank)[k]
    BY <1>7, <1>11, FirstOfIs
  <2>2. Sorted(rank) \in [1..n -> those] /\ n \in Nat
    BY <1>7, <1>11, SortedIs
  <2> HIDE DEF most, first, n
  <2> QED BY <2>1, <2>2
<1> HIDE DEF first
<1>15. /\ Len(found) = Len(first) /\ DOMAIN found = DOMAIN first
       /\ \A k \in DOMAIN first : found[k] = row[first[k]]
  BY <1>10, <1>14
<1> HIDE DEF found
<1>16. FoundFirst(found, rank, row, limit)
  BY <1>15 DEF FoundFirst, first
<1>17. MostRecent(all, limit, found)
  BY <1>7, <1>8, <1>13, <1>16, FirstAreRecent
<1> QED BY <1>3, <1>17

-----------------------------------------------------------------------------
(* What a reader finds of a builder's volume. *)

\* One of the events of a dataset is the latest.
LEMMA SomeIsLatest ==
    ASSUME EventsPart, VersionsPart, NEW b \in Dataset
    PROVE  \E e \in Dataset : \A f \in Dataset : Time(f) <= Time(e)
<1> DEFINE later(e) == {f \in Dataset : Time(e) < Time(f)}
           S == {Cardinality(later(e)) : e \in Dataset}
<1>1. \A e \in Dataset : Time(e) \in Nat
  BY TimeIsNumber
<1>2. \A e \in Dataset : IsFiniteSet(later(e)) /\ Cardinality(later(e)) \in Nat
  BY DatasetIsFinite, FS_Subset, FS_CardinalityType
<1>3. S \in SUBSET Nat /\ S # {}
  BY <1>2
<1>4. PICK n \in S : \A m \in S : n <= m
  BY <1>3, Least
<1>5. PICK e \in Dataset : n = Cardinality(later(e))
  BY <1>4
<1>6. ASSUME NEW f \in Dataset, Time(e) < Time(f) PROVE FALSE
  <2>1. later(f) \subseteq later(e) /\ f \in later(e) /\ f \notin later(f)
    BY <1>1, <1>6
  <2> HIDE DEF later
  <2>2. /\ Cardinality(later(f)) <= Cardinality(later(e))
        /\ Cardinality(later(f)) = Cardinality(later(e)) => later(f) = later(e)
    BY <1>2, <2>1, FS_Subset
  <2>3. n <= Cardinality(later(f))
    BY <1>4
  <2> QED BY <1>2, <1>5, <2>1, <2>2, <2>3
<1>7. \A f \in Dataset : Time(f) <= Time(e)
  BY <1>1, <1>6
<1> QED BY <1>7

\* After a replay either engine has the rows of the builder's fills.
LEMMA BuilderRowsAre ==
    ASSUME UniqueFills, EnginesInv, ReplayPart, Replayed, NEW builder
    PROVE  BuilderRows(builder) = {e \in BuilderEvents : e.content.builder = builder}
<1>1. EventsPart /\ InOrder
  BY DEF EnginesInv, ReplayPart
<1>2. CASE engine = "rocksdb"
  <2>1. rocks = Fresh
    BY <1>2, WholeLoadIsFresh DEF RerunIsFresh, Replayed, Whole
  <2>2. {w \in Fresh : w.key[1] = "builder"} = {Entry(BuilderKey(e), e) : e \in BuilderEvents}
    BY <1>1, FreshRows
  <2>3. BuilderRows(builder) =
          {w.row : w \in {w \in {Entry(BuilderKey(e), e) : e \in BuilderEvents} : w.key[2] = builder}}
    BY <1>2, <2>1, <2>2 DEF BuilderRows, Stored
  <2>4. \A e : Entry(BuilderKey(e), e).key[2] = e.content.builder /\ Entry(BuilderKey(e), e).row = e
    BY DEF Entry, BuilderKey
  <2>5. \A e \in BuilderRows(builder) : e \in BuilderEvents /\ e.content.builder = builder
    <3> SUFFICES ASSUME NEW e \in BuilderRows(builder)
                 PROVE  e \in BuilderEvents /\ e.content.builder = builder
      OBVIOUS
    <3>1. PICK f \in BuilderEvents :
            Entry(BuilderKey(f), f).key[2] = builder /\ e = Entry(BuilderKey(f), f).row
      BY <2>3
    <3> QED BY <2>4, <3>1
  <2>6. \A e \in BuilderEvents : e.content.builder = builder => e \in BuilderRows(builder)
    <3> SUFFICES ASSUME NEW e \in BuilderEvents, e.content.builder = builder
                 PROVE  e \in BuilderRows(builder)
      OBVIOUS
    <3>1. Entry(BuilderKey(e), e).key[2] = builder
      BY <2>4
    <3>2. Entry(BuilderKey(e), e).row \in BuilderRows(builder)
      BY <2>3, <3>1
    <3> QED BY <2>4, <3>2
  <2> QED BY <2>5, <2>6
<1>3. CASE engine # "rocksdb"
  <2>1. MemoryHolds
    BY <1>3 DEF ReplayPart, EnginesInv, PositionPart, Replayed
  <2>2. memory.builders = BuilderEvents
    BY <2>1, WholeTables DEF Replayed
  <2> QED BY <1>3, <2>2 DEF BuilderRows
<1> QED BY <1>2, <1>3

\* A sequence of all the members of a set has each of them in one place.
LEMMA PlacesOfMembers ==
    ASSUME NEW R, IsFiniteSet(R), NEW s \in SetToSeqs(R)
    PROVE  s \in Bijection(1..Cardinality(R), R)
<1> DEFINE n == Cardinality(R)
<1>1. s \in [1..n -> R] /\ \A i, j \in 1..n : i # j => s[i] # s[j]
  BY DEF SetToSeqs
<1>2. n \in Nat
  BY FS_CardinalityType
<1> HIDE DEF n
<1>3. s \in Injection(1..n, R)
  BY <1>1 DEF Injection, IsInjective
<1>4. IsFiniteSet(1..n) /\ Cardinality(1..n) = n
  <2>1. IsFiniteSet(1..n) /\ Cardinality(1..n) = IF 1 > n THEN 0 ELSE n - 1 + 1
    BY <1>2, FS_Interval
  <2> QED BY <1>2, <2>1
<1>5. s \in Surjection(1..n, R)
  BY <1>3, <1>4, FS_Injection DEF n
<1> QED BY <1>3, <1>5 DEF Bijection, n

\* The volume counts the fills of the window, whatever the order of the rows.
LEMMA CountsAre ==
    ASSUME UniqueFills, EnginesInv, ReplayPart, VersionsPart, Replayed,
           NEW e \in Dataset, IsFill(e), e.content.builder # NoValue,
           NEW duration \in Durations,
           NEW rows \in SetToSeqs(BuilderRows(e.content.builder)), NEW recent,
           recent = RecentFills(e.content.builder, duration)
    PROVE  LET v == Volume(rows, LastTime, duration)
           IN  /\ v.trades = Cardinality(recent)
               /\ v.accounts = Cardinality({f.content.account : f \in recent})
<1> DEFINE builder == e.content.builder
           R == {f \in BuilderEvents : f.content.builder = builder}
           n == Cardinality(R)
           places == Recent(rows, LastTime, duration)
<1>1. EventsPart /\ Happened = Dataset /\ \A f \in Dataset : Time(f) \in Nat /\ Time(f) >= 1
  <2>1. EventsPart /\ Happened = Dataset
    BY DEF EnginesInv, Happened, Dataset, ToSet
  <2>2. ASSUME NEW f \in Dataset PROVE Time(f) >= 1
    <3>1. DOMAIN events = 1..Len(events) /\ Len(events) \in Nat /\ Len(events) <= MaxEvents
      BY <2>1, LenProperties DEF EventsPart
    <3>2. PICK i \in 1..Len(events) : f = events[i]
      BY <3>1 DEF Dataset
    <3>3. f.version \in 1..i
      BY <3>2 DEF VersionsPart
    <3>4. f.version \in 1..MaxEvents
      BY <3>1, <3>3, EngineAssumption
    <3>5. Timestamp(f.version) > 0 /\ Timestamp(f.version) \in Nat
      BY <3>4, EngineAssumption, ReadsAssumption
    <3> QED BY <3>5 DEF Time
  <2> QED BY <2>1, <2>2, TimeIsNumber
<1>2. LastTime \in Nat /\ \A f \in Dataset : Time(f) <= LastTime
  <2>1. \E t \in {Time(f) : f \in Happened} : \A f \in Happened : Time(f) <= t
    BY <1>1, SomeIsLatest
  <2>2. LastTime \in {Time(f) : f \in Happened} /\ \A f \in Happened : Time(f) <= LastTime
    BY <2>1 DEF LastTime
  <2> QED BY <1>1, <2>2
<1>3. duration \in Nat \ {0}
  BY ReadsAssumption
<1>4. R \subseteq Dataset /\ R = {f \in Dataset : IsFill(f) /\ f.content.builder = builder} /\ e \in R
  BY DEF BuilderEvents, Yields
<1>5. IsFiniteSet(R)
  BY <1>1, <1>4, DatasetIsFinite, FS_Subset
<1>6. BuilderRows(builder) = R
  BY BuilderRowsAre
<1>7. rows \in Bijection(1..n, R)
  <2>1. rows \in SetToSeqs(R)
    BY <1>6
  <2> HIDE DEF R
  <2> QED BY <1>5, <2>1, PlacesOfMembers
<1> HIDE DEF R
<1>8. /\ rows \in [1..n -> R] /\ DOMAIN rows = 1..n
      /\ \A f \in R : \E i \in 1..n : rows[i] = f
      /\ \A i, j \in 1..n : rows[i] = rows[j] => i = j
  BY <1>7 DEF Bijection, Injection, Surjection, IsInjective
<1> HIDE DEF n
<1>9. ToSet(rows) = R
  BY <1>8 DEF ToSet
<1>10. places = {i \in 1..n : Time(rows[i]) >= WindowStart(LastTime, duration)}
  <2> DEFINE EndsWindow(t) == t >= LastTime /\ \A f \in ToSet(rows) : t >= Time(f)
  <2>1. \A f \in R : Time(f) \in Nat /\ Time(f) <= LastTime
    BY <1>1, <1>2, <1>4
  <2>2. EndsWindow(LastTime)
    BY <1>2, <1>9, <2>1
  <2>3. \A t \in {LastTime} \cup {Time(f) : f \in ToSet(rows)} : EndsWindow(t) => t = LastTime
    BY <1>2, <1>9, <2>1
  <2> HIDE DEF EndsWindow
  <2>4. (CHOOSE t \in {LastTime} \cup {Time(f) : f \in ToSet(rows)} : EndsWindow(t)) = LastTime
    BY <2>2, <2>3
  <2> QED BY <1>8, <2>4 DEF Recent, EndsWindow
<1>11. \A f \in R : Time(f) >= WindowStart(LastTime, duration) <=> Time(f) + duration > LastTime
  <2> SUFFICES ASSUME NEW f \in R
               PROVE  Time(f) >= WindowStart(LastTime, duration) <=> Time(f) + duration > LastTime
    OBVIOUS
  <2>1. Time(f) \in Nat /\ Time(f) >= 1
    BY <1>1, <1>4
  <2> QED BY <1>2, <1>3, <2>1 DEF WindowStart
<1>12. recent = {f \in R : Time(f) + duration > LastTime}
  BY <1>1, <1>4 DEF RecentFills
<1> HIDE DEF places
<1>13. places \subseteq 1..n /\ recent \subseteq R /\ \A i \in 1..n : i \in places <=> rows[i] \in recent
  BY <1>8, <1>10, <1>11, <1>12
<1>14. IsFiniteSet(recent) /\ Cardinality(places) = Cardinality(recent)
  <2> DEFINE f == [i \in places |-> rows[i]]
  <2>1. f \in [places -> recent] /\ \A i, j \in places : f[i] = f[j] => i = j
    BY <1>8, <1>13
  <2>2. \A g \in recent : \E i \in places : f[i] = g
    BY <1>8, <1>13
  <2> HIDE DEF f
  <2>3. f \in Bijection(places, recent)
    BY <2>1, <2>2 DEF Bijection, Injection, Surjection, IsInjective
  <2>4. IsFiniteSet(1..n) /\ IsFiniteSet(places) /\ IsFiniteSet(recent)
    <3>1. n \in Nat
      BY <1>5, FS_CardinalityType DEF n
    <3>2. IsFiniteSet(1..n)
      BY <3>1, FS_Interval
    <3> QED BY <1>5, <1>13, <3>2, FS_Subset
  <2> QED BY <2>3, <2>4, FS_Bijection DEF ExistsBijection
<1>15. {rows[i].content.account : i \in places} = {f.content.account : f \in recent}
  BY <1>8, <1>13
<1>16. rows # <<>>
  <2>1. PICK i \in 1..n : rows[i] = e
    BY <1>4, <1>8
  <2>2. i \in DOMAIN rows
    BY <1>8
  <2>3. DOMAIN <<>> = {}
    OBVIOUS
  <2> QED BY <2>2, <2>3
<1>17. /\ Volume(rows, LastTime, duration).trades = Cardinality(places)
       /\ Volume(rows, LastTime, duration).accounts = Cardinality({rows[i].content.account : i \in places})
  BY <1>16 DEF Volume, places
<1> QED BY <1>14, <1>15, <1>17

-----------------------------------------------------------------------------
(* The theorems. *)

\* Every step keeps the versions counted.
LEMMA VersionsPartStep == ASSUME EnginesInv, VersionsPart, [Next]_vars PROVE VersionsPart'
<1>1. CASE Normalize
  BY <1>1, VersionsStep DEF EnginesInv
<1>2. CASE ~ Normalize
  <2>1. events' = events
    BY <1>2 DEF Next, Step, Start, RocksStep, MemoryStep, PutFails, EndWarmup, EndRows,
       PutCheckpoint, Report, Kill, RemovePublished, vars
  <2> QED BY <2>1 DEF VersionsPart
<1> QED BY <1>1, <1>2

\* After a replay a reader of either engine finds an order and a position as the last
\* event about them left it, an account's positions by market, and of a market's
\* activities the most recent, each of them once, whatever the limit: although rows are
\* overwritten, the memory engine keeps activities apart from rows, and the two engines
\* sort by different ranks.
THEOREM LatestCorrect ==
    ASSUME UniqueFills, ~ Bench
    PROVE  Spec => []LatestIsRead
<1>1. Init => ReplayPart /\ VersionsPart
  BY EmptySeq DEF Init, Idle, ReplayPart, InOrder, VersionsPart
<1>2. EnginesInv /\ ReplayPart /\ VersionsPart /\ [Next]_vars => ReplayPart' /\ VersionsPart'
  BY ReplayPartStep, VersionsPartStep
<1>3. ASSUME EnginesInv, ReplayPart, VersionsPart PROVE LatestIsRead
  <2> SUFFICES ASSUME Replayed PROVE LatestIsRead
    BY DEF LatestIsRead
  <2>1. Happened = Dataset
    BY DEF Happened, Dataset, ToSet
  <2>2. ASSUME NEW e \in Dataset, e.content.kind = "order"
        PROVE  GetOrder(Id(e)) =
                 {Newest({f \in Happened : f.content.kind = "order" /\ Id(f) = Id(e)})}
    BY <1>3, <2>1, <2>2, OrderIsLatest
  <2>3. ASSUME NEW e \in Dataset, NEW same,
               same = {f \in Happened : /\ f.content.kind = "position"
                                        /\ f.content.account = e.content.account}
        PROVE  LatestByMarket(same, GetPositions(e.content.account))
    <3>1. same = {f \in Dataset : /\ f.content.kind = "position"
                                  /\ f.content.account = e.content.account}
      BY <2>1, <2>3
    <3> QED BY <1>3, <3>1, PositionsAreLatest
  <2>4. ASSUME NEW e \in Dataset, NEW all,
               all = {f \in Happened : /\ f.content.kind # "unknown"
                                       /\ f.content.market = e.content.market},
               NEW limit \in 1..(Cardinality(all) + 1)
        PROVE  MostRecent(all, limit, ScanActivity(e.content.market, limit))
    <3>1. all = {f \in Dataset : f.content.kind # "unknown" /\ f.content.market = e.content.market}
      BY <2>1, <2>4
    <3>2. IsFiniteSet(all)
      BY <1>3, <3>1, MarketActivities DEF EnginesInv
    <3>3. limit \in Nat
      BY <3>2, FS_CardinalityType
    <3> QED BY <1>3, <3>1, <3>3, RocksActivity, MemoryActivity
  <2>5. ASSUME NEW e \in Dataset
        PROVE  LET all == {f \in Happened : /\ f.content.kind # "unknown"
                                            /\ f.content.market = e.content.market}
               IN  \A limit \in 1..(Cardinality(all) + 1) :
                     MostRecent(all, limit, ScanActivity(e.content.market, limit))
    BY <2>4
  <2> QED BY <2>1, <2>2, <2>3, <2>5 DEF LatestIsRead, LatestByMarket, MostRecent
<1> QED BY <1>1, <1>2, <1>3, EnginesInvariance, PTL DEF Spec

\* After a replay a builder's volume counts each of the builder's fills in the window once,
\* and their accounts, whichever engine yields the rows and in whatever order, and whatever
\* the times of the transactions are: the window ends with the latest event of the dataset,
\* which is not earlier than any row.
THEOREM VolumeCountsCorrect ==
    ASSUME UniqueFills, ~ Bench
    PROVE  Spec => []VolumeCounts
<1>1. Init => ReplayPart /\ VersionsPart
  BY EmptySeq DEF Init, Idle, ReplayPart, InOrder, VersionsPart
<1>2. EnginesInv /\ ReplayPart /\ VersionsPart /\ [Next]_vars => ReplayPart' /\ VersionsPart'
  BY ReplayPartStep, VersionsPartStep
<1>3. ASSUME EnginesInv, ReplayPart, VersionsPart PROVE VolumeCounts
  <2>1. Happened = Dataset
    BY DEF Happened, Dataset, ToSet
  <2>2. ASSUME Replayed, NEW e \in Dataset, IsFill(e), e.content.builder # NoValue,
               NEW duration \in Durations, NEW recent,
               recent = RecentFills(e.content.builder, duration),
               NEW rows \in SetToSeqs(BuilderRows(e.content.builder))
        PROVE  LET v == Volume(rows, LastTime, duration)
               IN  /\ v.trades = Cardinality(recent)
                   /\ v.accounts = Cardinality({f.content.account : f \in recent})
    BY <1>3, <2>2, CountsAre
  <2> QED BY <2>1, <2>2 DEF VolumeCounts
<1> QED BY <1>1, <1>2, <1>3, EnginesInvariance, PTL DEF Spec
=============================================================================
