-------------------------------- MODULE Reads --------------------------------
(***************************************************************************)
(* What the storage engines answer beyond the scans of the query corpus:   *)
(* a builder's volume over a time window, summed in decimals, and orders,  *)
(* positions and market activity.  Engines is the loading; here is what a  *)
(* reader finds in the result, which a replay is about to publish as it is *)
(* (PublishedWhole).                                                       *)
(***************************************************************************)
EXTENDS Engines, Sorting, SequencesExt

CONSTANTS
    Notional(_),    \* of an event: a decimal, NoValue, or a text that is none
    Fee(_),         \* estimated_fee_amount, likewise
    NotANumber,     \* a text that parse_decimal refuses
    Durations,      \* of a TimeWindow
    MaxUnits        \* the greatest of the integers that decimals are kept in (i128)

\* A decimal is units / 10^scale, as it was written: the scale counts its digits after
\* the point.
Decimal == [units : Int, scale : Nat]

ASSUME ReadsAssumption ==
    /\ \A c \in Contents : c.kind # "unknown" => c.market \in Int
    /\ \A v \in 1..MaxEvents : Timestamp(v) > 0
    /\ Durations \subseteq Nat \ {0}
    /\ MaxUnits \in Nat \ {0}

-----------------------------------------------------------------------------
(* DecimalAccumulator *)

Magnitude(n) == IF n < 0 THEN -n ELSE n

\* Digits that the integer type cannot hold are not a number either.
Parsed(text) ==
    text \notin {NoValue, NotANumber} /\ Magnitude(text.units) <= MaxUnits

\* The release build wraps around.
Wrapped(n) == ((n + MaxUnits + 1) % (2 * (MaxUnits + 1))) - (MaxUnits + 1)

Zero == [units |-> 0, scale |-> 0]

Larger(a, b) == IF a < b THEN b ELSE a

Aligned(d, scale) == d.units * 10^(scale - d.scale)

Add_Unaligned(sum, text) ==
    IF ~ Parsed(text) THEN sum
    ELSE [units |-> Wrapped(sum.units + text.units),
          scale |-> Larger(sum.scale, text.scale)]

\* DecimalAccumulator::add skips what it cannot parse.
Add(sum, text) ==
    IF ~ Parsed(text) THEN sum
    ELSE LET scale == Larger(sum.scale, text.scale)
         IN  [units |-> Wrapped(Aligned(sum, scale) + Aligned(text, scale)),
              scale |-> scale]

\* Its Display: no zeros at the end of the fraction.
Shown(d) ==
    LET zeros == {k \in 0..d.scale : d.units % (10^k) = 0}
        most == CHOOSE k \in zeros : \A j \in zeros : j <= k
    IN  [units |-> d.units \div (10^most), scale |-> d.scale - most]

Total(texts) == Shown(FoldLeft(Add, Zero, texts))

-----------------------------------------------------------------------------
(* get_builder_code_volume: the rows, in the order the engine has them,    *)
(* and the time of the last checkpoint.                                    *)

WindowStart_OneEarly(end, duration) == IF end < duration THEN 1 ELSE end - duration

\* saturating_sub and saturating_add
WindowStart(end, duration) == IF end < duration THEN 1 ELSE end - duration + 1

\* The places of the rows in the window.
Recent(rows, last, duration) ==
    LET end == CHOOSE t \in {last} \cup {Time(e) : e \in ToSet(rows)} :
                   t >= last /\ \A e \in ToSet(rows) : t >= Time(e)
    IN  {i \in DOMAIN rows : Time(rows[i]) >= WindowStart(end, duration)}

Volume(rows, last, duration) ==
    IF rows = <<>> THEN NoValue
    ELSE LET recent == Recent(rows, last, duration)
             notionals == [i \in DOMAIN rows |->
                               IF i \in recent THEN Notional(rows[i]) ELSE NoValue]
             fees == [i \in DOMAIN rows |-> IF i \in recent THEN Fee(rows[i]) ELSE NoValue]
         IN  [trades |-> Cardinality(recent),
              accounts |-> Cardinality({rows[i].content.account : i \in recent}),
              notional |-> Total(notionals),
              fee |-> IF \A i \in DOMAIN rows : fees[i] = NoValue THEN NoValue
                      ELSE Total(fees)]

-----------------------------------------------------------------------------
(* Reads of the loaded engine. *)

Stored(family, of) ==
    {w.row : w \in {w \in (IF engine = "rocksdb" THEN rocks ELSE memory.plain) :
        w.key[1] = family /\ w.key[2] = of}}

BuilderRows(builder) ==
    IF engine = "rocksdb" THEN Stored("builder", builder)
    ELSE {e \in memory.builders : e.content.builder = builder}

\* get_order
GetOrder(id) == Stored("order", id)

\* get_positions_by_account: by market, in both engines.
GetPositions(account) ==
    Sorted([e \in Stored("position", account) |-> <<e.content.market>>])

\* The names of the activity types in the order of their letters.
TypeRank(e) == CASE e.content.kind = "fill" -> 1
                 [] e.content.kind = "notice" -> 2
                 [] e.content.kind = "order" -> 3
                 [] OTHER -> 4

ActivityOrder_TypeFirst(e) ==
    IF engine = "rocksdb" THEN <<TypeRank(e), -Time(e), e.version, e.idx>>
    ELSE <<-Time(e), e.version, e.idx>>

\* The rest of market_activity's key; the sort of MemoryEngine::scan_market_activity.
ActivityOrder(e) ==
    IF engine = "rocksdb" THEN <<-Time(e), TypeRank(e), e.version, e.idx>>
    ELSE <<-Time(e), e.version, e.idx>>

\* scan_market_activity.  The memory engine's activities may be there more often than once;
\* its sort leaves those in the order in which they were pushed.
ScanActivity(market, limit) ==
    IF engine = "rocksdb"
    THEN FirstOf([e \in Stored("activity", market) |-> ActivityOrder(e)], limit)
    ELSE LET pushed == memory.activities
             those == {i \in DOMAIN pushed : pushed[i].content.market = market}
             found == FirstOf([i \in those |-> Append(ActivityOrder(pushed[i]), i)], limit)
         IN  [k \in DOMAIN found |-> pushed[found[k]]]

-----------------------------------------------------------------------------
(* Properties: what a reader finds after a replay. *)

Replayed == pc = "report" /\ Whole /\ errors = 0

Happened == ToSet(events)

\* dataset_last_processed_timestamp_us, which the replay's checkpoint carries.
LastTime ==
    CHOOSE t \in {Time(e) : e \in Happened} : \A e \in Happened : Time(e) <= t

\* The sum of a field over events, in units of the finest of the scales.
Finest(texts) ==
    FoldLeft(LAMBDA scale, text : IF Parsed(text) THEN Larger(scale, text.scale) ELSE scale,
             0, texts)

Exact(texts) ==
    FoldLeft(LAMBDA sum, text : IF Parsed(text) THEN sum + Aligned(text, Finest(texts))
                                ELSE sum,
             0, texts)

\* What is shown is the sum, and in one form only.
IsExactly(shown, texts) ==
    Magnitude(Exact(texts)) <= MaxUnits =>
        /\ Aligned(shown, Finest(texts)) = Exact(texts)
        /\ shown.scale > 0 => shown.units % 10 # 0

RecentFills(builder, duration) ==
    {f \in Happened : /\ IsFill(f)
                      /\ f.content.builder = builder
                      /\ Time(f) + duration > LastTime}

\* A builder's volume counts exactly the fills of the builder that the dataset has in the
\* window that ends with its latest event, and their accounts, in either engine and in
\* whatever order it yields the rows.
VolumeCounts ==
    Replayed =>
        \A e \in Happened, duration \in Durations :
            IsFill(e) /\ e.content.builder # NoValue =>
                LET builder == e.content.builder
                    recent == RecentFills(builder, duration)
                IN  \A rows \in SetToSeqs(BuilderRows(builder)) :
                        LET v == Volume(rows, LastTime, duration)
                        IN  /\ v.trades = Cardinality(recent)
                            /\ v.accounts = Cardinality({f.content.account : f \in recent})

\* Its sums over those fills are exact, in whatever order the engine yields the rows, so
\* that either engine gives the same answer; a sum whose units do not fit the type is
\* excepted.
VolumeExact ==
    Replayed =>
        \A e \in Happened, duration \in Durations :
            IsFill(e) /\ e.content.builder # NoValue =>
                LET builder == e.content.builder
                    recent == RecentFills(builder, duration)
                    fees == {f \in recent : Fee(f) # NoValue}
                IN  \A rows \in SetToSeqs(BuilderRows(builder)) :
                        LET v == Volume(rows, LastTime, duration)
                            seq == SetToSeq(recent)
                            feeSeq == SetToSeq(fees)
                        IN  /\ IsExactly(v.notional,
                                         [i \in DOMAIN seq |-> Notional(seq[i])])
                            /\ (v.fee = NoValue) = (fees = {})
                            /\ fees # {} =>
                                 IsExactly(v.fee, [i \in DOMAIN feeSeq |-> Fee(feeSeq[i])])

Newest(those) == CHOOSE e \in those : \A f \in those :
    f.version < e.version \/ (f.version = e.version /\ f.idx <= e.idx)

\* In either engine an order and a position are those of the last event about them, and an
\* activity scan yields the market's most recent activities, each of them once.
LatestIsRead ==
    Replayed =>
        \A e \in Happened :
            /\ e.content.kind = "order" =>
                 GetOrder(Id(e)) =
                     {Newest({f \in Happened : f.content.kind = "order" /\ Id(f) = Id(e)})}
            /\ e.content.kind = "position" =>
                 LET found == GetPositions(e.content.account)
                     same == {f \in Happened : /\ f.content.kind = "position"
                                               /\ f.content.account = e.content.account}
                 IN  /\ ToSet(found) =
                          {Newest({f \in same : f.content.market = g.content.market}) :
                               g \in same}
                     /\ \A i \in 1..(Len(found) - 1) :
                          found[i].content.market < found[i + 1].content.market
            /\ e.content.kind \in {"fill", "order", "position", "notice"} =>
                 LET market == e.content.market
                     all == {f \in Happened : f.content.kind # "unknown"
                                              /\ f.content.market = market}
                 IN  \A limit \in 1..(Cardinality(all) + 1) :
                       LET found == ScanActivity(market, limit)
                           rest == all \ ToSet(found)
                       IN  /\ Len(found) = IF limit < Cardinality(all) THEN limit
                                           ELSE Cardinality(all)
                           /\ Cardinality(ToSet(found)) = Len(found)
                           /\ ToSet(found) \subseteq all
                           /\ \A i \in 1..(Len(found) - 1) :
                                Time(found[i]) >= Time(found[i + 1])
                           /\ \A f \in rest, g \in ToSet(found) : Time(f) <= Time(g)
=============================================================================
