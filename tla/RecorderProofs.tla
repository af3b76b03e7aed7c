--------------------------- MODULE RecorderProofs ---------------------------
(***************************************************************************)
(* Theorems about Recorder, for every range, chunk size, byte limit, retry *)
(* count and set of faults.                                                *)
(***************************************************************************)
EXTENDS Recorder, TLAPS

\* While no checkpoint exists the chunk names themselves chain up to a version, so
\* that the cursor can be read off them.
NamesChain ==
    ~ ckpt.exists => \E n \in FirstVersion..(EndVersion + 1) : Splits(chunks, n)

\* What a running recorder knows: its list splits the versions up to the open
\* chunk, is on disk, and differs from the checkpoint's only between the rename of
\* a chunk and the checkpoint that lists it.
ListSound ==
    pc # "down" =>
        /\ list \subseteq chunks
        /\ Splits(list, active)
        /\ from <= active
        /\ active <= last + 1
        /\ ckpt.exists => ckpt.next <= active
        /\ ~ ckpt.exists => list = chunks
        /\ pc \in {"stream", "finish"} /\ ckpt.exists => list = ckpt.list
        /\ pc # "stream" => from <= last
        /\ pc = "finish" /\ goal = "chunk" => active <= last
        /\ pc \in {"keys", "corpus", "save", "done"} => active = last + 1
        /\ pc \in {"keys", "corpus", "done"} => goal # "chunk"
        /\ pc = "done" => /\ ckpt.exists
                          /\ ckpt.next = last + 1
                          /\ ckpt.list = list

\* Without orphans every key file lies behind the attempt that is about to write
\* its own.
KeysBehind ==
    /\ Orphans = {}
    /\ \/ pc \in {"stream", "finish", "keys"}
       \/ pc = "save" /\ goal = "chunk"
    => \A k \in keyFiles : k.last < from

KeysOrdered == \A k \in keyFiles : k.first <= k.last

BytesLeft == pc = "stream" => spent + got < MaxRawBytes

\* The inductive invariant.
IInv ==
    /\ TypeOK
    /\ CheckpointSound
    /\ NamesChain
    /\ ListSound
    /\ KeysOrdered
    /\ QueryKeysStored
    /\ KeysBehind
    /\ BytesLeft
    /\ ByteBudget

-----------------------------------------------------------------------------
(* Lemmas about sets of chunks. *)

\* The bound of a split is unique: it is what the chunk names say.
LEMMA SplitBound ==
    ASSUME NEW S \in SUBSET Range,
           NEW n \in FirstVersion..(EndVersion + 1),
           Splits(S, n)
    PROVE  n = (IF S # {} THEN MaxLast(S) + 1 ELSE FirstVersion)
<1> USE RangeAssumption
<1>1. CASE S = {}
  <2>1. ~ \E v \in FirstVersion..(n - 1) : TRUE
    BY <1>1 DEF Splits
  <2>2. n <= FirstVersion
    <3> SUFFICES ASSUME n > FirstVersion PROVE FALSE
      OBVIOUS
    <3>1. FirstVersion \in FirstVersion..(n - 1)
      OBVIOUS
    <3> QED BY <3>1, <2>1
  <2> QED BY <1>1, <2>2
<1>2. CASE S # {}
  <2>1. PICK c \in S : TRUE
    BY <1>2
  <2>2. n - 1 \in FirstVersion..(n - 1)
    BY <2>1 DEF Splits, Range
  <2>3. PICK d \in S : In(n - 1, d)
    BY <2>2 DEF Splits
  <2>4. d.last = n - 1
    <3>1. d.last \in Int /\ n \in Int /\ d.last < n
      BY DEF Splits, Range
    <3>2. n - 1 <= d.last
      BY <2>3 DEF In
    <3> QED BY <3>1, <3>2
  <2>5. \A e \in S : e.last <= n - 1
    BY DEF Splits, Range
  <2>6. n - 1 \in {e.last : e \in S} /\ \A e \in S : e.last <= n - 1
    BY <2>4, <2>5
  <2>7. /\ MaxLast(S) \in {e.last : e \in S}
        /\ \A e \in S : e.last <= MaxLast(S)
    BY <2>6 DEF MaxLast
  <2>8. MaxLast(S) <= n - 1 /\ d.last <= MaxLast(S)
    BY <2>5, <2>7
  <2>9. MaxLast(S) \in Int
    BY <2>7 DEF Range
  <2> QED BY <1>2, <2>4, <2>8, <2>9
<1> QED BY <1>1, <1>2

\* Chunks that split a prefix have names that chain.
LEMMA SplitContiguous ==
    ASSUME NEW S \in SUBSET Range,
           NEW n \in FirstVersion..(EndVersion + 1),
           Splits(S, n)
    PROVE  Contiguous(S)
<1> USE RangeAssumption
<1>1. \A c \in S : c.first <= c.last
  BY DEF Splits
<1>2. ASSUME NEW c \in S, NEW d \in S, Before(c, d),
             ~ \E e \in S : Before(c, e) /\ Before(e, d)
      PROVE  d.first = c.last + 1
  <2>1. /\ c.first \in VersionSet /\ c.last \in VersionSet
        /\ d.first \in VersionSet /\ d.last \in VersionSet
        /\ c.first <= c.last /\ d.first <= d.last /\ d.last < n
    BY DEF Splits, Range, VersionSet
  <2>2. c # d
    BY <1>2, <2>1 DEF Before, VersionSet
  <2>3. ~ (In(d.first, c) /\ In(d.first, d))
    BY <2>1, <2>2 DEF Splits
  <2>4. c.last < d.first
    BY <1>2, <2>1, <2>3 DEF Before, In, VersionSet
  <2>5. ASSUME c.last + 1 < d.first PROVE FALSE
    <3>1. c.last + 1 \in FirstVersion..(n - 1)
      BY <2>1, <2>5 DEF VersionSet
    <3>2. PICK e \in S : In(c.last + 1, e)
      BY <3>1 DEF Splits
    <3>3. e.first \in VersionSet /\ e.last \in VersionSet
      BY DEF Range, VersionSet
    <3>4. e # c
      BY <2>1, <3>2, <3>3 DEF In, VersionSet
    <3>5. ~ (In(c.last, e) /\ In(c.last, c))
      BY <2>1, <3>4 DEF Splits
    <3>6. c.last < e.first
      BY <2>1, <3>2, <3>3, <3>5 DEF In, VersionSet
    <3>7. Before(c, e) /\ Before(e, d)
      BY <2>1, <2>5, <3>2, <3>3, <3>6 DEF Before, In, VersionSet
    <3> QED BY <3>7, <1>2
  <2> QED BY <2>1, <2>4, <2>5 DEF VersionSet
<1> QED BY <1>1, <1>2 DEF Contiguous

\* Appending the open chunk extends the split to the versions it holds.
LEMMA SplitExtend ==
    ASSUME NEW S \in SUBSET Range, NEW a \in VersionSet, NEW b \in VersionSet,
           a <= b,
           Splits(S, a)
    PROVE  /\ Splits(S \cup {Chunk(a, b)}, b + 1)
           /\ S \cup {Chunk(a, b)} \subseteq Range
<1> USE RangeAssumption
<1> DEFINE T == S \cup {Chunk(a, b)}
<1>1. Chunk(a, b) \in Range /\ Chunk(a, b).first = a /\ Chunk(a, b).last = b
  BY DEF Chunk, Range, VersionSet
<1>2. \A c \in S : /\ c.first \in VersionSet /\ c.last \in VersionSet
                   /\ FirstVersion <= c.first /\ c.first <= c.last /\ c.last < a
  BY DEF Splits, Range, VersionSet
<1>3. \A c \in T : FirstVersion <= c.first /\ c.first <= c.last /\ c.last < b + 1
  BY <1>1, <1>2 DEF VersionSet
<1>4. ASSUME NEW v \in FirstVersion..b PROVE \E c \in T : In(v, c)
  <2>1. CASE v < a
    <3>1. v \in FirstVersion..(a - 1)
      BY <2>1 DEF VersionSet
    <3> QED BY <3>1 DEF Splits
  <2>2. CASE v >= a
    BY <2>2, <1>1 DEF In, VersionSet
  <2> QED BY <2>1, <2>2 DEF VersionSet
<1>5. ASSUME NEW c \in T, NEW d \in T, NEW v \in VersionSet, In(v, c), In(v, d)
      PROVE  c = d
  <2>1. CASE c \in S /\ d \in S
    BY <2>1, <1>5 DEF Splits
  <2>2. CASE c \in S /\ d = Chunk(a, b)
    BY <2>2, <1>1, <1>2, <1>5 DEF In, VersionSet
  <2>3. CASE c = Chunk(a, b) /\ d \in S
    BY <2>3, <1>1, <1>2, <1>5 DEF In, VersionSet
  <2> QED BY <2>1, <2>2, <2>3
<1>6. (b + 1) - 1 = b
  BY DEF VersionSet
<1>7. Splits(T, b + 1)
  <2>1. \A v \in FirstVersion..((b + 1) - 1) : \E c \in T : In(v, c)
    BY <1>4, <1>6
  <2>2. \A c, d \in T : (\E v \in VersionSet : In(v, c) /\ In(v, d)) => c = d
    BY <1>5
  <2> HIDE DEF T
  <2> QED BY <1>3, <2>1, <2>2 DEF Splits
<1> QED BY <1>1, <1>7

\* What a split covers.
LEMMA SplitCovers ==
    ASSUME NEW S \in SUBSET Range,
           NEW n \in FirstVersion..(EndVersion + 1),
           Splits(S, n), S \subseteq chunks
    PROVE  \A v \in FirstVersion..(n - 1) : Stored(v)
BY DEF Splits, Stored

\* No chunks split the empty range.
LEMMA SplitEmpty == Splits({}, FirstVersion)
BY RangeAssumption DEF Splits

-----------------------------------------------------------------------------
(* Lemmas about the archive. *)

\* What a process would resume from is sound, with or without a checkpoint.
LEMMA ResumeSound ==
    ASSUME TypeOK, CheckpointSound, NamesChain
    PROVE  /\ ResumeCursor \in FirstVersion..(EndVersion + 1)
           /\ ResumeList \subseteq chunks
           /\ ResumeList \subseteq Range
           /\ Splits(ResumeList, ResumeCursor)
<1>1. CASE ckpt.exists
  BY <1>1 DEF TypeOK, CheckpointSound, ResumeCursor, ResumeList
<1>2. CASE ~ ckpt.exists
  <2>1. PICK n \in FirstVersion..(EndVersion + 1) : Splits(chunks, n)
    BY <1>2 DEF NamesChain
  <2>2. chunks \in SUBSET Range
    BY DEF TypeOK
  <2>3. ResumeCursor = n
    BY <1>2, <2>1, <2>2, SplitBound DEF ResumeCursor
  <2> QED BY <1>2, <2>1, <2>2, <2>3 DEF ResumeList
<1> QED BY <1>1, <1>2

\* Key files lie below whatever the completed chunks split.
LEMMA KeysBelow ==
    ASSUME TypeOK, QueryKeysStored, KeysOrdered,
           NEW n \in FirstVersion..(EndVersion + 1),
           Splits(chunks, n)
    PROVE  \A k \in keyFiles : k.last < n
<1> SUFFICES ASSUME NEW k \in keyFiles PROVE k.last < n
  OBVIOUS
<1>1. k.first \in Int /\ k.last \in Int /\ n \in Int
  BY RangeAssumption DEF TypeOK, Range
<1>2. k.last \in k.first..k.last
  BY <1>1 DEF KeysOrdered
<1>3. PICK c \in chunks : In(k.last, c)
  BY <1>2 DEF QueryKeysStored, Stored
<1>4. c.last \in Int /\ c.last < n
  BY RangeAssumption DEF Splits, TypeOK, Range
<1> QED BY <1>1, <1>3, <1>4 DEF In

\* A process that stops leaves a sound directory.
LEMMA StopInv ==
    ASSUME IInv,
           NEW status \in {"ok", "error", "crash"},
           Stop(status), UNCHANGED diskVars, faults' \in 0..MaxFaults
    PROVE  IInv'
<1> USE DEF IInv
<1>1. TypeOK'
  BY RangeAssumption, OptionAssumption DEF Stop, TypeOK, diskVars, Idle, VersionSet
<1>2. CheckpointSound' /\ NamesChain'
  BY DEF CheckpointSound, NamesChain, diskVars
<1>3. KeysOrdered' /\ QueryKeysStored'
  BY DEF KeysOrdered, QueryKeysStored, Stored, diskVars
<1>4. ListSound' /\ KeysBehind' /\ BytesLeft'
  BY DEF Stop, ListSound, KeysBehind, BytesLeft
<1>5. ByteBudget'
  BY OptionAssumption DEF Stop, ByteBudget
<1> QED BY <1>1, <1>2, <1>3, <1>4, <1>5

-----------------------------------------------------------------------------
(* The invariant. *)

\* The initial state satisfies the invariant.
LEMMA InvInit == Init => IInv
<1> SUFFICES ASSUME Init PROVE IInv
  OBVIOUS
<1> USE RangeAssumption, OptionAssumption DEF Init, Idle
<1>1. TypeOK
  BY DEF TypeOK, Range, Chunk, VersionSet
<1>2. CheckpointSound /\ ListSound /\ KeysOrdered /\ KeysBehind /\ BytesLeft
  BY DEF CheckpointSound, ListSound, KeysOrdered, KeysBehind, BytesLeft
<1>3. NamesChain
  BY SplitEmpty DEF NamesChain
<1>4. QueryKeysStored
  BY DEF QueryKeysStored, Chunk
<1>5. ByteBudget
  <2>1. PICK b \in TxBytes : TRUE
    OBVIOUS
  <2>2. spent + got = 0 /\ 0 < MaxRawBytes + b
    OBVIOUS
  <2> QED BY <2>2 DEF ByteBudget
<1> QED BY <1>1, <1>2, <1>3, <1>4, <1>5 DEF IInv

\* A process starts, anew or from what it finds.
LEMMA LaunchInv == ASSUME IInv, Launch PROVE IInv'
<1> USE DEF IInv
<1> USE RangeAssumption, OptionAssumption
<1>1. /\ ResumeCursor \in FirstVersion..EndVersion
      /\ ResumeList \subseteq chunks
      /\ ResumeList \subseteq Range
      /\ Splits(ResumeList, ResumeCursor)
  BY ResumeSound DEF Launch, StartVersion
<1>2. /\ UNCHANGED diskVars
      /\ pc' = "stream" /\ goal' = "chunk"
      /\ from' = ResumeCursor /\ last' = ResumeCursor - 1
      /\ active' = ResumeCursor /\ list' = ResumeList
      /\ got' = 0 /\ spent' = 0
  BY DEF Launch, Open, StartVersion
<1>3. TypeOK'
  BY <1>1, <1>2 DEF Launch, TypeOK, diskVars, VersionSet
<1>4. CheckpointSound' /\ NamesChain'
  BY <1>2 DEF CheckpointSound, NamesChain, diskVars
<1>5. KeysOrdered' /\ QueryKeysStored'
  BY <1>2 DEF KeysOrdered, QueryKeysStored, Stored, diskVars
<1>6. ListSound'
  <2>1. ckpt.exists => ckpt.next = ResumeCursor /\ ckpt.list = ResumeList
    BY DEF ResumeCursor, ResumeList
  <2>2. ~ ckpt.exists => ResumeList = chunks
    BY DEF ResumeList
  <2> QED BY <1>1, <1>2, <2>1, <2>2 DEF ListSound, diskVars
<1>7. KeysBehind'
  <2> SUFFICES ASSUME Orphans' = {} PROVE \A k \in keyFiles : k.last < ResumeCursor
    BY <1>2 DEF KeysBehind, diskVars
  <2>1. ResumeList = chunks
    BY <1>1, <1>2 DEF Orphans, diskVars
  <2> QED BY <1>1, <2>1, KeysBelow
<1>8. BytesLeft' /\ ByteBudget'
  BY <1>2 DEF BytesLeft, ByteBudget
<1> QED BY <1>3, <1>4, <1>5, <1>6, <1>7, <1>8

\* A transaction is received.
LEMMA ReceiveInv == ASSUME IInv, Receive PROVE IInv'
<1> USE DEF IInv
<1> USE RangeAssumption, OptionAssumption
<1>1. /\ UNCHANGED <<diskVars, from, active, list, full, spent, retries, exit, faults>>
      /\ pc = "stream" /\ last < EndVersion /\ last' = last + 1
  BY DEF Receive
<1>2. PICK b \in TxBytes : got' = got + b
  BY DEF Receive
<1>3. pc' \in {"stream", "finish"} /\ goal' \in {goal, "chunk", "final"}
  BY <1>1 DEF Receive
<1>4. TypeOK'
  BY <1>1, <1>2, <1>3 DEF TypeOK, diskVars, VersionSet
<1>5. CheckpointSound' /\ NamesChain'
  BY <1>1 DEF CheckpointSound, NamesChain, diskVars
<1>6. KeysOrdered' /\ QueryKeysStored'
  BY <1>1 DEF KeysOrdered, QueryKeysStored, Stored, diskVars
<1>7. ListSound'
  <2>1. from <= active /\ active <= last + 1 /\ list \subseteq chunks
    BY <1>1 DEF ListSound
  <2>2. /\ ckpt.exists => ckpt.next <= active /\ list = ckpt.list
        /\ ~ ckpt.exists => list = chunks
        /\ Splits(list, active)
    BY <1>1 DEF ListSound
  <2>3. from \in Int /\ active \in Int /\ last \in Int
    BY DEF TypeOK, VersionSet
  <2>4. active <= last' + 1 /\ from <= last' /\ active <= last'
    BY <1>1, <2>1, <2>3
  <2> QED BY <1>1, <1>3, <2>1, <2>2, <2>4 DEF ListSound, diskVars
<1>8. KeysBehind'
  BY <1>1, <1>3 DEF KeysBehind, Orphans, diskVars
<1>9. ByteBudget'
  <2>1. spent + got < MaxRawBytes /\ spent \in Nat /\ got \in Nat /\ b \in Nat
    BY <1>1 DEF BytesLeft, TypeOK
  <2>2. spent' + got' < MaxRawBytes + b
    BY <1>1, <1>2, <2>1
  <2> QED BY <2>2 DEF ByteBudget
<1>10. BytesLeft'
  <2> SUFFICES ASSUME pc' = "stream" PROVE spent + got' < MaxRawBytes
    BY <1>1 DEF BytesLeft
  <2> DEFINE g == got'
  <2>1. ~ (g >= MaxRawBytes - spent)
    BY <1>1 DEF Receive, LimitReached
  <2>2. spent \in Int /\ g \in Int /\ MaxRawBytes \in Int
    BY <1>1, <1>4 DEF TypeOK
  <2>3. spent + g < MaxRawBytes
    <3> HIDE DEF g
    <3> QED BY <2>1, <2>2
  <2> QED BY <2>3
<1> QED BY <1>4, <1>5, <1>6, <1>7, <1>8, <1>9, <1>10

\* A planned run writes its checkpoint only.
LEMMA PlanInv == ASSUME IInv, Plan PROVE IInv'
<1> USE DEF IInv
<1>1. /\ ckpt' = [exists |-> TRUE, next |-> ResumeCursor, list |-> ResumeList]
      /\ UNCHANGED <<chunks, keyFiles, corpus, procVars, exit, faults>>
      /\ pc = "down"
  BY DEF Plan
<1>2. TypeOK'
  BY <1>1, ResumeSound DEF TypeOK, procVars, Idle
<1>3. CheckpointSound' /\ NamesChain'
  BY <1>1, ResumeSound DEF CheckpointSound, NamesChain
<1>4. KeysOrdered' /\ QueryKeysStored'
  BY <1>1 DEF KeysOrdered, QueryKeysStored, Stored
<1>5. ListSound' /\ KeysBehind' /\ BytesLeft' /\ ByteBudget'
  BY <1>1 DEF ListSound, KeysBehind, BytesLeft, ByteBudget, procVars
<1> QED BY <1>2, <1>3, <1>4, <1>5

\* A launch that is refused changes no file.
LEMMA LaunchRefusedInv == ASSUME IInv, LaunchRefused PROVE IInv'
<1> USE DEF IInv, LaunchRefused, diskVars, procVars
<1>1. TypeOK'
  BY DEF TypeOK, Idle
<1>2. CheckpointSound' /\ NamesChain' /\ KeysOrdered' /\ QueryKeysStored'
  BY DEF CheckpointSound, NamesChain, KeysOrdered, QueryKeysStored, Stored
<1>3. ListSound' /\ KeysBehind' /\ BytesLeft' /\ ByteBudget'
  BY DEF ListSound, KeysBehind, BytesLeft, ByteBudget
<1> QED BY <1>1, <1>2, <1>3

\* A stream ends, or fails.
LEMMA AfterStreamInv ==
    ASSUME IInv, pc = "stream",
           NEW why \in {"final", "interrupt"}, AfterStream(why),
           UNCHANGED diskVars, faults' \in 0..MaxFaults
    PROVE  IInv'
<1> USE DEF IInv
<1>1. CASE Stop("error")
  BY <1>1, StopInv
<1>2. CASE /\ last >= from
           /\ pc' = "finish"
           /\ goal' = why
           /\ UNCHANGED <<from, last, active, list, full, got, spent, retries, exit>>
  <2>1. TypeOK'
    BY <1>2 DEF TypeOK, diskVars
  <2>2. CheckpointSound' /\ NamesChain' /\ KeysOrdered' /\ QueryKeysStored'
    BY DEF CheckpointSound, NamesChain, KeysOrdered, QueryKeysStored, Stored, diskVars
  <2>3. from \in Int /\ last \in Int
    BY RangeAssumption DEF TypeOK, VersionSet
  <2>4. ListSound'
    BY <1>2, <2>3 DEF ListSound, diskVars
  <2>5. KeysBehind' /\ BytesLeft' /\ ByteBudget'
    BY <1>2 DEF KeysBehind, Orphans, BytesLeft, ByteBudget, diskVars
  <2> QED BY <2>1, <2>2, <2>4, <2>5
<1> QED BY <1>1, <1>2 DEF AfterStream

\* An attempt ends without an open chunk.
LEMMA NoChunkInv == ASSUME IInv, NoChunk PROVE IInv'
<1> USE DEF IInv
<1>1. /\ UNCHANGED <<diskVars, goal, from, last, active, list, full, got, spent,
                     retries, exit, faults>>
      /\ pc = "finish" /\ active > last
  BY DEF NoChunk
<1>2. active \in Int /\ last \in Int
  BY RangeAssumption DEF TypeOK
<1>3. goal # "chunk" /\ active = last + 1 /\ pc' = "keys"
  BY <1>1, <1>2 DEF ListSound, NoChunk, AfterChunk
<1>4. TypeOK'
  BY <1>1, <1>3 DEF TypeOK, diskVars
<1>5. CheckpointSound' /\ NamesChain' /\ KeysOrdered' /\ QueryKeysStored'
  BY <1>1 DEF CheckpointSound, NamesChain, KeysOrdered, QueryKeysStored, Stored,
              diskVars
<1>6. ListSound'
  BY <1>1, <1>3 DEF ListSound, diskVars
<1>7. KeysBehind' /\ BytesLeft' /\ ByteBudget'
  BY <1>1, <1>3 DEF KeysBehind, Orphans, BytesLeft, ByteBudget, diskVars
<1> QED BY <1>4, <1>5, <1>6, <1>7

\* A chunk is put in its place.
LEMMA FinishChunkInv == ASSUME IInv, FinishChunk PROVE IInv'
<1> USE DEF IInv
<1> DEFINE new == Chunk(active, last)
<1>1. /\ pc = "finish" /\ active <= last /\ new \notin chunks
      /\ chunks' = chunks \cup {new} /\ list' = list \cup {new}
      /\ active' = last + 1 /\ pc' = AfterChunk
      /\ UNCHANGED <<ckpt, keyFiles, corpus, goal, from, last, full, got, spent,
                     retries, exit, faults>>
  BY DEF FinishChunk
<1>2. active \in VersionSet /\ last \in VersionSet
  BY <1>1, RangeAssumption DEF TypeOK, VersionSet
<1>3. /\ list \in SUBSET Range /\ list \subseteq chunks /\ Splits(list, active)
      /\ from <= last
  BY <1>1 DEF ListSound, TypeOK
<1>4. Splits(list', last + 1) /\ new \in Range
  BY <1>1, <1>2, <1>3, SplitExtend
<1>5. pc' \in {"save", "keys"} /\ (pc' = "save" <=> goal = "chunk")
  BY <1>1 DEF AfterChunk
<1> HIDE DEF new
<1>6. TypeOK'
  BY <1>1, <1>2, <1>4, <1>5, RangeAssumption DEF TypeOK, VersionSet
<1>7. CheckpointSound'
  BY <1>1 DEF CheckpointSound
<1>8. NamesChain'
  <2> SUFFICES ASSUME ~ ckpt.exists
               PROVE  Splits(chunks', last + 1) /\ last + 1 \in FirstVersion..(EndVersion + 1)
    BY <1>1 DEF NamesChain
  <2>1. chunks' = list'
    BY <1>1 DEF ListSound
  <2> QED BY <2>1, <1>2, <1>4, RangeAssumption DEF VersionSet
<1>9. KeysOrdered' /\ QueryKeysStored'
  BY <1>1 DEF KeysOrdered, QueryKeysStored, Stored
<1>10. ListSound'
  <2>1. ckpt.exists => ckpt.next <= active'
    <3>1. ckpt.exists => ckpt.next <= active /\ ckpt.next \in Int
      BY <1>1, RangeAssumption DEF ListSound, TypeOK
    <3> QED BY <3>1, <1>1, <1>2 DEF VersionSet
  <2>2. from <= active' /\ active' <= last + 1 /\ from \in Int
    BY <1>1, <1>2, <1>3, RangeAssumption DEF TypeOK, VersionSet
  <2>3. ~ ckpt.exists => list' = chunks'
    BY <1>1 DEF ListSound
  <2> QED BY <1>1, <1>3, <1>4, <1>5, <2>1, <2>2, <2>3 DEF ListSound
<1>11. KeysBehind'
  <2> SUFFICES ASSUME Orphans' = {} PROVE Orphans = {}
    BY <1>1, <1>5 DEF KeysBehind
  <2>1. chunks' \subseteq list'
    BY <1>1, <1>5 DEF Orphans
  <2>2. chunks \subseteq list
    BY <2>1, <1>1
  <2> QED BY <2>2, <1>1 DEF Orphans
<1>12. BytesLeft' /\ ByteBudget'
  BY <1>1, <1>5 DEF BytesLeft, ByteBudget
<1> QED BY <1>6, <1>7, <1>8, <1>9, <1>10, <1>11, <1>12

\* The key file of an attempt is put in its place.
LEMMA FinishKeysInv == ASSUME IInv, FinishKeys PROVE IInv'
<1> USE DEF IInv
<1>1. CASE Stop("error") /\ UNCHANGED keyFiles
  <2>1. faults' \in 0..MaxFaults
    BY DEF FinishKeys, TypeOK
  <2> QED BY <1>1, <2>1, StopInv DEF FinishKeys, diskVars
<1>2. CASE /\ keyFiles' = keyFiles \cup {Chunk(from, last)}
           /\ pc' = "corpus"
           /\ UNCHANGED <<goal, from, last, active, list, full, got, spent, retries, exit>>
  <2> USE <1>2
  <2>1. pc = "keys" /\ UNCHANGED <<chunks, ckpt, corpus, faults>>
    BY DEF FinishKeys
  <2>2. /\ from \in VersionSet /\ last \in VersionSet /\ from <= last
        /\ active = last + 1 /\ goal # "chunk"
    BY <2>1, RangeAssumption DEF ListSound, TypeOK, VersionSet
  <2>3. /\ Chunk(from, last) \in Range
        /\ Chunk(from, last).first = from /\ Chunk(from, last).last = last
    BY <2>2 DEF Chunk, Range, VersionSet
  <2>4. TypeOK'
    BY <2>1, <2>3 DEF TypeOK
  <2>5. CheckpointSound' /\ NamesChain' /\ ListSound'
    BY <2>1, <2>2 DEF CheckpointSound, NamesChain, ListSound
  <2>6. KeysOrdered'
    BY <2>2, <2>3 DEF KeysOrdered
  <2>7. QueryKeysStored'
    <3>1. list \in SUBSET Range /\ list \subseteq chunks /\ Splits(list, last + 1)
      BY <2>1, <2>2 DEF ListSound, TypeOK
    <3>2. last + 1 \in FirstVersion..(EndVersion + 1)
      BY <2>2, RangeAssumption DEF VersionSet
    <3>3. \A v \in FirstVersion..(last + 1) - 1 : Stored(v)
      BY <3>1, <3>2, SplitCovers
    <3>4. \A v \in from..last : v \in FirstVersion..(last + 1) - 1
      BY <2>2, RangeAssumption DEF VersionSet
    <3> QED BY <3>3, <3>4, <2>1, <2>3 DEF QueryKeysStored, Stored
  <2>8. KeysBehind' /\ BytesLeft' /\ ByteBudget'
    BY <2>1, <2>2 DEF KeysBehind, BytesLeft, ByteBudget
  <2> QED BY <2>4, <2>5, <2>6, <2>7, <2>8
<1> QED BY <1>1, <1>2 DEF FinishKeys

\* The point corpus is replaced.
LEMMA WriteCorpusInv == ASSUME IInv, WriteCorpus PROVE IInv'
<1> USE DEF IInv
<1>1. /\ pc = "corpus" /\ pc' = "save" /\ corpus' = Chunk(from, last)
      /\ UNCHANGED <<chunks, ckpt, keyFiles, goal, from, last, active, list, full,
                     got, spent, retries, exit, faults>>
  BY DEF WriteCorpus
<1>2. /\ from \in VersionSet /\ last \in VersionSet /\ from <= last
      /\ active = last + 1 /\ goal # "chunk"
  BY <1>1, RangeAssumption DEF ListSound, TypeOK, VersionSet
<1>3. corpus'.first = from /\ corpus'.last = last
  BY <1>1 DEF Chunk
<1>4. TypeOK'
  BY <1>1, <1>2, <1>3, RangeAssumption DEF TypeOK, VersionSet
<1>5. CheckpointSound' /\ NamesChain' /\ ListSound' /\ KeysOrdered'
  BY <1>1, <1>2 DEF CheckpointSound, NamesChain, ListSound, KeysOrdered
<1>6. QueryKeysStored'
  <2>1. list \in SUBSET Range /\ list \subseteq chunks /\ Splits(list, last + 1)
    BY <1>1, <1>2 DEF ListSound, TypeOK
  <2>2. last + 1 \in FirstVersion..(EndVersion + 1)
    BY <1>2, RangeAssumption DEF VersionSet
  <2>3. \A v \in FirstVersion..(last + 1) - 1 : Stored(v)
    BY <2>1, <2>2, SplitCovers
  <2>4. \A v \in from..last : v \in FirstVersion..(last + 1) - 1
    BY <1>2, RangeAssumption DEF VersionSet
  <2> QED BY <2>3, <2>4, <1>1, <1>3 DEF QueryKeysStored, Stored
<1>7. KeysBehind' /\ BytesLeft' /\ ByteBudget'
  BY <1>1, <1>2 DEF KeysBehind, BytesLeft, ByteBudget
<1> QED BY <1>4, <1>5, <1>6, <1>7

\* The checkpoint is replaced.
LEMMA SaveCheckpointInv == ASSUME IInv, SaveCheckpoint PROVE IInv'
<1> USE DEF IInv
<1>1. /\ pc = "save"
      /\ ckpt' = [exists |-> TRUE, next |-> last + 1, list |-> list]
      /\ UNCHANGED <<chunks, keyFiles, corpus, from, last, active, list, full, got,
                     spent, retries, exit, faults>>
  BY DEF SaveCheckpoint, NextStart
<1>2. \/ goal = "chunk" /\ pc' = "finish" /\ goal' = "final"
      \/ goal = "chunk" /\ pc' = "stream" /\ goal' = "chunk" /\ ~ LimitReached(got)
      \/ goal # "chunk" /\ pc' = "done" /\ goal' = goal
  BY DEF SaveCheckpoint
<1>3. /\ last \in VersionSet /\ active = last + 1 /\ from <= last
      /\ list \in SUBSET Range /\ list \subseteq chunks /\ Splits(list, active)
      /\ last + 1 \in FirstVersion..(EndVersion + 1)
  BY <1>1, RangeAssumption DEF ListSound, TypeOK, VersionSet
<1>4. TypeOK'
  BY <1>1, <1>2, <1>3 DEF TypeOK
<1>5. CheckpointSound' /\ NamesChain'
  BY <1>1, <1>3 DEF CheckpointSound, NamesChain
<1>6. ListSound'
  BY <1>1, <1>2, <1>3 DEF ListSound, VersionSet
<1>7. KeysOrdered' /\ QueryKeysStored' /\ ByteBudget'
  BY <1>1 DEF KeysOrdered, QueryKeysStored, Stored, ByteBudget
<1>8. KeysBehind'
  BY <1>1, <1>2 DEF KeysBehind, Orphans
<1>9. BytesLeft'
  <2>1. spent \in Int /\ got \in Int /\ MaxRawBytes \in Int
    BY OptionAssumption DEF TypeOK
  <2>2. ~ LimitReached(got) => spent + got < MaxRawBytes
    BY <2>1 DEF LimitReached
  <2> QED BY <1>1, <1>2, <2>2 DEF BytesLeft
<1> QED BY <1>4, <1>5, <1>6, <1>7, <1>8, <1>9

\* A process goes on with another attempt.
LEMMA RetryInv == ASSUME IInv, Retry PROVE IInv'
<1> USE DEF IInv
<1>1. /\ pc = "done" /\ ~ Archived /\ ~ LimitReached(got)
      /\ retries < MaxStreamRetries
      /\ UNCHANGED <<diskVars, full, exit, faults>>
      /\ spent' = spent + got /\ retries' = retries + 1 /\ got' = 0
      /\ pc' = "stream" /\ goal' = "chunk"
      /\ from' = last + 1 /\ last' = last /\ active' = last + 1
  <2>1. last' = (last + 1) - 1
    BY DEF Retry, Open, NextStart
  <2>2. last \in Int
    BY RangeAssumption DEF TypeOK
  <2> QED BY <2>1, <2>2 DEF Retry, Interrupted, Open, NextStart
<1>2. /\ list' = list /\ active = last + 1 /\ from <= last
      /\ list \in SUBSET Range /\ list \subseteq chunks /\ Splits(list, active)
      /\ ckpt.exists /\ ckpt.list = list /\ ckpt.next = last + 1
  BY <1>1 DEF ListSound, TypeOK, Retry, Open, KnownToRetry, ResumeList
<1>3. last + 1 \in VersionSet /\ last \in Int
  BY <1>1, RangeAssumption DEF TypeOK, Archived, NextStart, VersionSet
<1>4. TypeOK'
  BY <1>1, <1>2, <1>3, OptionAssumption DEF TypeOK, diskVars, VersionSet
<1>5. CheckpointSound' /\ NamesChain' /\ KeysOrdered' /\ QueryKeysStored'
  BY <1>1 DEF CheckpointSound, NamesChain, KeysOrdered, QueryKeysStored, Stored,
              diskVars
<1>6. ListSound'
  BY <1>1, <1>2, <1>3 DEF ListSound, VersionSet, diskVars
<1>7. KeysBehind'
  <2> SUFFICES ASSUME Orphans' = {} PROVE \A k \in keyFiles : k.last < last + 1
    BY <1>1 DEF KeysBehind, diskVars
  <2>1. list = chunks
    BY <1>1, <1>2 DEF Orphans, diskVars
  <2>2. last + 1 \in FirstVersion..(EndVersion + 1)
    BY <1>3, RangeAssumption DEF VersionSet
  <2> QED BY <1>2, <2>1, <2>2, KeysBelow
<1>8. BytesLeft' /\ ByteBudget'
  <2>1. spent \in Int /\ got \in Int /\ MaxRawBytes \in Int
    BY OptionAssumption DEF TypeOK
  <2>2. spent + got < MaxRawBytes
    BY <1>1, <2>1 DEF LimitReached
  <2>3. spent' + got' < MaxRawBytes
    BY <1>1, <2>1, <2>2
  <2>4. PICK b \in TxBytes : b \in Nat \ {0}
    BY OptionAssumption
  <2>5. spent' + got' < MaxRawBytes + b
    BY <1>1, <2>1, <2>2, <2>4
  <2> QED BY <2>3, <2>5 DEF BytesLeft, ByteBudget
<1> QED BY <1>4, <1>5, <1>6, <1>7, <1>8

\* The invariant is inductive: every action keeps it, and so does a stutter.
LEMMA InvStep == IInv /\ [Next]_vars => IInv'
<1> SUFFICES ASSUME IInv, [Next]_vars PROVE IInv'
  OBVIOUS
<1>1. MaxFaults \in Nat /\ faults \in 0..MaxFaults
  BY OptionAssumption DEF IInv, TypeOK
<1>2. \A kind : Fault(kind) => faults' \in 0..MaxFaults
  BY <1>1 DEF Fault
<1>3. CASE Plan
  BY <1>3, PlanInv
<1>4. CASE Launch
  BY <1>4, LaunchInv
<1>5. CASE LaunchRefused
  BY <1>5, LaunchRefusedInv
<1>6. CASE Receive
  BY <1>6, ReceiveInv
<1>7. CASE StreamEnds
  <2>1. faults' \in 0..MaxFaults
    BY <1>1, <1>2, <1>7 DEF StreamEnds
  <2> QED BY <1>7, <2>1, AfterStreamInv DEF StreamEnds
<1>8. CASE StreamFails
  BY <1>2, <1>8, AfterStreamInv DEF StreamFails
<1>9. CASE NoChunk
  BY <1>9, NoChunkInv
<1>10. CASE FinishChunk
  BY <1>10, FinishChunkInv
<1>11. CASE RefuseChunk
  BY <1>1, <1>11, StopInv DEF RefuseChunk
<1>12. CASE FinishKeys
  BY <1>12, FinishKeysInv
<1>13. CASE WriteCorpus
  BY <1>13, WriteCorpusInv
<1>14. CASE SaveCheckpoint
  BY <1>14, SaveCheckpointInv
<1>15. CASE Succeed
  BY <1>1, <1>15, StopInv DEF Succeed
<1>16. CASE GiveUp
  BY <1>1, <1>16, StopInv DEF GiveUp
<1>17. CASE Retry
  BY <1>17, RetryInv
<1>18. CASE Crash
  BY <1>2, <1>18, StopInv DEF Crash
<1>19. CASE UNCHANGED vars
  BY <1>19 DEF vars, diskVars, procVars, IInv, TypeOK, Idle, CheckpointSound,
               NamesChain, ListSound, KeysOrdered, QueryKeysStored, Stored,
               KeysBehind, Orphans, ResumeList, BytesLeft, ByteBudget
<1> QED BY <1>3, <1>4, <1>5, <1>6, <1>7, <1>8, <1>9, <1>10, <1>11, <1>12, <1>13,
           <1>14, <1>15, <1>16, <1>17, <1>18, <1>19 DEF Next, Run

-----------------------------------------------------------------------------
(* Theorems. *)

\* The inductive invariant holds in every reachable state.
THEOREM Invariance == Spec => []IInv
<1>1. IInv /\ [Next]_vars => IInv'
  BY InvStep
<1> QED BY InvInit, <1>1, PTL DEF Spec

\* Every variable keeps its type.
THEOREM TypeCorrect == Spec => []TypeOK
<1>1. IInv => TypeOK
  BY DEF IInv
<1> QED BY Invariance, <1>1, PTL

\* The checkpoint lists chunks that are on disk and hold every version below its
\* cursor exactly once.
THEOREM CheckpointCorrect == Spec => []CheckpointSound
<1>1. IInv => CheckpointSound
  BY DEF IInv
<1> QED BY Invariance, <1>1, PTL

\* The raw directory normalizes while no chunk is orphaned.
THEOREM NormalizeCorrect == Spec => []NormalizesUnlessOrphaned
<1>1. IInv => NormalizesUnlessOrphaned
  <2> SUFFICES ASSUME IInv, Orphans = {} PROVE Contiguous(chunks)
    BY DEF NormalizesUnlessOrphaned
  <2>1. chunks \in SUBSET Range /\ list \subseteq Range
    BY DEF IInv, TypeOK
  <2>2. CASE pc = "down"
    BY <2>1, <2>2, ResumeSound, SplitContiguous DEF IInv, Orphans
  <2>3. CASE pc # "down"
    <3>1. chunks = list /\ Splits(list, active)
      BY <2>3 DEF IInv, ListSound, Orphans
    <3>2. active \in FirstVersion..(EndVersion + 1)
      BY DEF IInv, TypeOK
    <3> QED BY <2>1, <3>1, <3>2, SplitContiguous
  <2> QED BY <2>2, <2>3
<1> QED BY Invariance, <1>1, PTL

\* The attempts of one process together stay within the byte limit, up to the last
\* transaction.
THEOREM BudgetCorrect == Spec => []ByteBudget
<1>1. IInv => ByteBudget
  BY DEF IInv
<1> QED BY Invariance, <1>1, PTL

\* Key files and key corpus name only versions that a completed chunk holds.
THEOREM QueryKeysCorrect == Spec => []QueryKeysStored
<1>1. IInv => QueryKeysStored
  BY DEF IInv
<1> QED BY Invariance, <1>1, PTL

-----------------------------------------------------------------------------
(* Action properties and the refinement. *)

\* Before its first checkpoint an archive is exactly what the process has written.
LEMMA CursorWhileRunning ==
    ASSUME IInv, pc # "down", ~ ckpt.exists
    PROVE  ResumeCursor = active
<1>1. chunks \in SUBSET Range /\ Splits(chunks, active)
  BY DEF IInv, TypeOK, ListSound
<1>2. active \in FirstVersion..(EndVersion + 1)
  BY DEF IInv, TypeOK
<1> QED BY <1>1, <1>2, SplitBound DEF ResumeCursor

\* Finishing a chunk is the only step that changes the set of chunks; it and saving
\* the checkpoint are the only ones that change the cursor.
LEMMA QuietSteps ==
    ASSUME IInv, [Next]_vars, ~ FinishChunk, ~ SaveCheckpoint
    PROVE  UNCHANGED <<chunks, ResumeCursor, ResumeList>>
<1>1. CASE Plan
  BY <1>1 DEF Plan, ResumeCursor, ResumeList
<1>2. CASE ~ Plan
  <2>1. UNCHANGED <<chunks, ckpt>>
    BY <1>2 DEF Next, Run, Launch, LaunchRefused, Receive, StreamEnds, StreamFails,
                NoChunk, RefuseChunk, FinishKeys, WriteCorpus, Succeed, GiveUp,
                Retry, Crash, vars, diskVars
  <2> QED BY <2>1 DEF ResumeCursor, ResumeList, MaxLast
<1> QED BY <1>1, <1>2

\* Only a kill leaves a first chunk orphaned.
THEOREM OrphansNeedCrash == Spec => OnlyCrashOrphans
<1>1. ASSUME IInv, [Next]_vars, Orphans = {}, Orphans' # {}
      PROVE  exit' = "crash"
  <2> USE <1>1
  <2> DEFINE Known == IF pc = "down" THEN ResumeList ELSE list
  <2>1. SUFFICES ASSUME ~ Crash PROVE FALSE
    BY DEF Crash, Stop
  <2>2. SUFFICES chunks' \ Known' \subseteq chunks \ Known
    BY DEF Orphans
  <2>3. CASE FinishChunk
    BY <2>3 DEF FinishChunk, AfterChunk
  <2>4. CASE SaveCheckpoint
    BY <2>4 DEF SaveCheckpoint
  <2>5. CASE ~ FinishChunk /\ ~ SaveCheckpoint
    <3>1. UNCHANGED <<chunks, ResumeCursor, ResumeList>>
      BY <2>5, QuietSteps
    <3>2. SUFFICES Known' = Known
      BY <3>1
    <3>3. CASE pc = "down"
      BY <2>1, <2>5, <3>1, <3>3 DEF Next, Run, Plan, Launch, LaunchRefused, Open,
         procVars, Receive, StreamEnds, StreamFails, NoChunk, RefuseChunk, FinishKeys,
         WriteCorpus, Succeed, GiveUp, Interrupted, Retry, vars
    <3>4. CASE pc \in {"stream", "finish", "done"}
      <4>1. list = ResumeList
        BY <3>4 DEF IInv, ListSound, ResumeList
      <4>2. list' = list \/ pc' = "down" \/ list' = ResumeList
        BY <2>1, <2>5, <3>4 DEF Next, Run, Plan, Launch, LaunchRefused, Receive,
           StreamEnds, StreamFails, AfterStream, Stop, NoChunk, RefuseChunk,
           FinishKeys, WriteCorpus, Succeed, GiveUp, Retry, Open, KnownToRetry, vars,
           procVars
      <4> QED BY <3>1, <3>4, <4>1, <4>2
    <3>5. CASE pc \in {"keys", "corpus", "save"}
      <4>1. FinishKeys \/ WriteCorpus \/ UNCHANGED vars
        BY <2>1, <2>5, <3>5 DEF Next, Run, Plan, Launch, LaunchRefused, Receive,
           StreamEnds, StreamFails, NoChunk, RefuseChunk, Succeed, GiveUp, Interrupted,
           Retry
      <4>2. CASE FinishKeys
        <5>1. last \in Int /\ from \in Int /\ from <= last
          BY <3>5, RangeAssumption DEF IInv, TypeOK, ListSound, VersionSet
        <5>2. pc = "keys" /\ \A k \in keyFiles : k.last < from
          BY <4>2 DEF IInv, KeysBehind, FinishKeys
        <5>3. Chunk(from, last) \notin keyFiles
          BY <5>1, <5>2 DEF Chunk
        <5> QED BY <4>2, <5>3, <3>5 DEF FinishKeys
      <4>3. CASE WriteCorpus
        BY <4>3, <3>5 DEF WriteCorpus
      <4>4. CASE UNCHANGED vars
        BY <4>4, <3>5 DEF vars, procVars
      <4> QED BY <4>1, <4>2, <4>3, <4>4
    <3> QED BY <3>3, <3>4, <3>5 DEF IInv, TypeOK
  <2> QED BY <2>3, <2>4, <2>5
<1>2. IInv /\ [Next]_vars => [Orphans = {} /\ Orphans' # {} => exit' = "crash"]_vars
  BY <1>1
<1> QED BY <1>2, Invariance, PTL DEF Spec, OnlyCrashOrphans

\* What every step does to the cursor and to the chunks.
LEMMA CursorStep ==
    ASSUME IInv, IInv', [Next]_vars
    PROVE  \/ UNCHANGED <<chunks, ResumeCursor>>
           \/ /\ chunks' = chunks \cup {Chunk(active, last)}
              /\ last \in VersionSet /\ active \in VersionSet /\ active <= last
              /\ \A v \in FirstVersion..(active - 1) : Stored(v)
              /\ ResumeCursor' \in {ResumeCursor, last + 1}
              /\ ResumeCursor' >= ResumeCursor
           \/ /\ chunks' = chunks
              /\ ResumeCursor' = last + 1 /\ last \in VersionSet
              /\ \A v \in FirstVersion..((last + 1) - 1) : Stored(v)
              /\ ResumeCursor' >= ResumeCursor
<1> USE RangeAssumption
<1>1. CASE FinishChunk
  <2> USE <1>1
  <2>1. /\ pc = "finish" /\ active <= last
        /\ chunks' = chunks \cup {Chunk(active, last)}
        /\ active' = last + 1 /\ ckpt' = ckpt /\ pc' # "down"
    BY DEF FinishChunk, AfterChunk
  <2>2. active \in VersionSet /\ last \in VersionSet
    BY <2>1 DEF IInv, TypeOK, VersionSet
  <2>3. \A v \in FirstVersion..(active - 1) : Stored(v)
    <3>1. /\ list \in SUBSET Range /\ list \subseteq chunks /\ Splits(list, active)
          /\ active \in FirstVersion..(EndVersion + 1)
      BY <2>1 DEF IInv, TypeOK, ListSound
    <3> QED BY <3>1, SplitCovers
  <2>4. CASE ckpt.exists
    <3>1. ResumeCursor = ckpt.next /\ ResumeCursor' = ckpt.next
      BY <2>1, <2>4 DEF ResumeCursor
    <3>2. ckpt.next \in Int
      BY DEF IInv, TypeOK
    <3> QED BY <2>1, <2>2, <2>3, <3>1, <3>2
  <2>5. CASE ~ ckpt.exists
    <3>1. ResumeCursor = active
      BY <2>1, <2>5, CursorWhileRunning
    <3>2. ResumeCursor' = last + 1
      <4>1. chunks' \in SUBSET Range /\ Splits(chunks', last + 1)
        BY <2>1, <2>5 DEF IInv, TypeOK, ListSound
      <4>2. last + 1 \in FirstVersion..(EndVersion + 1)
        BY <2>2 DEF VersionSet
      <4>3. last + 1 = (IF chunks' # {} THEN MaxLast(chunks') + 1 ELSE FirstVersion)
        BY <4>1, <4>2, SplitBound
      <4> QED BY <4>3, <2>1, <2>5 DEF ResumeCursor
    <3> QED BY <2>1, <2>2, <2>3, <3>1, <3>2 DEF VersionSet
  <2> QED BY <2>4, <2>5
<1>2. CASE SaveCheckpoint
  <2> USE <1>2
  <2>1. /\ pc = "save" /\ chunks' = chunks /\ active = last + 1 /\ last \in VersionSet
    BY DEF SaveCheckpoint, IInv, ListSound, TypeOK, VersionSet
  <2>2. ResumeCursor' = last + 1
    BY DEF SaveCheckpoint, NextStart, ResumeCursor
  <2>3. ResumeCursor \in Int /\ ResumeCursor <= last + 1
    <3>1. CASE ckpt.exists
      BY <2>1, <3>1 DEF IInv, ListSound, TypeOK, ResumeCursor
    <3>2. CASE ~ ckpt.exists
      BY <2>1, <3>2, CursorWhileRunning DEF VersionSet
    <3> QED BY <3>1, <3>2
  <2>4. \A v \in FirstVersion..((last + 1) - 1) : Stored(v)
    <3>1. list \in SUBSET Range /\ list \subseteq chunks /\ Splits(list, last + 1)
      BY <2>1 DEF IInv, TypeOK, ListSound
    <3>2. last + 1 \in FirstVersion..(EndVersion + 1)
      BY <2>1 DEF VersionSet
    <3> QED BY <3>1, <3>2, SplitCovers
  <2> QED BY <2>1, <2>2, <2>3, <2>4 DEF VersionSet
<1>3. CASE ~ FinishChunk /\ ~ SaveCheckpoint
  BY <1>3, QuietSteps
<1> QED BY <1>1, <1>2, <1>3

\* The cursor of a resumed run never moves back.
THEOREM CursorMonotone == Spec => CursorNeverMovesBack
<1>1. ASSUME IInv, IInv', [Next]_vars PROVE ResumeCursor' >= ResumeCursor
  <2>1. ResumeCursor \in Int
    BY <1>1, ResumeSound, RangeAssumption DEF IInv
  <2> QED BY <1>1, <2>1, CursorStep
<1>2. IInv /\ IInv' /\ [Next]_vars => [ResumeCursor' >= ResumeCursor]_vars
  BY <1>1
<1> QED BY <1>2, Invariance, PTL DEF Spec, CursorNeverMovesBack

\* The recorder implements RawArchive.
THEOREM Refinement == Spec => ImplementsArchive
<1> USE RangeAssumption
<1> DEFINE Held == {v \in VersionSet : Stored(v)}
<1>1. Init => Archive!Init
  BY DEF Init, Archive!Init, Stored, ResumeCursor
<1>2. ASSUME IInv, IInv', [Next]_vars
      PROVE  [Archive!Next]_(Archive!archiveVars)
  <2> USE <1>2
  <2>1. CASE UNCHANGED <<chunks, ResumeCursor>>
    BY <2>1 DEF Archive!archiveVars, Stored
  <2>2. CASE /\ chunks' = chunks \cup {Chunk(active, last)}
             /\ last \in VersionSet /\ active \in VersionSet /\ active <= last
             /\ \A v \in FirstVersion..(active - 1) : Stored(v)
             /\ ResumeCursor' \in {ResumeCursor, last + 1}
             /\ ResumeCursor' >= ResumeCursor
    <3>1. \A v \in VersionSet :
            Stored(v)' <=> (Stored(v) \/ (active <= v /\ v <= last))
      <4> TAKE v \in VersionSet
      <4>1. In(v, Chunk(active, last)) <=> (active <= v /\ v <= last)
        BY DEF In, Chunk
      <4>2. Stored(v)' <=> \E c \in chunks \cup {Chunk(active, last)} : In(v, c)
        BY <2>2 DEF Stored, In
      <4>3. Stored(v)' <=> (Stored(v) \/ In(v, Chunk(active, last)))
        BY <4>2 DEF Stored
      <4> QED BY <4>1, <4>3
    <3>2. Held' = Held \cup (FirstVersion..last)
      BY <2>2, <3>1 DEF VersionSet
    <3> QED BY <2>2, <3>2 DEF Archive!Next, Archive!Store, VersionSet
  <2>3. CASE /\ chunks' = chunks
             /\ ResumeCursor' = last + 1 /\ last \in VersionSet
             /\ \A v \in FirstVersion..((last + 1) - 1) : Stored(v)
             /\ ResumeCursor' >= ResumeCursor
    <3>1. Held' = Held
      BY <2>3 DEF Stored
    <3>2. FirstVersion..(ResumeCursor' - 1) \subseteq Held
      BY <2>3 DEF VersionSet
    <3>3. ResumeCursor \in Int
      BY ResumeSound DEF IInv
    <3>4. CASE ResumeCursor' = ResumeCursor
      BY <3>1, <3>4 DEF Archive!archiveVars
    <3>5. CASE ResumeCursor' # ResumeCursor
      <4>1. ResumeCursor' \in (ResumeCursor + 1)..(EndVersion + 1)
        BY <2>3, <3>3, <3>5 DEF VersionSet
      <4> QED BY <3>1, <3>2, <4>1 DEF Archive!Next, Archive!Commit
    <3> QED BY <3>4, <3>5
  <2> QED BY <2>1, <2>2, <2>3, CursorStep
<1> QED BY <1>1, <1>2, Invariance, PTL DEF Spec, ImplementsArchive, Archive!Spec
=============================================================================
