------------------------------ MODULE Recorder ------------------------------
(***************************************************************************)
(* decibel-dataset record --live: one recorder process that pulls the      *)
(* versions FirstVersion..EndVersion from an Aptos transaction stream into *)
(* chunk files, a checkpoint and key files, and that is started again with *)
(* --resume, by an operator or by scripts/record-mainnet-raw-resume.sh,    *)
(* whenever it stops.                                                      *)
(*                                                                         *)
(* A chunk file transactions_<first>_<last>.pb.zst is the record           *)
(* [first, last]; the stream is the external service that delivers the     *)
(* requested versions in order, fails, or ends.  A temporary chunk is the  *)
(* volatile range active..last: nothing reads one back.                    *)
(***************************************************************************)
EXTENDS Integers

CONSTANTS
    FirstVersion,           \* --start-version of the archive
    EndVersion,             \* --end-version
    ChunkTransactionCounts, \* values of --chunk-transaction-count used on this archive
    MaxRawBytes,            \* --max-raw-bytes of every process
    TxBytes,                \* the encoded sizes a transaction may have
    MaxStreamRetries,       \* --max-stream-retries
    Faults,                 \* which faults happen: "crash", "error", "end"
    MaxFaults               \* how many (bounds the model)

ASSUME RangeAssumption ==
    /\ FirstVersion \in Nat
    /\ EndVersion \in Nat
    /\ FirstVersion <= EndVersion

ASSUME OptionAssumption ==
    /\ ChunkTransactionCounts \subseteq Nat \ {0}
    /\ ChunkTransactionCounts # {}
    /\ MaxRawBytes \in Nat \ {0}
    /\ TxBytes \subseteq Nat \ {0}
    /\ TxBytes # {}
    /\ MaxStreamRetries \in Nat
    /\ MaxFaults \in Nat

VARIABLES
    \* The output directory, which survives the process.
    chunks,     \* completed chunk files
    ckpt,       \* record_checkpoint.json: does it exist, its cursor, its chunk list
    keyFiles,   \* keys/tx_versions_<start>_<last>.u64be
    corpus,     \* the versions queries/point_tx_versions.ndjson samples from
    \* The process.
    pc,         \* where it is
    goal,       \* why a chunk is being finished: it is full ("chunk"), the
                \* stream is over ("final") or it broke ("interrupt")
    from,       \* request.start_version of this attempt
    last,       \* last version received, from - 1 before the first
    active,     \* first version of the open temporary chunk, last + 1 if none
    list,       \* the chunk list the next checkpoint will carry
    full,       \* request.chunk_transaction_count
    got,        \* uncompressed_raw_bytes of this attempt
    spent,      \* total_raw_bytes of the attempts before it
    retries,    \* stream retries of this process
    \* Outside.
    exit,       \* how the last process ended; "running" while one runs
    faults      \* faults so far

diskVars == <<chunks, ckpt, keyFiles, corpus>>
procVars == <<pc, goal, from, last, active, list, full, got, spent, retries>>
vars == <<diskVars, procVars, exit, faults>>

Range == [first : FirstVersion..EndVersion, last : FirstVersion..EndVersion]

Chunk(first, lst) == [first |-> first, last |-> lst]

-----------------------------------------------------------------------------
(* The archive on disk. *)

In(v, c) == c.first <= v /\ v <= c.last

Stored(v) == \E c \in chunks : In(v, c)

\* Chunk names sort by (first, last).
Before(c, d) == c.first < d.first \/ (c.first = d.first /\ c.last < d.last)

\* validate_declared_raw_chunk_sequence over the sorted names: no name is empty and
\* each one starts right after the one before it.
Contiguous(S) ==
    /\ \A c \in S : c.first <= c.last
    /\ \A c, d \in S :
         (Before(c, d) /\ ~ \E e \in S : Before(c, e) /\ Before(e, d))
            => d.first = c.last + 1

MaxLast(S) == CHOOSE m \in {c.last : c \in S} : \A c \in S : c.last <= m

-----------------------------------------------------------------------------
(* load_record_resume_state: the checkpoint's cursor decides when there is *)
(* one; chunk names are looked at only when there is none.                 *)

LoadOk == ckpt.exists \/ Contiguous(chunks)

ResumeList_Forgets == IF ckpt.exists THEN {} ELSE chunks

ResumeList == IF ckpt.exists THEN ckpt.list ELSE chunks

ResumeCursor_OffByOne ==
    IF ckpt.exists THEN ckpt.next
    ELSE IF chunks # {} THEN MaxLast(chunks)
    ELSE FirstVersion

\* With neither checkpoint nor chunk, the requested --start-version.
ResumeCursor ==
    IF ckpt.exists THEN ckpt.next
    ELSE IF chunks # {} THEN MaxLast(chunks) + 1
    ELSE FirstVersion

StartVersion_Requested == FirstVersion

\* resolve_record_start_version: a cursor is preferred to --start-version.
StartVersion == ResumeCursor

-----------------------------------------------------------------------------
Idle ==
    /\ pc = "down"
    /\ goal = "chunk"
    /\ from = FirstVersion
    /\ last = FirstVersion - 1
    /\ active = FirstVersion
    /\ list = {}
    /\ full = 0
    /\ got = 0
    /\ spent = 0
    /\ retries = 0

Init ==
    /\ chunks = {}
    /\ ckpt = [exists |-> FALSE, next |-> FirstVersion, list |-> {}]
    /\ keyFiles = {}
    /\ corpus = Chunk(FirstVersion, FirstVersion - 1)
    /\ Idle
    /\ exit = "none"
    /\ faults = 0

Fault(kind) ==
    /\ kind \in Faults
    /\ faults < MaxFaults
    /\ faults' = faults + 1

\* The process ends and its variables with it.
Stop(status) ==
    /\ pc' = "down"
    /\ goal' = "chunk"
    /\ from' = FirstVersion
    /\ last' = FirstVersion - 1
    /\ active' = FirstVersion
    /\ list' = {}
    /\ full' = 0
    /\ got' = 0
    /\ spent' = 0
    /\ retries' = 0
    /\ exit' = status

\* An attempt opens the stream at version v, with the chunk list it starts from.
Open(v, known) ==
    /\ pc' = "stream"
    /\ goal' = "chunk"
    /\ from' = v
    /\ last' = v - 1
    /\ active' = v
    /\ list' = known
    /\ got' = 0

-----------------------------------------------------------------------------
(* Starting a process. *)

\* record without --live only writes a "planned" checkpoint.
Plan ==
    /\ pc = "down"
    /\ LoadOk
    /\ ckpt' = [exists |-> TRUE, next |-> ResumeCursor, list |-> ResumeList]
    /\ UNCHANGED <<chunks, keyFiles, corpus, procVars, exit, faults>>

\* record --live --resume, with --start-version FirstVersion for an archive that
\* has neither checkpoint nor chunks; the first run, without --resume, is the same.
Launch ==
    /\ pc = "down"
    /\ LoadOk
    /\ StartVersion <= EndVersion
    /\ Open(StartVersion, ResumeList)
    /\ full' \in ChunkTransactionCounts
    /\ spent' = 0
    /\ retries' = 0
    /\ exit' = "running"
    /\ UNCHANGED <<diskVars, faults>>

\* The names do not chain, or the end version lies before the cursor.
LaunchRefused ==
    /\ pc = "down"
    /\ ~ (LoadOk /\ StartVersion <= EndVersion)
    /\ exit' = "error"
    /\ UNCHANGED <<diskVars, procVars, faults>>

-----------------------------------------------------------------------------
(* The stream. *)

LimitReached_PerAttempt(bytes) == bytes >= MaxRawBytes

\* request.max_raw_bytes is what earlier attempts of the process left of the limit.
LimitReached(bytes) == bytes >= MaxRawBytes - spent

\* One transaction.  The chunk count is looked at before the byte limit, which a
\* full chunk meets only once it is in place (SaveCheckpoint).
Receive ==
    /\ pc = "stream"
    /\ last < EndVersion
    /\ last' = last + 1
    /\ \E b \in TxBytes : got' = got + b
    /\ IF last' - active + 1 >= full
          THEN pc' = "finish" /\ goal' = "chunk"
       ELSE IF LimitReached(got')
          THEN pc' = "finish" /\ goal' = "final"
       ELSE UNCHANGED <<pc, goal>>
    /\ UNCHANGED <<diskVars, from, active, list, full, spent, retries, exit, faults>>

AfterStream_SkipsChunk(why) ==
    \/ /\ last >= from
       /\ pc' = "keys"
       /\ goal' = why
       /\ UNCHANGED <<from, last, active, list, full, got, spent, retries, exit>>
    \/ /\ last < from
       /\ Stop("error")

\* An attempt that received nothing is an error of the whole process, whatever
\* retries it has left.
AfterStream(why) ==
    \/ /\ last >= from
       /\ pc' = "finish"
       /\ goal' = why
       /\ UNCHANGED <<from, last, active, list, full, got, spent, retries, exit>>
    \/ /\ last < from
       /\ Stop("error")

\* The stream returns None: all was delivered, or the server ends it early.
StreamEnds ==
    /\ pc = "stream"
    /\ \/ last = EndVersion /\ UNCHANGED faults
       \/ last < EndVersion /\ Fault("end")
    /\ AfterStream("final")
    /\ UNCHANGED diskVars

\* The stream (or, before the first transaction, the connection) fails.
StreamFails ==
    /\ pc = "stream"
    /\ Fault("error")
    /\ AfterStream("interrupt")
    /\ UNCHANGED diskVars

-----------------------------------------------------------------------------
(* Putting a chunk, the key files and the checkpoint in place. *)

AfterChunk == IF goal = "chunk" THEN "save" ELSE "keys"

\* finish_active_chunk without an open chunk.
NoChunk ==
    /\ pc = "finish"
    /\ active > last
    /\ pc' = AfterChunk
    /\ UNCHANGED <<diskVars, goal, from, last, active, list, full, got, spent,
                   retries, exit, faults>>

\* The final name is free: the synced temporary file is renamed and listed.
FinishChunk ==
    /\ pc = "finish"
    /\ active <= last
    /\ Chunk(active, last) \notin chunks
    /\ chunks' = chunks \cup {Chunk(active, last)}
    /\ list' = list \cup {Chunk(active, last)}
    /\ active' = last + 1
    /\ pc' = AfterChunk
    /\ UNCHANGED <<ckpt, keyFiles, corpus, goal, from, last, full, got, spent,
                   retries, exit, faults>>

\* The final name is taken: "refusing to overwrite existing raw chunk".
RefuseChunk ==
    /\ pc = "finish"
    /\ active <= last
    /\ Chunk(active, last) \in chunks
    /\ Stop("error")
    /\ UNCHANGED <<diskVars, faults>>

\* RecordKeyWriter::finish renames the version list of the attempt; it refuses a
\* taken name too.
FinishKeys ==
    /\ pc = "keys"
    /\ \/ /\ Chunk(from, last) \notin keyFiles
          /\ keyFiles' = keyFiles \cup {Chunk(from, last)}
          /\ pc' = "corpus"
          /\ UNCHANGED <<goal, from, last, active, list, full, got, spent, retries, exit>>
       \/ /\ Chunk(from, last) \in keyFiles
          /\ Stop("error")
          /\ UNCHANGED keyFiles
    /\ UNCHANGED <<chunks, ckpt, corpus, faults>>

\* It then replaces the key corpus by samples of this attempt alone.
WriteCorpus ==
    /\ pc = "corpus"
    /\ corpus' = Chunk(from, last)
    /\ pc' = "save"
    /\ UNCHANGED <<chunks, ckpt, keyFiles, goal, from, last, active, list, full,
                   got, spent, retries, exit, faults>>

NextStart_SkipsOne == last + 2

\* checked_next_version(last_success_version)
NextStart == last + 1

\* write_record_checkpoint replaces the file by an atomic rename.
SaveCheckpoint ==
    /\ pc = "save"
    /\ ckpt' = [exists |-> TRUE, next |-> NextStart, list |-> list]
    /\ \/ /\ goal = "chunk"
          /\ LimitReached(got)
          /\ pc' = "finish"
          /\ goal' = "final"
       \/ /\ goal = "chunk"
          /\ ~ LimitReached(got)
          /\ pc' = "stream"
          /\ UNCHANGED goal
       \/ /\ goal # "chunk"
          /\ pc' = "done"
          /\ UNCHANGED goal
    /\ UNCHANGED <<chunks, keyFiles, corpus, from, last, active, list, full, got,
                   spent, retries, exit, faults>>

-----------------------------------------------------------------------------
(* record_live_transaction_stream_with_retries, once an attempt has returned. *)

Archived_OneShort == NextStart >= EndVersion

Archived_Never == FALSE

\* An interrupted attempt that had delivered everything.
Archived == NextStart > EndVersion

Succeed ==
    /\ pc = "done"
    /\ goal = "final" \/ Archived \/ LimitReached(got)
    /\ Stop("ok")
    /\ UNCHANGED <<diskVars, faults>>

Interrupted ==
    /\ pc = "done"
    /\ goal = "interrupt"
    /\ ~ Archived
    /\ ~ LimitReached(got)

GiveUp ==
    /\ Interrupted
    /\ retries >= MaxStreamRetries
    /\ Stop("error")
    /\ UNCHANGED <<diskVars, faults>>

KnownToRetry_Stale == {}

\* The retry reloads the chunk list from the checkpoint it has just written.
KnownToRetry == ResumeList

Retry ==
    /\ Interrupted
    /\ retries < MaxStreamRetries
    /\ LoadOk
    /\ Open(NextStart, KnownToRetry)
    /\ spent' = spent + got
    /\ retries' = retries + 1
    /\ UNCHANGED <<diskVars, full, exit, faults>>

-----------------------------------------------------------------------------
\* The process is killed, or unwinds on an I/O error, between any two steps.
Crash ==
    /\ pc # "down"
    /\ Fault("crash")
    /\ Stop("crash")
    /\ UNCHANGED diskVars

\* What a running recorder does if it is left alone.
Run ==
    \/ Receive \/ StreamEnds \/ StreamFails
    \/ NoChunk \/ FinishChunk \/ RefuseChunk
    \/ FinishKeys \/ WriteCorpus \/ SaveCheckpoint
    \/ Succeed \/ GiveUp \/ Retry

\* The script starts the recorder again until it exits with status 0.
Script == exit # "ok" /\ Launch

Next == Plan \/ Launch \/ LaunchRefused \/ Run \/ Crash

Spec == Init /\ [][Next]_vars

\* A recorder that runs is scheduled, its stream delivers, fails or ends, and the
\* script is not stopped.
Fairness == WF_vars(Run) /\ WF_vars(Script)

FairSpec == Spec /\ Fairness

-----------------------------------------------------------------------------
(* Properties. *)

VersionSet == FirstVersion..EndVersion

\* Every variable has its type; no variable of an idle process is set.
TypeOK ==
    /\ chunks \subseteq Range
    /\ ckpt \in [exists : BOOLEAN, next : FirstVersion..(EndVersion + 1),
                 list : SUBSET Range]
    /\ keyFiles \subseteq Range
    /\ corpus.first \in VersionSet
    /\ corpus.last \in (FirstVersion - 1)..EndVersion
    /\ pc \in {"down", "stream", "finish", "keys", "corpus", "save", "done"}
    /\ goal \in {"chunk", "final", "interrupt"}
    /\ from \in VersionSet
    /\ last \in (FirstVersion - 1)..EndVersion
    /\ active \in FirstVersion..(EndVersion + 1)
    /\ list \subseteq Range
    /\ full \in Nat
    /\ got \in Nat
    /\ spent \in Nat
    /\ retries \in 0..MaxStreamRetries
    /\ exit \in {"none", "running", "ok", "error", "crash"}
    /\ faults \in 0..MaxFaults
    /\ pc = "down" => Idle

\* S splits the versions from FirstVersion up to n, n excluded.
Splits(S, n) ==
    /\ \A c \in S : FirstVersion <= c.first /\ c.first <= c.last /\ c.last < n
    /\ \A v \in FirstVersion..(n - 1) : \E c \in S : In(v, c)
    /\ \A c, d \in S : (\E v \in VersionSet : In(v, c) /\ In(v, d)) => c = d

\* The chunks the checkpoint lists are on disk and hold every version below its
\* cursor exactly once, whatever was killed, interrupted or resumed before: a run
\* that resumes skips nothing and lists nothing twice.
CheckpointSound ==
    ckpt.exists => ckpt.list \subseteq chunks /\ Splits(ckpt.list, ckpt.next)

\* Completed chunks that neither the checkpoint nor the running process knows.
Orphans == chunks \ (IF pc = "down" THEN ResumeList ELSE list)

\* normalize accepts the raw directory as long as no chunk is orphaned.
NormalizesUnlessOrphaned == Orphans = {} => Contiguous(chunks)

\* Only a kill leaves a first orphan behind: no refusal, interruption, byte limit,
\* retry or early end of the stream does.
OnlyCrashOrphans ==
    [][Orphans = {} /\ Orphans' # {} => exit' = "crash"]_vars

\* The cursor a resumed run would start from never moves back, also when the
\* checkpoint takes over from the chunk names.
CursorNeverMovesBack == [][ResumeCursor' >= ResumeCursor]_vars

\* All attempts of one process together exceed the byte limit by less than the last
\* transaction: a retry does not start a new allowance.
ByteBudget == \E b \in TxBytes : spent + got < MaxRawBytes + b

\* The benchmark's point queries and the key files never name a version whose
\* transaction is not in a completed chunk.
QueryKeysStored ==
    \A k \in keyFiles \cup {corpus} : \A v \in k.first..k.last : Stored(v)

\* The archive implements the promise of RawArchive.
Archive == INSTANCE RawArchive WITH
    held <- {v \in VersionSet : Stored(v)},
    cursor <- ResumeCursor

ImplementsArchive == Archive!Spec

\* However often it is stopped and started again, the whole range is recorded in the end
\* (docs/REAL_DATA_PREP.md: "Recorder can resume without overwriting completed chunks").
EventuallyArchived == <>(ResumeCursor = EndVersion + 1)

\* When the recorder may also be killed, the range is recorded in the end unless the
\* kill orphaned a chunk: every other moment to be killed at is harmless.
ArchivedUnlessOrphaned == <>(ResumeCursor = EndVersion + 1 \/ Orphans # {})

\* As long as it is not killed, the script sees the recorder succeed and its loop ends.
ScriptSucceeds == [](exit # "crash") => <>(exit = "ok")
=============================================================================
