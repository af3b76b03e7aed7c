---------------------------- MODULE AtomicFiles ----------------------------
(***************************************************************************)
(* How the commands put a file in its place: atomic_write, for every file  *)
(* that a reader may meet, and the recorder's chunks, which have steps of  *)
(* their own.  Dataset and Recorder take a replaced file for one step;     *)
(* here it is the system calls that make it so, on a file system whose     *)
(* processes are killed and whose power fails, and with several processes  *)
(* that write one file under one temporary name.                           *)
(*                                                                         *)
(* The file system keeps POSIX's promises and no others, but for the       *)
(* changes of a directory: these become durable in their order, as a       *)
(* journal makes them.  The content of a file, and a change of a           *)
(* directory, that nobody has synced may or may not outlive the power.     *)
(***************************************************************************)
EXTENDS Integers, Sequences

CONSTANTS
    Recorders,      \* processes that record: chunks, keys and checkpoints
    Corpora,        \* processes that write a query file, as build-query-corpus does
    Size(_),        \* how many blocks, 1 or 2, the files of a process have
    MaxChunks,      \* how many chunks there are to record
    MaxInodes,      \* how many inodes the file system has (bounds the model)
    MaxStarts,      \* how often a process is started (bounds the model)
    MaxKills,       \* how often one is killed, or a call fails (bounds the model)
    MaxLosses       \* how often the power fails (bounds the model)

Procs == Recorders \cup Corpora

ASSUME AtomicFilesAssumption ==
    /\ Recorders \cap Corpora = {}
    /\ "final" \notin Procs
    /\ \A p \in Procs : Size(p) \in 1..2
    /\ MaxChunks \in Nat
    /\ MaxInodes \in Nat
    /\ MaxStarts \in Nat
    /\ MaxKills \in Nat
    /\ MaxLosses \in Nat

VARIABLES
    \* The file system.
    dir,        \* the directory: from the names that exist to inodes
    views,      \* the directories that a loss of power may leave
    content,    \* the blocks of an inode, as a process reads them
    stable,     \* and as they were when they were last synced
    \* The processes.
    job,        \* the file a process is writing
    ip,         \* the system call it has come to
    fd,         \* the file it has open
    \* History.
    serial,     \* of the last write of each file that has begun
    durable,    \* the serial of the newest write of a file that was reported done
    shared,     \* files that were last written by two processes at once
    loud,       \* and those of them one of whose writers failed
    starts, kills, losses

fsVars == <<dir, views, content, stable>>
procVars == <<job, ip, fd>>
historyVars == <<serial, durable, shared, loud>>
boundVars == <<starts, kills, losses>>
vars == <<fsVars, procVars, historyVars, boundVars>>

-----------------------------------------------------------------------------
(* Names.  A file's temporary name is the file's own name and ".tmp"; the  *)
(* one of a chunk has the process id in it.                                *)

Points == <<"points", 0, "final">>          \* queries/point_tx_versions.ndjson
Checkpoint == <<"checkpoint", 0, "final">>  \* record_checkpoint.json
Chunk(j) == <<"chunk", j, "final">>

\* tmp_path_for
Tmp(file) == <<file[1], file[2], "tmp">>

\* ActiveTransactionChunkWriter::create
ChunkTmp(p, j) == <<"chunk", j, p>>

Files == {Points, Checkpoint} \cup {Chunk(j) : j \in 1..MaxChunks}

-----------------------------------------------------------------------------
(* What is written, call by call. *)

AtomicCalls_NoSync == <<"create", "write", "write", "rename", "syncDir">>

AtomicCalls_NoDirSync == <<"create", "write", "write", "sync", "rename">>

\* atomic_write
AtomicCalls == <<"create", "write", "write", "sync", "rename", "syncDir">>

ChunkCalls_NoSync == <<"create", "write", "absent", "write", "rename">>

\* TransactionChunkWriter's writes, and ActiveTransactionChunkWriter::finish: "absent"
\* refuses to overwrite a chunk, and the last block is written after it.
ChunkCalls == <<"create", "write", "absent", "write", "sync", "rename">>

\* A file to write: lists is the number of chunks that a checkpoint names.
AtomicWrite(file, lists) ==
    [file |-> file, tmp |-> Tmp(file), calls |-> AtomicCalls, lists |-> lists]

WriteChunk(p, j) ==
    [file |-> Chunk(j), tmp |-> ChunkTmp(p, j), calls |-> ChunkCalls, lists |-> 0]

\* A process that has nothing to write.
NoJob == [file |-> Points, tmp |-> Points, calls |-> <<>>, lists |-> 0]

\* After a full chunk there is a checkpoint; after the last one the keys come first.
AfterChunk(j) ==
    IF j < MaxChunks THEN AtomicWrite(Checkpoint, j) ELSE AtomicWrite(Points, 0)

AfterPoints(p) == IF p \in Recorders THEN AtomicWrite(Checkpoint, MaxChunks) ELSE NoJob

AfterCheckpoint(p, j) == IF j < MaxChunks THEN WriteChunk(p, j + 1) ELSE NoJob

\* The file that a process writes when its present one is in its place.
NextJob(p) ==
    CASE job[p].file = Points -> AfterPoints(p)
      [] job[p].file = Checkpoint -> AfterCheckpoint(p, job[p].lists)
      [] OTHER -> AfterChunk(job[p].file[2])

-----------------------------------------------------------------------------
(* The file system. *)

Exists(d, name) == name \in DOMAIN d

Hole == [serial |-> 0, size |-> 0, lists |-> 0]
Empty == [b \in 1..2 |-> Hole]

\* One process has written it, from the first block to the last.
Whole(c) ==
    /\ c[1] # Hole
    /\ c[2] = IF c[1].size = 2 THEN c[1] ELSE Hole

Open(p) == fd[p].ino # 0

Used == {dir[name] : name \in DOMAIN dir} \cup
        (UNION {{d[name] : name \in DOMAIN d} : d \in views}) \cup
        {fd[p].ino : p \in Procs}

Inodes == 1..MaxInodes

Free == Inodes \ Used

NewInode == CHOOSE i \in Free : TRUE

Closed == [ino |-> 0, at |-> 0, serial |-> 0, size |-> 0, lists |-> 0, alone |-> FALSE]

NotAlone(open) == [open EXCEPT !.alone = FALSE]

Init ==
    /\ dir = <<>>
    /\ views = {<<>>}
    /\ content = [i \in Inodes |-> Empty]
    /\ stable = [i \in Inodes |-> Empty]
    /\ job = [p \in Procs |-> NoJob]
    /\ ip = [p \in Procs |-> 1]
    /\ fd = [p \in Procs |-> Closed]
    /\ serial = [f \in Files |-> 0]
    /\ durable = [f \in Files |-> 0]
    /\ shared = {}
    /\ loud = {}
    /\ starts = 0
    /\ kills = 0
    /\ losses = 0

\* The changed directory is seen at once, and may be what the power leaves.
Change(d) == dir' = d /\ views' = views \cup {d}

\* The directory with a name for an inode.
Named(name, i) == [n \in DOMAIN dir \cup {name} |-> IF n = name THEN i ELSE dir[n]]

-----------------------------------------------------------------------------
(* Processes. *)

Running(p) == job[p] # NoJob

At(p, call) == Running(p) /\ job[p].calls[ip[p]] = call

WritersOf(file) == {p \in Procs : Open(p) /\ job[p].file = file}

\* load_record_resume_state reads the checkpoint, and cannot read a torn one.
Resumable == Exists(dir, Checkpoint) => Whole(content[dir[Checkpoint]])

Recorded == IF Exists(dir, Checkpoint) THEN content[dir[Checkpoint]][1].lists ELSE 0

Start(p) ==
    /\ ~ Running(p)
    /\ starts < MaxStarts
    /\ IF p \in Recorders
          THEN /\ Resumable
               /\ Recorded < MaxChunks
               /\ job' = [job EXCEPT ![p] = WriteChunk(p, Recorded + 1)]
          ELSE job' = [job EXCEPT ![p] = AtomicWrite(Points, 0)]
    /\ ip' = [ip EXCEPT ![p] = 1]
    /\ starts' = starts + 1
    /\ UNCHANGED <<fsVars, fd, historyVars, kills, losses>>

\* The call has succeeded; after its last call the file is done.
Done(p) ==
    IF ip[p] < Len(job[p].calls)
    THEN /\ ip' = [ip EXCEPT ![p] = @ + 1]
         /\ UNCHANGED <<job, durable, shared, loud>>
    ELSE /\ ip' = [ip EXCEPT ![p] = 1]
         /\ job' = [job EXCEPT ![p] = NextJob(p)]
         /\ IF fd[p].alone
               THEN /\ durable' = [durable EXCEPT ![job[p].file] = fd[p].serial]
                    /\ shared' = shared \ {job[p].file}
                    /\ loud' = loud \ {job[p].file}
               ELSE UNCHANGED <<durable, shared, loud>>

Continue(p) == Done(p) /\ UNCHANGED <<serial, boundVars>>

\* The processes end with an error or are killed; what they wrote stays.
Stop(procs) ==
    /\ job' = [p \in Procs |-> IF p \in procs THEN NoJob ELSE job[p]]
    /\ ip' = [p \in Procs |-> IF p \in procs THEN 1 ELSE ip[p]]
    /\ fd' = [p \in Procs |-> IF p \in procs THEN Closed ELSE fd[p]]
    /\ loud' = loud \cup {job[p].file : p \in {q \in procs : Open(q)}}
    /\ UNCHANGED <<serial, durable, shared>>

\* File::create: an existing file is truncated, also one that another process writes.
Create(p) ==
    /\ At(p, "create")
    /\ LET file == job[p].file
           old == Exists(dir, job[p].tmp)
           i == IF old THEN dir[job[p].tmp] ELSE NewInode
           others == WritersOf(file)
       IN  /\ old \/ Free # {}
           /\ content' = [content EXCEPT ![i] = Empty]
           /\ stable' = IF old THEN stable ELSE [stable EXCEPT ![i] = Empty]
           /\ IF old THEN UNCHANGED <<dir, views>> ELSE Change(Named(job[p].tmp, i))
           /\ fd' = [q \in Procs |->
                        IF q = p
                        THEN [ino |-> i, at |-> 0, serial |-> serial[file] + 1,
                              size |-> Size(p), lists |-> job[p].lists,
                              alone |-> others = {}]
                        ELSE IF q \in others THEN NotAlone(fd[q])
                        ELSE fd[q]]
           /\ shared' = IF others = {} THEN shared ELSE shared \cup {file}
           /\ serial' = [serial EXCEPT ![file] = @ + 1]
    /\ ip' = [ip EXCEPT ![p] = @ + 1]
    /\ UNCHANGED <<job, durable, loud, boundVars>>

\* The next block, if there is one, at the offset of this process.
Write(p) ==
    /\ At(p, "write")
    /\ LET at == fd[p].at + 1
           block == [serial |-> fd[p].serial, size |-> fd[p].size, lists |-> fd[p].lists]
       IN  IF at <= fd[p].size
           THEN /\ content' = [content EXCEPT ![fd[p].ino][at] = block]
                /\ fd' = [fd EXCEPT ![p].at = at]
           ELSE UNCHANGED <<content, fd>>
    /\ Continue(p)
    /\ UNCHANGED <<dir, views, stable>>

Sync(p) ==
    /\ At(p, "sync")
    /\ stable' = [stable EXCEPT ![fd[p].ino] = content[fd[p].ino]]
    /\ Continue(p)
    /\ UNCHANGED <<dir, views, content, fd>>

\* final_path.exists
CheckAbsent(p) ==
    /\ At(p, "absent")
    /\ ~ Exists(dir, job[p].file)
    /\ Continue(p)
    /\ UNCHANGED <<fsVars, fd>>

RefuseChunk(p) ==
    /\ At(p, "absent")
    /\ Exists(dir, job[p].file)
    /\ Stop({p})
    /\ UNCHANGED <<fsVars, boundVars>>

Renamed(tmp, file) ==
    [n \in (DOMAIN dir \ {tmp}) \cup {file} |-> IF n = file THEN dir[tmp] ELSE dir[n]]

Rename(p) ==
    /\ At(p, "rename")
    /\ Exists(dir, job[p].tmp)
    /\ Change(Renamed(job[p].tmp, job[p].file))
    /\ fd' = IF ip[p] = Len(job[p].calls) THEN [fd EXCEPT ![p] = Closed] ELSE fd
    /\ Continue(p)
    /\ UNCHANGED <<content, stable>>

MissingIsLoud_Ignored(p) == Continue(p) /\ UNCHANGED fd

\* The error of a rename is returned.
MissingIsLoud(p) == Stop({p}) /\ UNCHANGED boundVars

\* Another process has taken the temporary name away.
RenameMissing(p) ==
    /\ At(p, "rename")
    /\ ~ Exists(dir, job[p].tmp)
    /\ MissingIsLoud(p)
    /\ UNCHANGED fsVars

\* sync_parent_dir
SyncDir(p) ==
    /\ At(p, "syncDir")
    /\ views' = {dir}
    /\ fd' = [fd EXCEPT ![p] = Closed]
    /\ Continue(p)
    /\ UNCHANGED <<dir, content, stable>>

\* The process is killed, or one of its calls fails.
Kill(p) ==
    /\ Running(p)
    /\ kills < MaxKills
    /\ kills' = kills + 1
    /\ Stop({p})
    /\ UNCHANGED <<fsVars, starts, losses>>

-----------------------------------------------------------------------------
(* Loss of power. *)

\* What may be found in an inode after it: of each block the synced or the newer one.
Remains(i) ==
    {[b \in 1..2 |-> IF b \in old THEN stable[i][b] ELSE content[i][b]] :
        old \in SUBSET (1..2)}

\* The blocks of the files of d that may be lost.
Unsynced(d) ==
    {u \in {d[name] : name \in DOMAIN d} \X (1..2) :
        content[u[1]][u[2]] # stable[u[1]][u[2]]}

PowerLoss ==
    /\ losses < MaxLosses
    /\ losses' = losses + 1
    /\ \E d \in views : \E lost \in SUBSET Unsynced(d) :
         /\ dir' = d
         /\ views' = {d}
         /\ content' = [i \in Inodes |->
                IF i \in {d[name] : name \in DOMAIN d}
                THEN [b \in 1..2 |->
                        IF <<i, b>> \in lost THEN stable[i][b] ELSE content[i][b]]
                ELSE Empty]
    /\ stable' = content'
    /\ Stop(Procs)
    /\ UNCHANGED <<starts, kills>>

Next ==
    \/ \E p \in Procs :
         \/ Start(p) \/ Create(p) \/ Write(p) \/ Sync(p) \/ CheckAbsent(p)
         \/ RefuseChunk(p) \/ Rename(p) \/ RenameMissing(p) \/ SyncDir(p) \/ Kill(p)
    \/ PowerLoss

Spec == Init /\ [][Next]_vars

-----------------------------------------------------------------------------
(* Properties. *)

\* What a reader finds under a name now, and what it may find after a loss of power.
NowOrLater(file) ==
    {content[d[file]] : d \in {d \in {dir} : Exists(d, file)}} \cup
    (UNION {Remains(d[file]) : d \in {d \in views : Exists(d, file)}})

\* A file that no two processes write at once is never seen in part: whenever a reader
\* looks, at whatever call the writer is killed and whenever the power fails
\* (atomic_write and the recorder's chunks).
NeverInPart ==
    \A file \in Files \ shared : \A c \in NowOrLater(file) : Whole(c)

\* A write that has been reported done outlives the power: what is found is that content
\* or that of a later write.
SuccessIsDurable ==
    \A file \in {Points, Checkpoint} \ shared :
        durable[file] > 0 =>
            /\ \A d \in views : Exists(d, file)
            /\ \A c \in NowOrLater(file) : c[1].serial >= durable[file]

\* A checkpoint that can be read names chunks that are there, whole, now and after any
\* loss of power, although the rename of a chunk is not synced by itself.
CheckpointBacked ==
    \A d \in views :
        Exists(d, Checkpoint) =>
            \A c \in Remains(d[Checkpoint]) : \A j \in 1..c[1].lists :
                /\ Exists(d, Chunk(j))
                /\ \A k \in Remains(d[Chunk(j)]) : Whole(k)

\* Two commands that write one file at once may leave it torn, for they use one temporary
\* name; but never without one of them failing.
TornIsLoud ==
    \A file \in Files :
        Exists(dir, file) /\ WritersOf(file) = {} /\ file \notin loud =>
            Whole(content[dir[file]])
=============================================================================
