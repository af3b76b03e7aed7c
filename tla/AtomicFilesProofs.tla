-------------------------- MODULE AtomicFilesProofs --------------------------
(***************************************************************************)
(* Theorems about AtomicFiles, for any number of recorders and of other    *)
(* writers, chunks, kills and losses of power, and files of either size.   *)
(***************************************************************************)
EXTENDS AtomicFiles, TLAPS

-----------------------------------------------------------------------------
(* Names, and what the variables hold. *)

Atomic == {Points, Checkpoint}

Names ==
    Files \cup {Tmp(file) : file \in Atomic} \cup
    {ChunkTmp(p, j) : p \in Procs, j \in 1..MaxChunks}

Block == [serial : Nat, size : 0..2, lists : 0..MaxChunks]

Jobs ==
    [file : Files, tmp : Names, calls : {<<>>, AtomicCalls, ChunkCalls},
     lists : 0..MaxChunks]

Handle ==
    [ino : 0..MaxInodes, at : 0..2, serial : Nat, size : 0..2, lists : 0..MaxChunks,
     alone : BOOLEAN]

TypePart ==
    /\ content \in [Inodes -> [1..2 -> Block]]
    /\ stable \in [Inodes -> [1..2 -> Block]]
    /\ job \in [Procs -> Jobs]
    /\ ip \in [Procs -> 1..6]
    /\ fd \in [Procs -> Handle]
    /\ serial \in [Files -> Nat]
    /\ durable \in [Files -> Nat]
    /\ shared \subseteq Files
    /\ loud \subseteq Files

-----------------------------------------------------------------------------
(* Processes. *)

\* The chunks that a checkpoint of k chunks names are there.
Backed(d, k) == \A j \in 1..k : Chunk(j) \in DOMAIN d

\* A process writes a chunk when the chunks before it are there, and a checkpoint, or the
\* keys, when the chunks are that the checkpoint will name.
JobPart ==
    \A p \in Procs :
        \/ job[p] = NoJob
        \/ p \in Recorders /\ \E j \in 1..MaxChunks :
              \/ job[p] = WriteChunk(p, j) /\ Backed(dir, j - 1)
              \/ job[p] = AtomicWrite(Checkpoint, j) /\ Backed(dir, j)
        \/ /\ job[p] = AtomicWrite(Points, 0)
           /\ p \in Recorders => MaxChunks > 0 /\ Backed(dir, MaxChunks)

WritesChunk(p) == job[p].calls = ChunkCalls

\* The calls at which a process renames its file, and how many blocks it has written.
RenameAt(p) == IF WritesChunk(p) THEN 6 ELSE 5

Written(p) ==
    IF ip[p] = 2 THEN 0
    ELSE IF ip[p] = 3 \/ (ip[p] = 4 /\ WritesChunk(p)) THEN 1
    ELSE Size(p)

Unplaced(p) == Open(p) /\ ip[p] <= RenameAt(p)
Synced(p) == Open(p) /\ ip[p] >= RenameAt(p)

\* What a process knows of the file that it has open.
HandlePart ==
    \A p \in Procs :
        /\ Open(p) <=> ip[p] # 1
        /\ job[p] = NoJob => ip[p] = 1
        /\ Open(p) => /\ fd[p].at = Written(p)
                      /\ fd[p].size = Size(p)
                      /\ fd[p].lists = job[p].lists
                      /\ fd[p].serial \in 1..serial[job[p].file]

BlockOf(p) == [serial |-> fd[p].serial, size |-> fd[p].size, lists |-> fd[p].lists]

\* Nobody but the process has written the file since it opened it, and when it has synced it
\* everything is stable.
Clean(p) ==
    LET i == fd[p].ino IN
    /\ \A b \in 1..2 : content[i][b] = IF b <= fd[p].at THEN BlockOf(p) ELSE Hole
    /\ Synced(p) => stable[i] = content[i]

-----------------------------------------------------------------------------
(* The directory. *)

IsDirectory(d) ==
    /\ DOMAIN d \subseteq Names
    /\ d \in [DOMAIN d -> Inodes]
    /\ \A m, n \in DOMAIN d : d[m] = d[n] => m = n

\* A file under its temporary name is under no other in any directory that may be found.
DirPart ==
    /\ dir \in views
    /\ \A d \in views : IsDirectory(d)
    /\ \A d \in views : \A tmp \in DOMAIN dir \ Files : \A n \in DOMAIN d :
          d[n] = dir[tmp] => n = tmp

\* An open file is only found under the two names of its process, which it may share with
\* the others that write this file.
OwnPart ==
    \A p \in Procs : Open(p) =>
        /\ \A d \in views : \A n \in DOMAIN d :
              d[n] = fd[p].ino => n \in {job[p].file, job[p].tmp}
        /\ \A q \in Procs : Open(q) /\ fd[q].ino = fd[p].ino => job[q].tmp = job[p].tmp

-----------------------------------------------------------------------------
(* The files. *)

Sound(i) == content[i] = stable[i] /\ Whole(content[i])

InPlace(p) == job[p].tmp \in DOMAIN dir /\ dir[job[p].tmp] = fd[p].ino

\* A chunk is written under a name of the process's own, and sound when it has its name.
ChunkPart ==
    /\ \A p \in Procs : Open(p) /\ WritesChunk(p) => InPlace(p) /\ Clean(p)
    /\ \A d \in views : \A j \in 1..MaxChunks :
          Chunk(j) \in DOMAIN d => Sound(d[Chunk(j)])

\* A process that has been alone with its file since it opened it.
AlonePart ==
    \A p \in Procs : Open(p) /\ fd[p].alone /\ job[p].file \in Atomic =>
        /\ WritersOf(job[p].file) = {p}
        /\ fd[p].serial = serial[job[p].file]
        /\ Clean(p)
        /\ Unplaced(p) => InPlace(p)
        /\ ~ Unplaced(p) => /\ job[p].file \in DOMAIN dir
                            /\ dir[job[p].file] = fd[p].ino

\* A file that is written by one process at a time.
UnsharedPart ==
    \A file \in Atomic :
        /\ durable[file] <= serial[file]
        /\ file \notin shared =>
            /\ \A p \in WritersOf(file) : fd[p].alone
            /\ \A d \in views :
                  /\ durable[file] > 0 => file \in DOMAIN d
                  /\ file \in DOMAIN d => /\ Sound(d[file])
                                          /\ content[d[file]][1].serial >= durable[file]

\* A file none of whose writers has failed: who is the last to rename it has been alone
\* with its temporary file.
LoudPart ==
    \A file \in Atomic \ loud :
        /\ (\A p \in WritersOf(file) : ~ Unplaced(p)) /\ file \in DOMAIN dir =>
              Sound(dir[file])
        /\ WritersOf(file) = {} => \A d \in views : file \in DOMAIN d => Sound(d[file])
        /\ \A p \in WritersOf(file) :
              Unplaced(p) /\ Tmp(file) \in DOMAIN dir /\
              (\A q \in WritersOf(file) : Unplaced(q) => q = p) => InPlace(p) /\ Clean(p)

\* What checkpoints name is there in the directories that they are in: those that have
\* their name, and those that will have it before they are written again.
ListsPart ==
    /\ \A d \in views : Checkpoint \in DOMAIN d =>
          /\ Backed(d, content[d[Checkpoint]][1].lists)
          /\ Backed(d, stable[d[Checkpoint]][1].lists)
          /\ \A p \in WritersOf(Checkpoint) :
                fd[p].ino = d[Checkpoint] => Backed(d, fd[p].lists)
    /\ Tmp(Checkpoint) \in DOMAIN dir =>
          \A p \in WritersOf(Checkpoint) : Unplaced(p) =>
              /\ Backed(dir, content[dir[Tmp(Checkpoint)]][1].lists)
              /\ Synced(p) \/ fd[p].ino # dir[Tmp(Checkpoint)] =>
                    Backed(dir, stable[dir[Tmp(Checkpoint)]][1].lists)

\* The inductive invariant.
AtomicInv ==
    /\ TypePart
    /\ JobPart
    /\ HandlePart
    /\ DirPart
    /\ OwnPart
    /\ ChunkPart
    /\ AlonePart
    /\ UnsharedPart
    /\ LoudPart
    /\ ListsPart

-----------------------------------------------------------------------------
(* Names and jobs. *)

\* The names that the files of a recording are given are told apart.
LEMMA NamesAre ==
    /\ Points # Checkpoint /\ Atomic \subseteq Files
    /\ \A j : Chunk(j) \notin Atomic
    /\ \A j \in 1..MaxChunks : Chunk(j) \in Files
    /\ \A file \in Files : file \in Atomic \/ \E j \in 1..MaxChunks : file = Chunk(j)
    /\ \A file \in Atomic : Tmp(file) \in Names \ Files
    /\ \A file, g \in Atomic : Tmp(file) = Tmp(g) => file = g
    /\ \A p \in Procs, j \in 1..MaxChunks : ChunkTmp(p, j) \in Names \ Files
    /\ \A p, q \in Procs, j, k \in 1..MaxChunks :
          ChunkTmp(p, j) = ChunkTmp(q, k) => p = q /\ j = k
    /\ \A p, j : \A file \in Atomic : ChunkTmp(p, j) # Tmp(file)
    /\ \A j, k : Chunk(j) = Chunk(k) => j = k
    /\ Files \subseteq Names
BY AtomicFilesAssumption
   DEF Points, Checkpoint, Chunk, Tmp, ChunkTmp, Files, Names, Atomic

\* The calls by their places.
LEMMA CallsAre ==
    /\ Len(AtomicCalls) = 6 /\ Len(ChunkCalls) = 6 /\ AtomicCalls # ChunkCalls
    /\ AtomicCalls # <<>> /\ ChunkCalls # <<>>
    /\ AtomicCalls[1] = "create" /\ AtomicCalls[2] = "write" /\ AtomicCalls[3] = "write"
    /\ AtomicCalls[4] = "sync" /\ AtomicCalls[5] = "rename" /\ AtomicCalls[6] = "syncDir"
    /\ ChunkCalls[1] = "create" /\ ChunkCalls[2] = "write" /\ ChunkCalls[3] = "absent"
    /\ ChunkCalls[4] = "write" /\ ChunkCalls[5] = "sync" /\ ChunkCalls[6] = "rename"
<1>1. AtomicCalls[1] # ChunkCalls[1] \/ AtomicCalls[3] # ChunkCalls[3]
  BY DEF AtomicCalls, ChunkCalls
<1> QED BY <1>1 DEF AtomicCalls, ChunkCalls

\* What a running process may be writing.
LEMMA JobIs ==
    ASSUME JobPart, NEW p \in Procs, Running(p)
    PROVE  /\ job[p].file \in Files /\ job[p].tmp \in Names \ Files
           /\ Len(job[p].calls) = 6
           /\ \/ /\ job[p].calls = AtomicCalls /\ ~ WritesChunk(p)
                 /\ job[p].file \in Atomic /\ job[p].tmp = Tmp(job[p].file)
              \/ /\ job[p].calls = ChunkCalls /\ WritesChunk(p) /\ p \in Recorders
                 /\ job[p].file \notin Atomic
                 /\ \E j \in 1..MaxChunks :
                      job[p] = WriteChunk(p, j) /\ Backed(dir, j - 1)
           /\ job[p].file = Checkpoint => Backed(dir, job[p].lists)
           /\ job[p].file = Checkpoint => p \in Recorders /\ job[p].lists \in 1..MaxChunks
<1>1. CASE p \in Recorders /\ \E j \in 1..MaxChunks : job[p] = WriteChunk(p, j) /\ Backed(dir, j - 1)
  <2>1. PICK j \in 1..MaxChunks : job[p] = WriteChunk(p, j) /\ Backed(dir, j - 1)
    BY <1>1
  <2>2. /\ job[p].file = Chunk(j) /\ job[p].tmp = ChunkTmp(p, j) /\ job[p].calls = ChunkCalls
    BY <2>1 DEF WriteChunk
  <2> QED BY <1>1, <2>1, <2>2, NamesAre, CallsAre DEF WritesChunk, Atomic
<1>2. CASE p \in Recorders /\ \E j \in 1..MaxChunks : job[p] = AtomicWrite(Checkpoint, j) /\ Backed(dir, j)
  <2>1. PICK j \in 1..MaxChunks : job[p] = AtomicWrite(Checkpoint, j) /\ Backed(dir, j)
    BY <1>2
  <2>2. /\ job[p].file = Checkpoint /\ job[p].tmp = Tmp(Checkpoint)
        /\ job[p].calls = AtomicCalls /\ job[p].lists = j
    BY <2>1 DEF AtomicWrite
  <2> QED BY <1>2, <2>1, <2>2, NamesAre, CallsAre DEF WritesChunk, Atomic
<1>3. CASE job[p] = AtomicWrite(Points, 0)
  <2>1. /\ job[p].file = Points /\ job[p].tmp = Tmp(Points) /\ job[p].calls = AtomicCalls
    BY <1>3 DEF AtomicWrite
  <2> QED BY <2>1, NamesAre, CallsAre DEF WritesChunk, Atomic
<1> QED BY <1>1, <1>2, <1>3 DEF JobPart, Running

\* Where the calls of a process are in their order.
LEMMA CallIs ==
    ASSUME TypePart, JobPart, HandlePart, NEW p \in Procs, Running(p)
    PROVE  /\ At(p, "create") => ip[p] = 1 /\ ~ Open(p)
           /\ ip[p] # 1 => Open(p)
           /\ At(p, "write") =>
                ip[p] = 2 \/ (ip[p] = 3 /\ ~ WritesChunk(p)) \/ (ip[p] = 4 /\ WritesChunk(p))
           /\ At(p, "absent") => ip[p] = 3 /\ WritesChunk(p)
           /\ At(p, "sync") => ip[p] + 1 = RenameAt(p)
           /\ At(p, "rename") => ip[p] = RenameAt(p)
           /\ At(p, "syncDir") => ip[p] = 6 /\ ~ WritesChunk(p)
           /\ ip[p] \in 1..6 /\ RenameAt(p) \in 5..6
<1>1. ip[p] \in {1, 2, 3, 4, 5, 6}
  BY DEF TypePart
<1> QED BY <1>1, JobIs, CallsAre DEF At, HandlePart, WritesChunk, RenameAt

\* Who writes under one temporary name.
LEMMA TmpTells ==
    ASSUME JobPart, NEW p \in Procs, NEW q \in Procs, Running(p), Running(q)
    PROVE  /\ job[p].tmp = job[q].tmp => job[p].file = job[q].file
           /\ job[p].tmp = job[q].tmp /\ WritesChunk(p) => p = q
           /\ job[p].file = job[q].file /\ ~ WritesChunk(p) => job[p].tmp = job[q].tmp
<1>1. ASSUME NEW r \in Procs, Running(r), WritesChunk(r)
      PROVE  \E j \in 1..MaxChunks : job[r].tmp = ChunkTmp(r, j) /\ job[r].file = Chunk(j)
  <2>1. PICK j \in 1..MaxChunks : job[r] = WriteChunk(r, j)
    BY <1>1, JobIs
  <2>2. job[r].tmp = ChunkTmp(r, j) /\ job[r].file = Chunk(j)
    BY <2>1 DEF WriteChunk
  <2> QED BY <2>2
<1>2. ASSUME NEW r \in Procs, Running(r), ~ WritesChunk(r)
      PROVE  job[r].file \in Atomic /\ job[r].tmp = Tmp(job[r].file)
  BY <1>2, JobIs
<1> QED BY <1>1, <1>2, NamesAre

\* Jobs, handles and blocks of the right type.
LEMMA Typed ==
    /\ NoJob \in Jobs
    /\ Closed \in Handle
    /\ Hole \in Block /\ Empty \in [1..2 -> Block]
    /\ \A p \in Procs, j \in 1..MaxChunks : WriteChunk(p, j) \in Jobs
    /\ \A file \in Atomic, k \in 0..MaxChunks : AtomicWrite(file, k) \in Jobs
    /\ \A p, j : WriteChunk(p, j) # NoJob
    /\ \A file, k : AtomicWrite(file, k) # NoJob
<1>1. Points \in Files /\ Points \in Names /\ 0 \in 0..MaxChunks
  BY NamesAre, AtomicFilesAssumption DEF Atomic
<1>2. Closed \in Handle
  BY <1>1, AtomicFilesAssumption DEF Closed, Handle
<1>3. \A p, j : WriteChunk(p, j).calls = ChunkCalls
  BY DEF WriteChunk
<1>4. \A file, k : AtomicWrite(file, k).calls = AtomicCalls
  BY DEF AtomicWrite
<1>5. NoJob.calls = <<>>
  BY DEF NoJob
<1>6. ASSUME NEW p \in Procs, NEW j \in 1..MaxChunks PROVE WriteChunk(p, j) \in Jobs
  BY <1>1, NamesAre DEF WriteChunk, Jobs
<1>7. ASSUME NEW file \in Atomic, NEW k \in 0..MaxChunks PROVE AtomicWrite(file, k) \in Jobs
  BY NamesAre DEF AtomicWrite, Jobs
<1>8. NoJob \in Jobs
  BY <1>1 DEF NoJob, Jobs
<1>9. Hole \in Block /\ Empty \in [1..2 -> Block]
  BY <1>1 DEF Hole, Block, Empty
<1> QED BY <1>2, <1>3, <1>4, <1>5, <1>6, <1>7, <1>8, <1>9, CallsAre

\* The invariant holds of an empty directory.
LEMMA AtomicInit == Init => AtomicInv
<1> SUFFICES ASSUME Init PROVE AtomicInv
  OBVIOUS
<1> USE DEF Init
<1>1. TypePart
  BY Typed, AtomicFilesAssumption DEF TypePart
<1>2. \A p \in Procs : ~ Open(p) /\ job[p] = NoJob /\ ip[p] = 1
  BY DEF Open, Closed
<1>3. JobPart /\ HandlePart
  BY <1>2 DEF JobPart, HandlePart
<1>4. DOMAIN dir = {} /\ dir \in views /\ \A d \in views : DOMAIN d = {} /\ d = dir
  OBVIOUS
<1>5. DirPart
  BY <1>4 DEF DirPart, IsDirectory
<1>6. OwnPart /\ ChunkPart /\ AlonePart
  BY <1>2, <1>4 DEF OwnPart, ChunkPart, AlonePart
<1>7. WritersOf(Points) = {} /\ WritersOf(Checkpoint) = {}
  BY <1>2 DEF WritersOf
<1>8. UnsharedPart /\ LoudPart /\ ListsPart
  BY <1>4, <1>7, NamesAre DEF UnsharedPart, LoudPart, ListsPart, Atomic
<1> QED BY <1>1, <1>3, <1>5, <1>6, <1>8 DEF AtomicInv

-----------------------------------------------------------------------------
(* Steps that leave the file system alone. *)

\* What becomes of the processes when some of them stop.
LEMMA StopDoes ==
    ASSUME TypePart, NEW procs \in SUBSET Procs, Stop(procs)
    PROVE  /\ \A p \in procs : job'[p] = NoJob /\ ip'[p] = 1 /\ ~ Open(p)'
           /\ \A p \in Procs \ procs : /\ job'[p] = job[p] /\ ip'[p] = ip[p] /\ fd'[p] = fd[p]
                                       /\ Open(p)' <=> Open(p)
           /\ \A p \in procs : Open(p) => job[p].file \in loud'
           /\ loud \subseteq loud'
BY DEF Stop, Open, Closed

\* Types after a stop.
LEMMA StopTypes ==
    ASSUME TypePart, NEW procs \in SUBSET Procs, Stop(procs),
           content' \in [Inodes -> [1..2 -> Block]], stable' \in [Inodes -> [1..2 -> Block]]
    PROVE  TypePart'
<1>1. job' \in [Procs -> Jobs] /\ ip' \in [Procs -> 1..6] /\ fd' \in [Procs -> Handle]
  BY Typed DEF TypePart, Stop
<1>2. \A p \in procs : job[p].file \in Files
  BY DEF TypePart, Jobs
<1> QED BY <1>1, <1>2 DEF TypePart, Stop

\* A process that ends, wherever it is, disturbs nothing: what it leaves in its file is
\* loud, and under a temporary name.
LEMMA StopInv ==
    ASSUME AtomicInv, NEW procs \in SUBSET Procs, Stop(procs), UNCHANGED fsVars
    PROVE  AtomicInv'
<1> USE DEF AtomicInv, fsVars
<1>1. /\ \A p \in procs : job'[p] = NoJob /\ ip'[p] = 1 /\ ~ Open(p)'
      /\ \A p \in Procs \ procs : /\ job'[p] = job[p] /\ ip'[p] = ip[p] /\ fd'[p] = fd[p]
                                  /\ Open(p)' <=> Open(p)
      /\ \A p \in procs : Open(p) => job[p].file \in loud'
      /\ loud \subseteq loud'
      /\ serial' = serial /\ durable' = durable /\ shared' = shared
  BY StopDoes DEF Stop
<1>2. TypePart'
  BY StopTypes DEF TypePart
<1>3. JobPart'
  BY <1>1 DEF JobPart, Backed
<1>4. HandlePart'
  BY <1>1 DEF HandlePart, Written, WritesChunk
<1>5. DirPart'
  BY DEF DirPart, IsDirectory
<1>6. OwnPart'
  BY <1>1 DEF OwnPart
<1>7. \A p \in Procs : Open(p)' =>
        /\ p \notin procs /\ Open(p)
        /\ WritesChunk(p)' <=> WritesChunk(p)
        /\ InPlace(p)' <=> InPlace(p)
        /\ Clean(p)' <=> Clean(p)
        /\ Unplaced(p)' <=> Unplaced(p)
        /\ Synced(p)' <=> Synced(p)
  BY <1>1 DEF WritesChunk, InPlace, Clean, Unplaced, Synced, RenameAt, BlockOf
<1>8. \A i : Sound(i)' <=> Sound(i)
  BY DEF Sound, Whole
<1>9. ChunkPart'
  BY <1>7, <1>8 DEF ChunkPart
<1>10. /\ \A file : WritersOf(file)' \subseteq WritersOf(file)
       /\ \A file \in Files \ loud' : WritersOf(file)' = WritersOf(file)
  BY <1>1 DEF WritersOf
<1>11. AlonePart'
  <2> SUFFICES ASSUME NEW p \in Procs, Open(p)', fd'[p].alone, job'[p].file \in Atomic
               PROVE  /\ WritersOf(job[p].file)' = {p}
                      /\ fd[p].serial = serial[job[p].file]
                      /\ Clean(p)'
                      /\ Unplaced(p)' => InPlace(p)'
                      /\ ~ Unplaced(p)' => /\ job[p].file \in DOMAIN dir
                                           /\ dir[job[p].file] = fd[p].ino
    BY <1>1, <1>7 DEF AlonePart
  <2>1. p \in WritersOf(job[p].file)'
    BY <1>1, <1>7 DEF WritersOf
  <2> QED BY <1>1, <1>7, <1>10, <2>1 DEF AlonePart
<1>12. UnsharedPart'
  BY <1>1, <1>8, <1>10 DEF UnsharedPart, WritersOf
<1>13. LoudPart'
  BY <1>1, <1>7, <1>8, <1>10, NamesAre DEF LoudPart, WritersOf
<1>14. ListsPart'
  BY <1>1, <1>7, <1>10 DEF ListsPart, WritersOf, Backed
<1> QED BY <1>2, <1>3, <1>4, <1>5, <1>6, <1>9, <1>11, <1>12, <1>13, <1>14

\* A process that starts has nothing open, and what it is to write follows on the chunks
\* that the checkpoint names.
LEMMA StartInv ==
    ASSUME AtomicInv, NEW p \in Procs, Start(p)
    PROVE  AtomicInv'
<1> USE DEF AtomicInv, fsVars, historyVars
<1>1. /\ ~ Running(p) /\ job[p] = NoJob /\ ip[p] = 1 /\ ~ Open(p)
      /\ ip' = ip /\ fd' = fd /\ fsVars' = fsVars /\ historyVars' = historyVars
  BY DEF Start, Running, HandlePart, TypePart
<1>2. \/ /\ p \in Recorders /\ Recorded \in Nat /\ Recorded + 1 \in 1..MaxChunks
         /\ job' = [job EXCEPT ![p] = WriteChunk(p, Recorded + 1)]
         /\ Backed(dir, Recorded)
      \/ p \notin Recorders /\ job' = [job EXCEPT ![p] = AtomicWrite(Points, 0)]
  <2>1. CASE p \notin Recorders
    BY <2>1 DEF Start
  <2>2. CASE p \in Recorders
    <3>1. Recorded \in 0..MaxChunks /\ Backed(dir, Recorded)
      <4>1. CASE Exists(dir, Checkpoint)
        <5>1. dir[Checkpoint] \in Inodes
          BY <4>1 DEF DirPart, IsDirectory, Exists
        <5>2. content[dir[Checkpoint]][1] \in Block
          BY <5>1 DEF TypePart
        <5> QED BY <4>1, <5>2 DEF Recorded, Block, ListsPart, DirPart, Exists
      <4>2. CASE ~ Exists(dir, Checkpoint)
        BY <4>2, AtomicFilesAssumption DEF Recorded, Backed
      <4> QED BY <4>1, <4>2
    <3> QED BY <2>2, <3>1, AtomicFilesAssumption DEF Start
  <2> QED BY <2>1, <2>2
<1>3. \A q \in Procs : q # p => job'[q] = job[q]
  BY <1>2 DEF TypePart
<1>4. TypePart'
  <2>1. job' \in [Procs -> Jobs]
    BY <1>2, Typed, AtomicFilesAssumption DEF TypePart, Atomic
  <2> QED BY <1>1, <2>1 DEF TypePart
<1>5. JobPart'
  <2>1. CASE p \in Recorders
    <3>1. /\ Recorded \in Nat /\ Recorded + 1 \in 1..MaxChunks /\ Backed(dir, Recorded)
          /\ job' = [job EXCEPT ![p] = WriteChunk(p, Recorded + 1)]
      BY <1>2, <2>1
    <3>2. job'[p] = WriteChunk(p, Recorded + 1) /\ (Recorded + 1) - 1 = Recorded
      BY <3>1 DEF TypePart
    <3> QED BY <1>1, <1>3, <2>1, <3>1, <3>2 DEF JobPart, Backed
  <2>2. CASE p \notin Recorders
    <3>1. job'[p] = AtomicWrite(Points, 0)
      BY <1>2, <2>2 DEF TypePart
    <3> QED BY <1>1, <1>3, <2>2, <3>1 DEF JobPart, Backed
  <2> QED BY <2>1, <2>2
<1>6. /\ \A q \in Procs : Open(q)' <=> Open(q)
      /\ \A q \in Procs : Open(q) =>
           /\ q # p /\ job'[q] = job[q]
           /\ WritesChunk(q)' <=> WritesChunk(q)
           /\ InPlace(q)' <=> InPlace(q)
           /\ Clean(q)' <=> Clean(q)
           /\ Unplaced(q)' <=> Unplaced(q)
           /\ Synced(q)' <=> Synced(q)
  BY <1>1, <1>3 DEF Open, WritesChunk, InPlace, Clean, Unplaced, Synced, RenameAt, BlockOf
<1>7. \A file : WritersOf(file)' = WritersOf(file)
  BY <1>6 DEF WritersOf
<1>8. \A i : Sound(i)' <=> Sound(i)
  BY <1>1 DEF Sound, Whole
<1>9. HandlePart'
  <2>1. job'[p] # NoJob
    BY <1>1, <1>2, Typed DEF TypePart
  <2>2. ~ Open(p)' /\ ip'[p] = 1
    BY <1>1, <1>6
  <2>3. ASSUME NEW q \in Procs, q # p
        PROVE  /\ job'[q] = job[q] /\ ip'[q] = ip[q] /\ fd'[q] = fd[q]
               /\ Open(q)' <=> Open(q)
               /\ Written(q)' = Written(q)
    BY <1>1, <1>3, <1>6, <2>3 DEF Written, WritesChunk
  <2> QED BY <1>1, <2>1, <2>2, <2>3 DEF HandlePart
<1>10. DirPart'
  BY <1>1 DEF DirPart, IsDirectory
<1>11. OwnPart'
  BY <1>1, <1>6 DEF OwnPart
<1>12. ChunkPart'
  BY <1>1, <1>6, <1>8 DEF ChunkPart
<1>13. AlonePart'
  BY <1>1, <1>6, <1>7 DEF AlonePart
<1>14. UnsharedPart'
  BY <1>1, <1>7, <1>8 DEF UnsharedPart
<1>15. LoudPart'
  BY <1>1, <1>6, <1>7, <1>8 DEF LoudPart, WritersOf
<1>16. ListsPart'
  BY <1>1, <1>6, <1>7 DEF ListsPart, Backed, WritersOf
<1> QED BY <1>4, <1>5, <1>9, <1>10, <1>11, <1>12, <1>13, <1>14, <1>15, <1>16

\* A call that succeeds and is not the last.
LEMMA NextCall ==
    ASSUME AtomicInv, NEW p \in Procs, Running(p), Continue(p), ip[p] # 6
    PROVE  /\ ip' = [ip EXCEPT ![p] = ip[p] + 1] /\ ip[p] + 1 \in 2..6
           /\ job' = job /\ historyVars' = historyVars
           /\ ip' \in [Procs -> 1..6]
<1>1. ip[p] \in 1..6 /\ Len(job[p].calls) = 6
  BY CallIs, JobIs DEF AtomicInv
<1> QED BY <1>1 DEF Continue, Done, AtomicInv, TypePart, historyVars

\* What looking for a chunk leaves as it was.
LEMMA CheckAbsentInv ==
    ASSUME AtomicInv, NEW p \in Procs, CheckAbsent(p)
    PROVE  AtomicInv'
<1> USE DEF AtomicInv, fsVars, historyVars
<1>1. Running(p) /\ ip[p] = 3 /\ WritesChunk(p) /\ Open(p)
  BY CallIs DEF CheckAbsent, At
<1>2. /\ ip' = [ip EXCEPT ![p] = 4] /\ ip' \in [Procs -> 1..6] /\ job' = job /\ fd' = fd
      /\ UNCHANGED <<fsVars, historyVars>>
  BY <1>1, NextCall DEF CheckAbsent
<1>3. /\ ip'[p] = 4
      /\ \A q \in Procs : q # p => ip'[q] = ip[q]
  BY <1>2 DEF TypePart
<1>4. TypePart'
  BY <1>2 DEF TypePart
<1>5. JobPart' /\ DirPart'
  BY <1>2 DEF JobPart, Backed, DirPart, IsDirectory
<1>6. \A q \in Procs :
        /\ Open(q)' <=> Open(q)
        /\ WritesChunk(q)' <=> WritesChunk(q)
        /\ InPlace(q)' <=> InPlace(q)
        /\ Unplaced(q)' <=> Unplaced(q)
        /\ Synced(q)' <=> Synced(q)
        /\ Written(q)' = Written(q)
  BY <1>1, <1>2, <1>3 DEF Open, WritesChunk, InPlace, Unplaced, Synced, RenameAt, Written
<1>7. \A q \in Procs : Clean(q)' <=> Clean(q)
  BY <1>2, <1>6 DEF Clean, BlockOf
<1>8. \A i : Sound(i)' <=> Sound(i)
  BY <1>2 DEF Sound, Whole
<1>9. \A file : WritersOf(file)' = WritersOf(file)
  BY <1>2, <1>6 DEF WritersOf
<1>10. HandlePart'
  BY <1>1, <1>2, <1>3, <1>6 DEF HandlePart, Running
<1>11. OwnPart' /\ ChunkPart' /\ AlonePart'
  BY <1>2, <1>6, <1>7, <1>8, <1>9 DEF OwnPart, ChunkPart, AlonePart
<1>12. UnsharedPart' /\ LoudPart'
  BY <1>2, <1>6, <1>7, <1>8, <1>9 DEF UnsharedPart, LoudPart, WritersOf
<1>13. ListsPart'
  BY <1>2, <1>6, <1>9 DEF ListsPart, Backed, WritersOf
<1> QED BY <1>4, <1>5, <1>10, <1>11, <1>12, <1>13

-----------------------------------------------------------------------------
(* Writing and syncing. *)

\* What a process may still write is no file that a reader counts on.
LEMMA Untouched ==
    ASSUME AtomicInv, NEW p \in Procs, Running(p), Unplaced(p)
    PROVE  /\ \A d \in views : \A j \in 1..MaxChunks :
                Chunk(j) \in DOMAIN d => d[Chunk(j)] # fd[p].ino
           /\ \A file \in Atomic \ shared : \A d \in views :
                file \in DOMAIN d => d[file] # fd[p].ino
           /\ \A file \in Atomic : (\A q \in WritersOf(file) : ~ Unplaced(q)) =>
                \A d \in views : file \in DOMAIN d => d[file] # fd[p].ino
           /\ \A q \in Procs : Open(q) /\ q # p /\ fd[q].ino = fd[p].ino =>
                /\ job[q].file = job[p].file
                /\ ~ WritesChunk(p) /\ ~ WritesChunk(q)
                /\ job[q].file \in Atomic /\ ~ fd[q].alone
           /\ \A d \in views : Checkpoint \in DOMAIN d /\ d[Checkpoint] = fd[p].ino =>
                job[p].file = Checkpoint
           /\ Tmp(Checkpoint) \in DOMAIN dir /\ dir[Tmp(Checkpoint)] = fd[p].ino =>
                job[p].file = Checkpoint
           /\ fd[p].ino \in Inodes
<1> USE DEF AtomicInv
<1>1. Open(p)
  BY DEF Unplaced
<1>2. \A d \in views : \A n \in DOMAIN d : d[n] = fd[p].ino => n \in {job[p].file, job[p].tmp}
  BY <1>1 DEF OwnPart
<1>3. job[p].tmp \notin Files /\ job[p].file \in Files
  BY JobIs
<1>4. WritesChunk(p) => \A d \in views : \A n \in DOMAIN d : d[n] = fd[p].ino => n = job[p].tmp
  BY <1>1, <1>3 DEF ChunkPart, InPlace, DirPart
<1>5. \A j : Chunk(j) # job[p].file \/ WritesChunk(p)
  BY JobIs, NamesAre
<1>6. \A d \in views : \A j \in 1..MaxChunks :
        Chunk(j) \in DOMAIN d => d[Chunk(j)] # fd[p].ino
  BY <1>2, <1>3, <1>4, <1>5, NamesAre
<1>7. ASSUME NEW file \in Atomic, NEW d \in views, file \in DOMAIN d, d[file] = fd[p].ino
      PROVE  job[p].file = file /\ p \in WritersOf(file) /\ ~ WritesChunk(p)
  <2>1. file \in Files
    BY NamesAre
  <2> QED BY <1>1, <1>2, <1>3, <1>4, <1>7, <2>1 DEF WritersOf
<1>8. ASSUME NEW file \in Atomic \ shared, NEW d \in views, file \in DOMAIN d
      PROVE  d[file] # fd[p].ino
  <2> SUFFICES ASSUME d[file] = fd[p].ino PROVE FALSE
    OBVIOUS
  <2>1. job[p].file = file /\ p \in WritersOf(file)
    BY <1>7, <1>8
  <2>2. InPlace(p)
    BY <1>1, <1>8, <2>1 DEF UnsharedPart, AlonePart
  <2>3. file = job[p].tmp
    BY <1>3, <1>8, <2>2 DEF InPlace, DirPart
  <2> QED BY <1>3, <2>1, <2>3
<1>9. ASSUME NEW q \in Procs, Open(q), q # p, fd[q].ino = fd[p].ino
      PROVE  /\ job[q].file = job[p].file /\ ~ WritesChunk(p) /\ ~ WritesChunk(q)
             /\ job[q].file \in Atomic /\ ~ fd[q].alone
  <2>1. Running(q)
    BY <1>9 DEF HandlePart, Running
  <2>2. job[q].tmp = job[p].tmp
    BY <1>1, <1>9 DEF OwnPart
  <2>3. job[q].file = job[p].file /\ ~ WritesChunk(p) /\ ~ WritesChunk(q)
    BY <1>9, <2>1, <2>2, TmpTells
  <2>4. job[q].file \in Atomic
    BY <2>1, <2>3, JobIs
  <2>5. p \in WritersOf(job[q].file)
    BY <1>1, <2>3 DEF WritersOf
  <2> QED BY <1>9, <2>3, <2>4, <2>5 DEF AlonePart
<1>10. /\ \A d \in views : Checkpoint \in DOMAIN d /\ d[Checkpoint] = fd[p].ino =>
            job[p].file = Checkpoint
       /\ \A file \in Atomic : (\A q \in WritersOf(file) : ~ Unplaced(q)) =>
            \A d \in views : file \in DOMAIN d => d[file] # fd[p].ino
  BY <1>7 DEF Atomic
<1>11. Tmp(Checkpoint) \in DOMAIN dir /\ dir[Tmp(Checkpoint)] = fd[p].ino =>
         job[p].file = Checkpoint
  <2> SUFFICES ASSUME Tmp(Checkpoint) \in DOMAIN dir, dir[Tmp(Checkpoint)] = fd[p].ino
               PROVE  job[p].file = Checkpoint
    OBVIOUS
  <2>1. Tmp(Checkpoint) \notin Files /\ Checkpoint \in Atomic
    BY NamesAre DEF Atomic
  <2>2. job[p].tmp = Tmp(Checkpoint)
    BY <1>2, <1>3, <2>1 DEF DirPart
  <2>3. \A j : job[p].tmp # ChunkTmp(p, j)
    BY <2>1, <2>2, NamesAre
  <2>4. ~ WritesChunk(p)
    <3> SUFFICES ASSUME WritesChunk(p) PROVE FALSE
      OBVIOUS
    <3>1. PICK j \in 1..MaxChunks : job[p] = WriteChunk(p, j)
      BY JobIs
    <3>2. job[p].tmp = ChunkTmp(p, j)
      BY <3>1 DEF WriteChunk
    <3> QED BY <2>3, <3>2
  <2> QED BY <2>1, <2>2, <2>4, JobIs, NamesAre
<1>12. fd[p].ino \in Inodes
  BY <1>1, AtomicFilesAssumption DEF TypePart, Handle, Open, Inodes
<1> QED BY <1>6, <1>8, <1>9, <1>10, <1>11, <1>12

\* Writing a block keeps the invariant: a reader finds nothing that is being written.
LEMMA WriteInv ==
    ASSUME AtomicInv, NEW p \in Procs, Write(p)
    PROVE  AtomicInv'
<1> USE DEF AtomicInv
<1> DEFINE i == fd[p].ino
           at == fd[p].at + 1
<1>1. /\ Running(p) /\ Open(p) /\ Unplaced(p) /\ ~ Synced(p)
      /\ ip[p] = 2 \/ (ip[p] = 3 /\ ~ WritesChunk(p)) \/ (ip[p] = 4 /\ WritesChunk(p))
  BY CallIs DEF Write, At, Unplaced, Synced, RenameAt
<1>2. /\ ip' = [ip EXCEPT ![p] = ip[p] + 1] /\ ip' \in [Procs -> 1..6] /\ job' = job
      /\ UNCHANGED <<dir, views, stable>> /\ UNCHANGED historyVars
  BY <1>1, NextCall DEF Write
<1>3. /\ ip'[p] = ip[p] + 1 /\ ip[p] \in 1..6
      /\ \A q \in Procs : q # p => ip'[q] = ip[q]
  BY <1>2 DEF TypePart
<1>4. /\ i \in Inodes /\ fd[p] \in Handle
  BY <1>1, Untouched DEF TypePart
<1>5. /\ fd[p].at = Written(p) /\ fd[p].size = Size(p) /\ Size(p) \in 1..2
      /\ Written(p) \in 0..1
  BY <1>1, AtomicFilesAssumption DEF HandlePart, Written
<1>6. /\ BlockOf(p) \in Block /\ at \in 1..2
  BY <1>4, <1>5 DEF BlockOf, Block, Handle
<1>7. /\ at <= Size(p) => /\ content' = [content EXCEPT ![i][at] = BlockOf(p)]
                          /\ fd' = [fd EXCEPT ![p].at = at]
      /\ at > Size(p) => content' = content /\ fd' = fd
  BY <1>5, <1>6 DEF Write, BlockOf
<1>8. /\ content' \in [Inodes -> [1..2 -> Block]]
      /\ \A k \in Inodes : k # i => content'[k] = content[k]
      /\ \A b \in 1..2 : content'[i][b] = IF b = at /\ at <= Size(p) THEN BlockOf(p)
                                          ELSE content[i][b]
  <2>1. CASE at <= Size(p)
    BY <1>4, <1>6, <1>7, <2>1 DEF TypePart
  <2>2. CASE ~ (at <= Size(p))
    BY <1>5, <1>6, <1>7, <2>2 DEF TypePart
  <2> QED BY <2>1, <2>2
<1>9. /\ fd' \in [Procs -> Handle]
      /\ \A q \in Procs : q # p => fd'[q] = fd[q]
      /\ fd'[p].at = IF at <= Size(p) THEN at ELSE fd[p].at
      /\ fd'[p].ino = i /\ fd'[p].serial = fd[p].serial /\ fd'[p].size = fd[p].size
      /\ fd'[p].lists = fd[p].lists /\ fd'[p].alone = fd[p].alone
  <2>1. CASE at <= Size(p)
    <3>1. [fd[p] EXCEPT !.at = at] \in Handle
      BY <1>4, <1>6 DEF Handle
    <3>2. fd' = [fd EXCEPT ![p] = [fd[p] EXCEPT !.at = at]]
      BY <1>7, <2>1
    <3>3. fd'[p] = [fd[p] EXCEPT !.at = at] /\ fd' \in [Procs -> Handle]
      BY <3>1, <3>2 DEF TypePart
    <3>4. \A q \in Procs : q # p => fd'[q] = fd[q]
      BY <3>2 DEF TypePart
    <3> QED BY <1>4, <2>1, <3>3, <3>4 DEF Handle
  <2>2. CASE ~ (at <= Size(p))
    BY <1>5, <1>6, <1>7, <2>2 DEF TypePart
  <2> QED BY <2>1, <2>2
<1> HIDE DEF i, at
<1>10. TypePart'
  BY <1>2, <1>8, <1>9 DEF TypePart, historyVars
<1>11. JobPart' /\ DirPart'
  BY <1>2 DEF JobPart, Backed, DirPart, IsDirectory
<1>12. \A q \in Procs :
         /\ Open(q)' <=> Open(q)
         /\ WritesChunk(q)' <=> WritesChunk(q)
         /\ InPlace(q)' <=> InPlace(q)
         /\ BlockOf(q)' = BlockOf(q)
         /\ fd'[q].ino = fd[q].ino /\ fd'[q].alone = fd[q].alone
         /\ fd'[q].serial = fd[q].serial /\ fd'[q].lists = fd[q].lists
  BY <1>2, <1>9 DEF Open, WritesChunk, InPlace, BlockOf, i
<1>13. \A q \in Procs :
         /\ Unplaced(q)' <=> Unplaced(q)
         /\ Synced(q)' => Synced(q)
  BY <1>1, <1>3, <1>12 DEF Unplaced, Synced, RenameAt
<1>14. \A file : WritersOf(file)' = WritersOf(file)
  BY <1>2, <1>12 DEF WritersOf
<1>15. HandlePart'
  <2>1. fd'[p].at = Written(p)'
    BY <1>1, <1>2, <1>3, <1>5, <1>9 DEF Written, WritesChunk, at
  <2>2. \A q \in Procs : q # p => Written(q)' = Written(q)
    BY <1>2, <1>3 DEF Written, WritesChunk
  <2> QED BY <1>1, <1>2, <1>3, <1>9, <1>12, <2>1, <2>2 DEF HandlePart, Running, historyVars
<1>16. \A k : k # i /\ k \in Inodes => (Sound(k)' <=> Sound(k)) /\ content'[k] = content[k]
  BY <1>2, <1>8 DEF Sound, Whole
<1>17. Clean(p) => Clean(p)'
  BY <1>1, <1>3, <1>5, <1>6, <1>8, <1>9, <1>12, <1>13 DEF Clean, i, at, Synced
<1>18. \A q \in Procs : Open(q) /\ fd[q].ino # i => (Clean(q) <=> Clean(q)')
  <2> SUFFICES ASSUME NEW q \in Procs, Open(q), fd[q].ino # i PROVE Clean(q) <=> Clean(q)'
    OBVIOUS
  <2>1. fd[q].ino \in Inodes /\ q # p
    BY AtomicFilesAssumption DEF TypePart, Handle, Open, Inodes, i
  <2> QED BY <1>2, <1>3, <1>8, <1>9, <1>12, <2>1 DEF Clean, Synced, RenameAt, WritesChunk
<1>19. ASSUME NEW d \in views, NEW n \in DOMAIN d PROVE d[n] \in Inodes
  BY DEF DirPart, IsDirectory
<1>20. /\ \A d \in views : \A j \in 1..MaxChunks : Chunk(j) \in DOMAIN d => d[Chunk(j)] # i
       /\ \A file \in Atomic \ shared : \A d \in views : file \in DOMAIN d => d[file] # i
       /\ \A file \in Atomic : (\A q \in WritersOf(file) : ~ Unplaced(q)) =>
            \A d \in views : file \in DOMAIN d => d[file] # i
       /\ \A q \in Procs : Open(q) /\ q # p /\ fd[q].ino = i =>
            /\ job[q].file = job[p].file /\ ~ WritesChunk(q) /\ ~ fd[q].alone
       /\ \A d \in views : Checkpoint \in DOMAIN d /\ d[Checkpoint] = i =>
            job[p].file = Checkpoint
       /\ Tmp(Checkpoint) \in DOMAIN dir /\ dir[Tmp(Checkpoint)] = i =>
            job[p].file = Checkpoint
  BY <1>1, Untouched DEF i
<1>21. OwnPart'
  BY <1>2, <1>12 DEF OwnPart
<1>22. ChunkPart'
  <2>1. ASSUME NEW q \in Procs, Open(q), WritesChunk(q) PROVE InPlace(q)' /\ Clean(q)'
    BY <1>12, <1>17, <1>18, <1>20, <2>1 DEF ChunkPart
  <2>2. ASSUME NEW d \in views, NEW j \in 1..MaxChunks, Chunk(j) \in DOMAIN d
        PROVE  Sound(d[Chunk(j)])'
    BY <1>16, <1>19, <1>20, <2>2 DEF ChunkPart
  <2> QED BY <1>2, <1>12, <2>1, <2>2 DEF ChunkPart
<1>23. AlonePart'
  <2>1. ASSUME NEW q \in Procs, Open(q), fd[q].alone, job[q].file \in Atomic
        PROVE  Clean(q)'
    BY <1>17, <1>18, <1>20, <2>1 DEF AlonePart
  <2> QED BY <1>2, <1>12, <1>13, <1>14, <2>1 DEF AlonePart, historyVars
<1>24. UnsharedPart'
  <2>1. ASSUME NEW file \in Atomic \ shared, NEW d \in views, file \in DOMAIN d
        PROVE  Sound(d[file])' /\ content'[d[file]] = content[d[file]]
    BY <1>16, <1>19, <1>20, <2>1 DEF UnsharedPart
  <2> QED BY <1>2, <1>12, <1>14, <2>1 DEF UnsharedPart, WritersOf, historyVars
<1>25. LoudPart'
  <2> SUFFICES ASSUME NEW file \in Atomic \ loud
               PROVE  /\ (\A q \in WritersOf(file) : ~ Unplaced(q)) /\ file \in DOMAIN dir =>
                            Sound(dir[file])'
                      /\ WritersOf(file) = {} => \A d \in views :
                            file \in DOMAIN d => Sound(d[file])'
                      /\ \A q \in WritersOf(file) :
                            /\ Unplaced(q) /\ Tmp(file) \in DOMAIN dir
                            /\ \A r \in WritersOf(file) : Unplaced(r) => r = q
                            => InPlace(q) /\ Clean(q)'
    BY <1>2, <1>12, <1>13, <1>14 DEF LoudPart, WritersOf, historyVars
  <2>1. (\A q \in WritersOf(file) : ~ Unplaced(q)) =>
           \A d \in views : file \in DOMAIN d => (Sound(d[file])' <=> Sound(d[file]))
    BY <1>16, <1>19, <1>20
  <2>2. ASSUME NEW q \in WritersOf(file), Unplaced(q), Tmp(file) \in DOMAIN dir,
               \A r \in WritersOf(file) : Unplaced(r) => r = q
        PROVE  InPlace(q) /\ Clean(q)'
    <3>1. InPlace(q) /\ Clean(q) /\ Open(q)
      BY <2>2 DEF LoudPart, WritersOf
    <3>2. q # p => fd[q].ino # i
      BY <1>1, <1>20, <2>2, <3>1 DEF WritersOf
    <3>3. CASE q = p
      BY <1>17, <3>1, <3>3
    <3>4. CASE q # p
      BY <1>18, <3>1, <3>2, <3>4 DEF WritersOf
    <3> QED BY <3>1, <3>3, <3>4
  <2>3. dir \in views
    BY DEF DirPart
  <2> QED BY <1>2, <2>1, <2>2, <2>3 DEF LoudPart
<1>26. ListsPart'
  <2>1. job[p].file = Checkpoint =>
          /\ p \in WritersOf(Checkpoint) /\ Backed(dir, fd[p].lists)
    BY <1>1, JobIs DEF WritersOf, HandlePart
  <2>2. \A b \in 1..2 : content'[i][b] = content[i][b] \/ content'[i][b].lists = fd[p].lists
    BY <1>8 DEF BlockOf
  <2>3. ASSUME NEW d \in views, Checkpoint \in DOMAIN d
        PROVE  Backed(d, content'[d[Checkpoint]][1].lists)
    <3>1. CASE d[Checkpoint] = i
      BY <1>20, <2>1, <2>2, <2>3, <3>1 DEF ListsPart, i
    <3>2. CASE d[Checkpoint] # i
      BY <1>16, <1>19, <2>3, <3>2 DEF ListsPart
    <3> QED BY <3>1, <3>2
  <2>4. ASSUME Tmp(Checkpoint) \in DOMAIN dir, NEW q \in WritersOf(Checkpoint), Unplaced(q)
        PROVE  Backed(dir, content'[dir[Tmp(Checkpoint)]][1].lists)
    <3>1. CASE dir[Tmp(Checkpoint)] = i
      BY <1>20, <2>1, <2>2, <2>4, <3>1 DEF ListsPart, i
    <3>2. CASE dir[Tmp(Checkpoint)] # i
      BY <1>16, <1>19, <2>4, <3>2 DEF ListsPart, DirPart
    <3> QED BY <3>1, <3>2
  <2> QED BY <1>2, <1>12, <1>13, <1>14, <2>3, <2>4 DEF ListsPart, Backed, WritersOf
<1> QED BY <1>10, <1>11, <1>15, <1>21, <1>22, <1>23, <1>24, <1>25, <1>26

\* Syncing keeps the invariant.
LEMMA SyncInv ==
    ASSUME AtomicInv, NEW p \in Procs, Sync(p)
    PROVE  AtomicInv'
<1> USE DEF AtomicInv
<1> DEFINE i == fd[p].ino
<1>1. Running(p) /\ Open(p) /\ Unplaced(p) /\ ~ Synced(p) /\ ip[p] + 1 = RenameAt(p) /\ ip[p] # 6
  BY CallIs DEF Sync, At, Unplaced, Synced, RenameAt
<1>2. /\ ip' = [ip EXCEPT ![p] = ip[p] + 1] /\ ip' \in [Procs -> 1..6] /\ job' = job /\ fd' = fd
      /\ UNCHANGED <<dir, views, content>> /\ UNCHANGED historyVars
  BY <1>1, NextCall DEF Sync
<1>3. /\ ip'[p] = ip[p] + 1 /\ ip[p] \in 1..6
      /\ \A q \in Procs : q # p => ip'[q] = ip[q]
  BY <1>2 DEF TypePart
<1>4. i \in Inodes
  BY <1>1, Untouched
<1>5. /\ stable' \in [Inodes -> [1..2 -> Block]]
      /\ stable'[i] = content[i]
      /\ \A k \in Inodes : k # i => stable'[k] = stable[k]
  BY <1>4 DEF Sync, TypePart
<1> HIDE DEF i
<1>6. TypePart'
  BY <1>2, <1>5 DEF TypePart, historyVars
<1>7. JobPart' /\ DirPart'
  BY <1>2 DEF JobPart, Backed, DirPart, IsDirectory
<1>8. \A q \in Procs :
        /\ Open(q)' <=> Open(q)
        /\ WritesChunk(q)' <=> WritesChunk(q)
        /\ InPlace(q)' <=> InPlace(q)
        /\ BlockOf(q)' = BlockOf(q)
  BY <1>2 DEF Open, WritesChunk, InPlace, BlockOf
<1>9. /\ \A q \in Procs : Unplaced(q)' <=> Unplaced(q)
      /\ \A q \in Procs : q # p => (Synced(q)' <=> Synced(q))
  BY <1>1, <1>2, <1>3, <1>8 DEF Unplaced, Synced, RenameAt, WritesChunk
<1>10. \A file : WritersOf(file)' = WritersOf(file)
  BY <1>2, <1>8 DEF WritersOf
<1>11. HandlePart'
  <2>1. \A q \in Procs : q # p => Written(q)' = Written(q)
    BY <1>2, <1>3 DEF Written, WritesChunk
  <2>2. Written(p)' = Written(p)
    BY <1>1, <1>2, <1>3 DEF Written, WritesChunk, RenameAt
  <2> QED BY <1>1, <1>2, <1>3, <1>8, <2>1, <2>2 DEF HandlePart, Running, historyVars
<1>12. \A k \in Inodes : Sound(k) => Sound(k)'
  BY <1>2, <1>5 DEF Sound, Whole
<1>13. Clean(p) => Clean(p)'
  BY <1>2, <1>5, <1>8 DEF Clean, i
<1>14. \A q \in Procs : Open(q) /\ Clean(q) => Clean(q)'
  <2> SUFFICES ASSUME NEW q \in Procs, Open(q), Clean(q), q # p PROVE Clean(q)'
    BY <1>13
  <2>1. fd[q].ino \in Inodes
    BY AtomicFilesAssumption DEF TypePart, Handle, Open, Inodes
  <2> QED BY <1>2, <1>5, <1>8, <1>9, <2>1 DEF Clean
<1>15. ASSUME NEW d \in views, NEW n \in DOMAIN d PROVE d[n] \in Inodes
  BY DEF DirPart, IsDirectory
<1>16. OwnPart'
  BY <1>2, <1>8 DEF OwnPart
<1>17. ChunkPart'
  BY <1>2, <1>8, <1>12, <1>14, <1>15 DEF ChunkPart
<1>18. AlonePart'
  BY <1>2, <1>8, <1>9, <1>10, <1>14 DEF AlonePart, historyVars
<1>19. UnsharedPart'
  BY <1>2, <1>8, <1>10, <1>12, <1>15 DEF UnsharedPart, historyVars
<1>20. LoudPart'
  BY <1>2, <1>8, <1>9, <1>10, <1>12, <1>14, <1>15 DEF LoudPart, WritersOf, historyVars, DirPart
<1>21. ListsPart'
  <2>1. job[p].file = Checkpoint => p \in WritersOf(Checkpoint)
    BY <1>1 DEF WritersOf
  <2>2. ASSUME NEW d \in views, Checkpoint \in DOMAIN d
        PROVE  Backed(d, stable'[d[Checkpoint]][1].lists)
    BY <1>5, <1>15, <2>2 DEF ListsPart
  <2>3. ASSUME Tmp(Checkpoint) \in DOMAIN dir, NEW q \in WritersOf(Checkpoint), Unplaced(q),
               Synced(q)' \/ fd[q].ino # dir[Tmp(Checkpoint)]
        PROVE  Backed(dir, stable'[dir[Tmp(Checkpoint)]][1].lists)
    <3>1. CASE dir[Tmp(Checkpoint)] = i
      BY <1>5, <2>3, <3>1 DEF ListsPart
    <3>2. CASE dir[Tmp(Checkpoint)] # i
      <4>1. Synced(q) \/ fd[q].ino # dir[Tmp(Checkpoint)]
        BY <1>9, <2>3, <3>2 DEF i, WritersOf
      <4> QED BY <1>5, <1>15, <2>3, <3>2, <4>1 DEF ListsPart, DirPart
    <3> QED BY <3>1, <3>2
  <2> QED BY <1>2, <1>8, <1>9, <1>10, <2>2, <2>3 DEF ListsPart, Backed, WritersOf
<1> QED BY <1>6, <1>7, <1>11, <1>16, <1>17, <1>18, <1>19, <1>20, <1>21

-----------------------------------------------------------------------------
(* Creating, renaming, and syncing the directory. *)

\* The open files when p has opened the inode i, which the others have open.
Opened(p, i, file, others) ==
    [q \in Procs |->
        IF q = p
        THEN [ino |-> i, at |-> 0, serial |-> serial[file] + 1, size |-> Size(p),
              lists |-> job[p].lists, alone |-> others = {}]
        ELSE IF q \in others THEN NotAlone(fd[q])
        ELSE fd[q]]

\* What opening a file does.
Created(p, i, tmp, file, others) ==
    /\ Running(p) /\ ~ Open(p) /\ ip[p] = 1
    /\ DOMAIN dir' = DOMAIN dir \cup {tmp}
    /\ dir' \in [DOMAIN dir' -> Inodes]
    /\ dir'[tmp] = i
    /\ \A n \in DOMAIN dir : n # tmp => dir'[n] = dir[n]
    /\ dir' \in views' /\ views' \subseteq views \cup {dir'}
    /\ \A d \in views : \A n \in DOMAIN d : d[n] = i => n = tmp
    /\ \A q \in Procs : Open(q) /\ fd[q].ino = i =>
         job[q].tmp = tmp /\ job[q].file = file /\ ~ WritesChunk(q)
    /\ content' = [content EXCEPT ![i] = Empty]
    /\ \/ stable' = stable /\ tmp \in DOMAIN dir /\ dir[tmp] = i
       \/ stable' = [stable EXCEPT ![i] = Empty]
    /\ fd' = Opened(p, i, file, others)
    /\ shared' = IF others = {} THEN shared ELSE shared \cup {file}
    /\ serial' = [serial EXCEPT ![file] = @ + 1]
    /\ ip' = [ip EXCEPT ![p] = @ + 1]
    /\ job' = job /\ durable' = durable /\ loud' = loud

\* What opening a file does to the file system: the temporary file is a new inode or the
\* one that the name had, which is under no other name, and which only those who write the
\* same file have open.
LEMMA CreateDoes ==
    ASSUME AtomicInv, NEW p \in Procs, Create(p), NEW tmp, NEW file, NEW others,
           tmp = job[p].tmp, file = job[p].file, others = WritersOf(job[p].file)
    PROVE  \E i \in Inodes : Created(p, i, tmp, file, others)
<1> USE DEF AtomicInv
<1> DEFINE old == tmp \in DOMAIN dir
           i == IF old THEN dir[tmp] ELSE NewInode
<1>1. Running(p) /\ ~ Open(p) /\ ip[p] = 1
  BY CallIs DEF Create, At
<1>2. tmp \in Names \ Files /\ file \in Files
  BY <1>1, JobIs
<1>3. dir \in [DOMAIN dir -> Inodes]
  BY DEF DirPart, IsDirectory
<1>4. /\ i \in Inodes
      /\ \A d \in views : \A n \in DOMAIN d : d[n] = i => n = tmp
      /\ \A q \in Procs : Open(q) /\ fd[q].ino = i => job[q].tmp = tmp
  <2>1. CASE old
    <3>1. i \in Inodes
      BY <1>3, <2>1
    <3>2. \A d \in views : \A n \in DOMAIN d : d[n] = i => n = tmp
      BY <1>2, <2>1 DEF DirPart
    <3>3. ASSUME NEW q \in Procs, Open(q), fd[q].ino = i PROVE job[q].tmp = tmp
      <4>1. tmp \in {job[q].file, job[q].tmp}
        BY <2>1, <3>3 DEF OwnPart, DirPart
      <4>2. job[q].file \in Files
        BY <3>3 DEF TypePart, Jobs
      <4> QED BY <1>2, <4>1, <4>2
    <3> QED BY <3>1, <3>2, <3>3
  <2>2. CASE ~ old
    <3>1. Free # {} /\ i = NewInode
      BY <2>2 DEF Create, Exists
    <3>2. i \in Free
      BY <3>1 DEF NewInode
    <3>3. i \in Inodes /\ i \notin Used
      BY <3>2 DEF Free
    <3>4. \A d \in views : \A n \in DOMAIN d : d[n] # i
      <4> SUFFICES ASSUME NEW d \in views, NEW n \in DOMAIN d PROVE d[n] \in Used
        BY <3>3
      <4>1. d[n] \in {d[name] : name \in DOMAIN d}
        OBVIOUS
      <4> QED BY <4>1 DEF Used
    <3>5. ASSUME NEW q \in Procs PROVE fd[q].ino # i
      <4>1. fd[q].ino \in {fd[r].ino : r \in Procs}
        OBVIOUS
      <4>2. {fd[r].ino : r \in Procs} \subseteq Used
        BY DEF Used
      <4> HIDE DEF i
      <4> QED BY <3>3, <4>1, <4>2
    <3> QED BY <3>3, <3>4, <3>5
  <2> QED BY <2>1, <2>2
<1>5. \A q \in Procs : Open(q) /\ fd[q].ino = i => job[q].file = file /\ ~ WritesChunk(q)
  <2> SUFFICES ASSUME NEW q \in Procs, Open(q), fd[q].ino = i
               PROVE  job[q].file = file /\ ~ WritesChunk(q)
    OBVIOUS
  <2>1. Running(q) /\ job[q].tmp = tmp /\ q # p
    BY <1>1, <1>4 DEF HandlePart, Running
  <2> QED BY <1>1, <2>1, TmpTells
<1>6. /\ old => dir' = dir /\ views' = views /\ stable' = stable
      /\ ~ old => /\ dir' = Named(tmp, i) /\ views' = views \cup {dir'}
                  /\ stable' = [stable EXCEPT ![i] = Empty]
  BY DEF Create, Exists, Change
<1>7. /\ DOMAIN dir' = DOMAIN dir \cup {tmp}
      /\ dir' \in [DOMAIN dir' -> Inodes]
      /\ dir'[tmp] = i
      /\ \A n \in DOMAIN dir : n # tmp => dir'[n] = dir[n]
      /\ dir' \in views' /\ views' \subseteq views \cup {dir'}
  <2>1. CASE old
    BY <1>3, <1>6, <2>1 DEF DirPart
  <2>2. CASE ~ old
    BY <1>3, <1>4, <1>6, <2>2 DEF Named
  <2> QED BY <2>1, <2>2
<1>8. /\ content' = [content EXCEPT ![i] = Empty]
      /\ fd' = Opened(p, i, file, others)
      /\ shared' = IF others = {} THEN shared ELSE shared \cup {file}
      /\ serial' = [serial EXCEPT ![file] = @ + 1]
      /\ ip' = [ip EXCEPT ![p] = @ + 1]
      /\ job' = job /\ durable' = durable /\ loud' = loud
  BY DEF Create, Exists, Opened
<1>9. \/ stable' = stable /\ tmp \in DOMAIN dir /\ dir[tmp] = i
      \/ stable' = [stable EXCEPT ![i] = Empty]
  BY <1>6
<1> HIDE DEF i
<1> QED BY <1>1, <1>4, <1>5, <1>7, <1>8, <1>9 DEF Created

\* Opening a file, also one that others are writing, keeps the invariant.
LEMMA CreateInv ==
    ASSUME AtomicInv, NEW p \in Procs, Create(p)
    PROVE  AtomicInv'
<1> USE DEF AtomicInv
<1>0. PICK tmp, file, others :
         tmp = job[p].tmp /\ file = job[p].file /\ others = WritersOf(job[p].file)
  OBVIOUS
<1>P. PICK i \in Inodes : Created(p, i, tmp, file, others)
  BY <1>0, CreateDoes
<1>1. /\ Running(p) /\ ~ Open(p) /\ ip[p] = 1
      /\ DOMAIN dir' = DOMAIN dir \cup {tmp}
      /\ dir' \in [DOMAIN dir' -> Inodes]
      /\ dir'[tmp] = i
      /\ \A n \in DOMAIN dir : n # tmp => dir'[n] = dir[n]
      /\ dir' \in views' /\ views' \subseteq views \cup {dir'}
      /\ \A d \in views : \A n \in DOMAIN d : d[n] = i => n = tmp
      /\ \A q \in Procs : Open(q) /\ fd[q].ino = i =>
           job[q].tmp = tmp /\ job[q].file = file /\ ~ WritesChunk(q)
      /\ content' = [content EXCEPT ![i] = Empty]
      /\ \/ stable' = stable /\ tmp \in DOMAIN dir /\ dir[tmp] = i
         \/ stable' = [stable EXCEPT ![i] = Empty]
      /\ fd' = Opened(p, i, file, others)
      /\ shared' = IF others = {} THEN shared ELSE shared \cup {file}
      /\ serial' = [serial EXCEPT ![file] = @ + 1]
      /\ ip' = [ip EXCEPT ![p] = @ + 1]
      /\ job' = job /\ durable' = durable /\ loud' = loud
  BY <1>P DEF Created
<1>J. job' = job /\ durable' = durable /\ loud' = loud
  BY <1>1
<1>2. /\ tmp \in Names \ Files /\ file \in Files
      /\ WritesChunk(p) \/ (file \in Atomic /\ tmp = Tmp(file))
      /\ file = Checkpoint => Backed(dir, job[p].lists)
  BY <1>0, <1>1, JobIs
<1>3. /\ content' \in [Inodes -> [1..2 -> Block]] /\ content'[i] = Empty
      /\ \A k \in Inodes : k # i => content'[k] = content[k]
  BY <1>1, Typed DEF TypePart
<1>4. /\ stable' \in [Inodes -> [1..2 -> Block]]
      /\ \/ stable'[i] = Empty
         \/ tmp \in DOMAIN dir /\ dir[tmp] = i /\ stable'[i] = stable[i]
      /\ \A k \in Inodes : k # i => stable'[k] = stable[k]
  <2>1. Empty \in [1..2 -> Block]
    BY Typed
  <2>2. CASE stable' = stable /\ tmp \in DOMAIN dir /\ dir[tmp] = i
    BY <2>2 DEF TypePart
  <2>3. CASE stable' = [stable EXCEPT ![i] = Empty]
    BY <2>1, <2>3 DEF TypePart
  <2> QED BY <1>1, <2>2, <2>3
<1>5. /\ serial' \in [Files -> Nat] /\ serial'[file] = serial[file] + 1
      /\ \A g \in Files : g # file => serial'[g] = serial[g]
      /\ \A g \in Files : serial'[g] >= serial[g] /\ serial[g] \in Nat
  BY <1>1, <1>2 DEF TypePart
<1>6. /\ fd'[p].ino = i /\ fd'[p].at = 0 /\ fd'[p].serial = serial[file] + 1
      /\ fd'[p].size = Size(p) /\ fd'[p].lists = job[p].lists
      /\ fd'[p].alone <=> others = {}
      /\ fd'[p] \in Handle
  <2>1. i \in 0..MaxInodes /\ Size(p) \in 0..2 /\ serial[file] + 1 \in Nat
    BY <1>5, <1>2, AtomicFilesAssumption DEF Inodes
  <2>2. job[p].lists \in 0..MaxChunks
    BY DEF TypePart, Jobs
  <2>3. fd'[p] = [ino |-> i, at |-> 0, serial |-> serial[file] + 1,
                  size |-> Size(p), lists |-> job[p].lists, alone |-> others = {}]
    BY <1>1 DEF Opened
  <2>4. (others = {}) \in BOOLEAN
    OBVIOUS
  <2>5. PICK al \in BOOLEAN : al = (others = {})
    BY <2>4
  <2>6. fd'[p] = [ino |-> i, at |-> 0, serial |-> serial[file] + 1,
                  size |-> Size(p), lists |-> job[p].lists, alone |-> al]
    BY <2>3, <2>5
  <2>7. fd'[p] \in Handle
    BY <2>1, <2>2, <2>6 DEF Handle
  <2>8. /\ fd'[p].ino = i /\ fd'[p].at = 0 /\ fd'[p].serial = serial[file] + 1
        /\ fd'[p].size = Size(p) /\ fd'[p].lists = job[p].lists /\ fd'[p].alone = al
    BY <2>6
  <2>9. al <=> others = {}
    BY <2>5
  <2> QED BY <2>7, <2>8, <2>9
<1>7. \A q \in Procs : q # p =>
        /\ fd'[q].ino = fd[q].ino /\ fd'[q].at = fd[q].at /\ fd'[q].serial = fd[q].serial
        /\ fd'[q].size = fd[q].size /\ fd'[q].lists = fd[q].lists
        /\ fd'[q].alone <=> fd[q].alone /\ q \notin others
        /\ fd'[q] \in Handle
  <2> SUFFICES ASSUME NEW q \in Procs, q # p
               PROVE  /\ fd'[q].ino = fd[q].ino /\ fd'[q].at = fd[q].at
                      /\ fd'[q].serial = fd[q].serial /\ fd'[q].size = fd[q].size
                      /\ fd'[q].lists = fd[q].lists
                      /\ fd'[q].alone <=> fd[q].alone /\ q \notin others
                      /\ fd'[q] \in Handle
    OBVIOUS
  <2>1. fd[q] \in Handle
    BY DEF TypePart
  <2>2. CASE q \in others
    <3>1. fd'[q] = [fd[q] EXCEPT !.alone = FALSE]
      BY <1>1, <2>2 DEF Opened, NotAlone
    <3> QED BY <2>1, <2>2, <3>1 DEF Handle
  <2>3. CASE q \notin others
    BY <1>1, <2>1, <2>3 DEF Opened
  <2> QED BY <2>2, <2>3
<1>8. /\ ip'[p] = 2 /\ ip' \in [Procs -> 1..6]
      /\ \A q \in Procs : q # p => ip'[q] = ip[q]
  BY <1>1 DEF TypePart
<1>9. TypePart'
  <2>1. fd' \in [Procs -> Handle]
    BY <1>1, <1>6, <1>7 DEF Opened
  <2> QED BY <1>1, <1>2, <1>3, <1>4, <1>5, <1>8, <2>1 DEF TypePart
<1>10. /\ Open(p)' /\ Unplaced(p)' /\ ~ Synced(p)'
       /\ \A q \in Procs : q # p =>
            /\ Open(q)' <=> Open(q)
            /\ WritesChunk(q)' <=> WritesChunk(q)
            /\ Unplaced(q)' <=> Unplaced(q)
            /\ Synced(q)' <=> Synced(q)
            /\ Written(q)' = Written(q)
            /\ BlockOf(q)' = BlockOf(q)
       /\ WritesChunk(p)' <=> WritesChunk(p)
  BY <1>1, <1>6, <1>7, <1>8
     DEF Open, Unplaced, Synced, RenameAt, WritesChunk, Written, BlockOf, Inodes
<1>11. /\ WritersOf(file)' = others \cup {p} /\ p \notin others
       /\ \A g : g # file => WritersOf(g)' = WritersOf(g)
  BY <1>0, <1>J, <1>1, <1>10 DEF WritersOf
<1>12. \A k : Backed(dir, k) => Backed(dir', k)
  BY <1>1 DEF Backed
<1>13. JobPart'
  BY <1>1, <1>12 DEF JobPart
<1>14. HandlePart'
  <2>1. fd'[p].serial \in 1..serial'[file] /\ Written(p)' = 0
    BY <1>5, <1>6, <1>2, <1>8 DEF Written
  <2>2. \A q \in Procs : q # p /\ Open(q) => fd'[q].serial \in 1..serial'[job[q].file]
    <3> SUFFICES ASSUME NEW q \in Procs, q # p, Open(q)
                 PROVE  fd'[q].serial \in 1..serial'[job[q].file]
      OBVIOUS
    <3>1. job[q].file \in Files /\ fd[q].serial \in 1..serial[job[q].file]
      BY DEF HandlePart, TypePart, Jobs
    <3> QED BY <1>5, <1>7, <3>1
  <2>3. ASSUME NEW q \in Procs, q # p
        PROVE  /\ Open(q)' <=> ip'[q] # 1
               /\ job'[q] = NoJob => ip'[q] = 1
               /\ Open(q)' => /\ fd'[q].at = Written(q)'
                              /\ fd'[q].size = Size(q)
                              /\ fd'[q].lists = job'[q].lists
                              /\ fd'[q].serial \in 1..serial'[job'[q].file]
    <3>1. job'[q] = job[q] /\ ip'[q] = ip[q] /\ (Open(q)' <=> Open(q))
      BY <1>J, <1>8, <1>10, <2>3
    <3>2. fd'[q].at = fd[q].at /\ fd'[q].size = fd[q].size /\ fd'[q].lists = fd[q].lists
      BY <1>7, <2>3
    <3>3. Written(q)' = Written(q)
      BY <1>10, <2>3
    <3> QED BY <2>2, <2>3, <3>1, <3>2, <3>3 DEF HandlePart
  <2>4. /\ Open(p)' /\ ip'[p] # 1 /\ job'[p] # NoJob
        /\ fd'[p].at = Written(p)' /\ fd'[p].size = Size(p)
        /\ fd'[p].lists = job'[p].lists
        /\ fd'[p].serial \in 1..serial'[job'[p].file]
    BY <1>0, <1>1, <1>6, <1>8, <1>10, <2>1 DEF Running
  <2> QED BY <2>3, <2>4 DEF HandlePart
<1>15. DirPart'
  <2>1. ASSUME NEW m \in DOMAIN dir', NEW n \in DOMAIN dir', dir'[m] = dir'[n] PROVE m = n
    BY <1>1, <2>1 DEF DirPart, IsDirectory
  <2>2. DOMAIN dir' \subseteq Names
    BY <1>1, <1>2 DEF DirPart, IsDirectory
  <2>3. \A d \in views' : IsDirectory(d)
    BY <1>1, <2>1, <2>2 DEF DirPart, IsDirectory
  <2>4. ASSUME NEW d \in views', NEW t \in DOMAIN dir' \ Files, NEW n \in DOMAIN d, d[n] = dir'[t]
        PROVE  n = t
    <3>1. CASE d = dir'
      BY <2>1, <2>4, <3>1
    <3>2. CASE d \in views /\ t = tmp
      BY <1>1, <2>4, <3>2
    <3>3. CASE d \in views /\ t # tmp
      BY <1>1, <2>4, <3>3 DEF DirPart
    <3> QED BY <1>1, <3>1, <3>2, <3>3
  <2>5. (\A d \in views : IsDirectory(d))'
    BY <2>3 DEF IsDirectory
  <2> QED BY <1>1, <2>4, <2>5 DEF DirPart
<1>16. ASSUME NEW d \in views', NEW n \in DOMAIN d
       PROVE  \/ d[n] = i /\ n = tmp
              \/ d[n] # i /\ d \in views
              \/ d[n] # i /\ n \in DOMAIN dir /\ d = dir' /\ d[n] = dir[n]
  <2>1. CASE d \in views
    BY <1>1, <2>1
  <2>2. CASE d = dir' /\ n # tmp
    BY <1>1, <2>2 DEF DirPart
  <2>3. CASE d = dir' /\ n = tmp
    BY <1>1, <2>3
  <2> QED BY <1>1, <2>1, <2>2, <2>3
<1>17. OwnPart'
  <2>1. ASSUME NEW q \in Procs, Open(q)', NEW d \in views', NEW n \in DOMAIN d, d[n] = fd'[q].ino
        PROVE  n \in {job[q].file, job[q].tmp}
    <3>1. CASE q = p
      BY <1>0, <1>6, <1>16, <2>1, <3>1
    <3>2. CASE q # p
      <4>1. Open(q) /\ fd'[q].ino = fd[q].ino
        BY <1>7, <1>10, <2>1, <3>2
      <4> QED BY <1>1, <1>16, <2>1, <4>1 DEF OwnPart, DirPart
    <3> QED BY <3>1, <3>2
  <2>2. ASSUME NEW q \in Procs, NEW r \in Procs, Open(q)', Open(r)', fd'[r].ino = fd'[q].ino
        PROVE  job[r].tmp = job[q].tmp
    <3>1. ASSUME NEW o \in Procs, o # p, Open(o)', fd'[o].ino = i PROVE job[o].tmp = tmp
      BY <1>1, <1>7, <1>10, <3>1
    <3>2. CASE q = p \/ r = p
      BY <1>0, <1>6, <2>2, <3>1, <3>2
    <3>3. CASE q # p /\ r # p
      BY <1>7, <1>10, <2>2, <3>3 DEF OwnPart
    <3> QED BY <3>2, <3>3
  <2> QED BY <1>1, <2>1, <2>2 DEF OwnPart
<1>18. InPlace(p)' /\ Clean(p)'
  <2>1. InPlace(p)'
    BY <1>0, <1>1, <1>6 DEF InPlace
  <2>2. \A b \in 1..2 : Empty[b] = Hole /\ ~ (b <= 0)
    BY DEF Empty
  <2> QED BY <1>3, <1>6, <1>10, <2>1, <2>2 DEF Clean
<1>19. ASSUME NEW q \in Procs, q # p, Open(q), job[q].file # file \/ WritesChunk(q)
       PROVE  /\ fd[q].ino # i
              /\ job[q].tmp # tmp
              /\ Clean(q) => Clean(q)'
              /\ InPlace(q) => InPlace(q)'
  <2>1. fd[q].ino # i /\ fd[q].ino \in Inodes
    BY <1>1, <1>19, AtomicFilesAssumption DEF Open, TypePart, Handle, Inodes
  <2>2. job[q].tmp # tmp
    <3>1. Running(q)
      BY <1>19 DEF HandlePart, Running
    <3> QED BY <1>0, <1>1, <1>19, <3>1, TmpTells
  <2>3. content'[fd[q].ino] = content[fd[q].ino] /\ stable'[fd[q].ino] = stable[fd[q].ino]
    BY <1>3, <1>4, <2>1
  <2>4. fd'[q].ino = fd[q].ino /\ fd'[q].at = fd[q].at /\ BlockOf(q)' = BlockOf(q)
    BY <1>7, <1>10, <1>19
  <2>5. Clean(q) => Clean(q)'
    BY <1>10, <1>19, <2>3, <2>4 DEF Clean
  <2>6. InPlace(q) => InPlace(q)'
    BY <1>1, <2>2, <2>4 DEF InPlace
  <2> QED BY <2>1, <2>2, <2>5, <2>6
<1>20. \A k \in Inodes : k # i => /\ Sound(k) => Sound(k)'
                                  /\ content'[k] = content[k] /\ stable'[k] = stable[k]
  BY <1>3, <1>4 DEF Sound, Whole
<1>21. \A d \in views : \A n \in DOMAIN d : d[n] \in Inodes
  BY DEF DirPart, IsDirectory
<1>22. ChunkPart'
  <2>1. ASSUME NEW q \in Procs, Open(q)', WritesChunk(q)' PROVE InPlace(q)' /\ Clean(q)'
    BY <1>10, <1>18, <1>19, <2>1 DEF ChunkPart
  <2>2. ASSUME NEW d \in views', NEW j \in 1..MaxChunks, Chunk(j) \in DOMAIN d
        PROVE  Sound(d[Chunk(j)])'
    <3>1. Chunk(j) # tmp
      BY <1>2, NamesAre
    <3> QED BY <1>16, <1>20, <1>21, <2>2, <3>1 DEF ChunkPart, DirPart
  <2> QED BY <2>1, <2>2 DEF ChunkPart
<1>23. AlonePart'
  <2> SUFFICES ASSUME NEW q \in Procs, Open(q)', fd'[q].alone, job[q].file \in Atomic
               PROVE  /\ WritersOf(job[q].file)' = {q}
                      /\ fd'[q].serial = serial'[job[q].file]
                      /\ Clean(q)'
                      /\ Unplaced(q)' => InPlace(q)'
                      /\ ~ Unplaced(q)' => /\ job[q].file \in DOMAIN dir'
                                           /\ dir'[job[q].file] = fd'[q].ino
    BY <1>J DEF AlonePart
  <2>1. CASE q = p
    BY <1>J, <1>0, <1>5, <1>6, <1>10, <1>11, <1>18, <2>1
  <2>2. CASE q # p
    <3>1. Open(q) /\ fd[q].alone /\ q \notin others
      BY <1>7, <1>10, <2>2
    <3>2. job[q].file # file
      BY <1>0, <3>1 DEF WritersOf
    <3>3. job[q].file \in Files /\ job[q].file # tmp
      BY <1>2, NamesAre
    <3>4. /\ WritersOf(job[q].file) = {q} /\ fd[q].serial = serial[job[q].file] /\ Clean(q)
          /\ Unplaced(q) => InPlace(q)
          /\ ~ Unplaced(q) => job[q].file \in DOMAIN dir /\ dir[job[q].file] = fd[q].ino
      BY <3>1 DEF AlonePart
    <3>5. Clean(q)' /\ (Unplaced(q)' => InPlace(q)')
      BY <1>10, <1>19, <2>2, <3>1, <3>2, <3>4
    <3>6. WritersOf(job[q].file)' = {q}
      BY <1>J, <1>11, <3>2, <3>4
    <3>7. fd'[q].serial = serial'[job[q].file]
      BY <1>5, <1>7, <2>2, <3>2, <3>3, <3>4
    <3>8. ~ Unplaced(q)' => job[q].file \in DOMAIN dir' /\ dir'[job[q].file] = fd'[q].ino
      BY <1>1, <1>7, <1>10, <2>2, <3>3, <3>4
    <3> QED BY <3>5, <3>6, <3>7, <3>8
  <2> QED BY <2>1, <2>2
<1>24. UnsharedPart'
  <2> SUFFICES ASSUME NEW g \in Atomic
               PROVE  /\ durable[g] <= serial'[g]
                      /\ g \notin shared' =>
                          /\ \A q \in WritersOf(g)' : fd'[q].alone
                          /\ \A d \in views' :
                              /\ durable[g] > 0 => g \in DOMAIN d
                              /\ g \in DOMAIN d =>
                                   Sound(d[g])' /\ content'[d[g]][1].serial >= durable[g]
    BY <1>J DEF UnsharedPart
  <2>1. g \in Files /\ g # tmp
    BY <1>2, NamesAre
  <2>2. durable[g] <= serial'[g]
    BY <1>5, <2>1 DEF UnsharedPart, TypePart
  <2>3. ASSUME g \notin shared' PROVE g \notin shared /\ \A q \in WritersOf(g)' : fd'[q].alone
    <3>1. g \notin shared /\ (g = file => others = {})
      BY <1>1, <2>3
    <3>2. CASE g = file
      BY <1>6, <1>11, <3>1, <3>2
    <3>3. CASE g # file
      <4>1. ASSUME NEW q \in WritersOf(g) PROVE q \in Procs /\ q # p /\ q \notin others /\ fd[q].alone
        BY <1>0, <1>1, <3>1, <3>3 DEF UnsharedPart, WritersOf
      <4> QED BY <1>7, <1>11, <3>1, <3>3, <4>1
    <3> QED BY <3>1, <3>2, <3>3
  <2>4. ASSUME g \notin shared, NEW d \in views'
        PROVE  /\ durable[g] > 0 => g \in DOMAIN d
               /\ g \in DOMAIN d => Sound(d[g])' /\ content'[d[g]][1].serial >= durable[g]
    <3>1. durable[g] > 0 => g \in DOMAIN d
      BY <1>1, <2>4 DEF UnsharedPart, DirPart
    <3>2. ASSUME g \in DOMAIN d PROVE Sound(d[g])' /\ content'[d[g]][1].serial >= durable[g]
      BY <1>16, <1>20, <1>21, <2>1, <2>4, <3>2 DEF UnsharedPart, DirPart
    <3> QED BY <3>1, <3>2
  <2> QED BY <2>2, <2>3, <2>4
<1>25. ASSUME NEW g \in Atomic, g # file PROVE Tmp(g) # tmp
  <2>1. CASE WritesChunk(p)
    <3>1. PICK j \in 1..MaxChunks : job[p] = WriteChunk(p, j)
      BY <1>1, <2>1, JobIs
    <3>2. tmp = ChunkTmp(p, j)
      BY <1>0, <3>1 DEF WriteChunk
    <3> QED BY <3>2, NamesAre
  <2>2. CASE ~ WritesChunk(p)
    BY <1>2, <1>25, <2>2, NamesAre
  <2> QED BY <2>1, <2>2
<1>26. LoudPart'
  <2> SUFFICES ASSUME NEW g \in Atomic \ loud
               PROVE  /\ (\A q \in WritersOf(g)' : ~ Unplaced(q)') /\ g \in DOMAIN dir' =>
                            Sound(dir[g])'
                      /\ WritersOf(g)' = {} => \A d \in views' :
                            g \in DOMAIN d => Sound(d[g])'
                      /\ \A q \in WritersOf(g)' :
                            /\ Unplaced(q)' /\ Tmp(g) \in DOMAIN dir'
                            /\ \A r \in WritersOf(g)' : Unplaced(r)' => r = q
                            => InPlace(q)' /\ Clean(q)'
    BY <1>J DEF LoudPart
  <2>1. CASE g = file
    <3>1. p \in WritersOf(g)' /\ Unplaced(p)'
      BY <1>10, <1>11, <2>1
    <3> QED BY <1>18, <3>1
  <2>2. CASE g # file
    <3>1. WritersOf(g)' = WritersOf(g) /\ p \notin WritersOf(g)
      BY <1>0, <1>1, <1>11, <2>2 DEF WritersOf
    <3>2. \A q \in WritersOf(g) : q \in Procs /\ q # p /\ Open(q) /\ job[q].file # file
      BY <2>2, <3>1 DEF WritersOf
    <3>3. g # tmp /\ Tmp(g) # tmp
      BY <1>2, <1>25, <2>2, NamesAre
    <3>4. ASSUME NEW d \in views', g \in DOMAIN d
          PROVE  \/ d \in views /\ (Sound(d[g]) => Sound(d[g])')
                 \/ d = dir' /\ g \in DOMAIN dir /\ (Sound(dir[g]) => Sound(d[g])')
      BY <1>16, <1>20, <1>21, <3>3, <3>4 DEF DirPart
    <3>5. (\A q \in WritersOf(g)' : ~ Unplaced(q)') /\ g \in DOMAIN dir' => Sound(dir[g])'
      <4> SUFFICES ASSUME \A q \in WritersOf(g)' : ~ Unplaced(q)', g \in DOMAIN dir'
                   PROVE  Sound(dir[g])'
        OBVIOUS
      <4>1. g \in DOMAIN dir /\ dir'[g] = dir[g] /\ dir[g] # i /\ dir[g] \in Inodes
        BY <1>1, <1>21, <3>3 DEF DirPart
      <4>2. Sound(dir[g])
        BY <1>10, <3>1, <3>2, <4>1 DEF LoudPart
      <4>3. content'[dir[g]] = content[dir[g]] /\ stable'[dir[g]] = stable[dir[g]]
        BY <1>20, <4>1
      <4> QED BY <4>1, <4>2, <4>3 DEF Sound, Whole
    <3>6. WritersOf(g)' = {} => \A d \in views' : g \in DOMAIN d => Sound(d[g])'
      BY <3>1, <3>4 DEF LoudPart, DirPart
    <3>7. ASSUME NEW q \in WritersOf(g)', Unplaced(q)', Tmp(g) \in DOMAIN dir',
                 \A r \in WritersOf(g)' : Unplaced(r)' => r = q
          PROVE  InPlace(q)' /\ Clean(q)'
      <4>1. q \in WritersOf(g) /\ q \in Procs /\ q # p /\ Open(q) /\ job[q].file # file
        BY <3>1, <3>2, <3>7
      <4>2. Unplaced(q) /\ \A r \in WritersOf(g) : Unplaced(r) => r = q
        BY <1>10, <3>1, <3>2, <3>7, <4>1
      <4>3. Tmp(g) \in DOMAIN dir
        BY <1>1, <3>3, <3>7
      <4>4. InPlace(q) /\ Clean(q)
        BY <4>1, <4>2, <4>3 DEF LoudPart
      <4> QED BY <1>19, <4>1, <4>4
    <3> QED BY <3>5, <3>6, <3>7
  <2> QED BY <2>1, <2>2
<1>27. ListsPart'
  <2> DEFINE t == Tmp(Checkpoint)
  <2>1. Checkpoint \in Atomic /\ Checkpoint # tmp
    BY <1>2, NamesAre DEF Atomic
  <2>2. ASSUME NEW d \in views', Checkpoint \in DOMAIN d
        PROVE  /\ Backed(d, content'[d[Checkpoint]][1].lists)
               /\ Backed(d, stable'[d[Checkpoint]][1].lists)
               /\ \A q \in WritersOf(Checkpoint)' :
                    fd'[q].ino = d[Checkpoint] => Backed(d, fd'[q].lists)
    <3> DEFINE k == d[Checkpoint]
    <3>1. k # i /\ (d \in views \/ (d = dir' /\ Checkpoint \in DOMAIN dir /\ k = dir[Checkpoint]))
      BY <1>16, <2>1, <2>2
    <3>2. k \in Inodes /\ content'[k] = content[k] /\ stable'[k] = stable[k]
      BY <1>20, <1>21, <2>2, <3>1 DEF DirPart
    <3>3. \A q \in WritersOf(Checkpoint)' : fd'[q].ino = k =>
            q \in WritersOf(Checkpoint) /\ fd[q].ino = k /\ fd'[q].lists = fd[q].lists
      <4> SUFFICES ASSUME NEW q \in WritersOf(Checkpoint)', fd'[q].ino = k
                   PROVE  /\ q \in WritersOf(Checkpoint) /\ fd[q].ino = k
                          /\ fd'[q].lists = fd[q].lists
        OBVIOUS
      <4> HIDE DEF k
      <4>1. q # p
        BY <1>6, <3>1
      <4>2. q \in WritersOf(Checkpoint)
        BY <1>0, <1>11, <4>1
      <4>3. q \in Procs
        BY <4>2 DEF WritersOf
      <4> QED BY <1>7, <4>1, <4>2, <4>3
    <3> HIDE DEF k
    <3>4. CASE d \in views
      BY <2>2, <3>2, <3>3, <3>4 DEF ListsPart, k
    <3>5. CASE d = dir' /\ Checkpoint \in DOMAIN dir /\ k = dir[Checkpoint]
      BY <1>12, <3>2, <3>3, <3>5 DEF ListsPart, DirPart, k
    <3> QED BY <3>1, <3>4, <3>5 DEF k
  <2>3. ASSUME t \in DOMAIN dir', NEW q \in WritersOf(Checkpoint)', Unplaced(q)'
        PROVE  /\ Backed(dir', content'[dir'[t]][1].lists)
               /\ Synced(q)' \/ fd'[q].ino # dir'[t] => Backed(dir', stable'[dir'[t]][1].lists)
    <3>1. Empty[1].lists = 0 /\ Backed(dir', 0)
      BY DEF Empty, Hole, Backed
    <3>2. CASE t = tmp
      <4>1. dir'[t] = i /\ Backed(dir', content'[i][1].lists)
        BY <1>1, <1>3, <3>1, <3>2
      <4>2. ASSUME Synced(q)' \/ fd'[q].ino # i PROVE Backed(dir', stable'[i][1].lists)
        <5>1. q # p /\ q \in Procs /\ q \in WritersOf(Checkpoint) /\ Unplaced(q)
          BY <1>0, <1>1, <1>6, <1>10, <1>11, <2>3, <4>2 DEF WritersOf
        <5>2. Synced(q) \/ fd[q].ino # i
          BY <1>7, <1>10, <4>2, <5>1
        <5> QED BY <1>4, <1>12, <3>1, <3>2, <5>1, <5>2 DEF ListsPart
      <4> QED BY <4>1, <4>2
    <3>3. CASE t # tmp
      <4>1. file # Checkpoint
        BY <1>0, <1>1, <1>2, <2>1, <3>3, NamesAre, JobIs
      <4>2. q \in WritersOf(Checkpoint) /\ q \in Procs /\ q # p /\ Unplaced(q)
        BY <1>1, <1>10, <1>11, <2>3, <4>1 DEF WritersOf
      <4>3. t \in DOMAIN dir /\ dir'[t] = dir[t] /\ dir[t] # i /\ dir[t] \in Inodes
        BY <1>1, <1>21, <2>3, <3>3 DEF DirPart
      <4>4. content'[dir[t]] = content[dir[t]] /\ stable'[dir[t]] = stable[dir[t]]
        BY <1>20, <4>3
      <4> QED BY <1>7, <1>10, <1>12, <4>2, <4>3, <4>4 DEF ListsPart
    <3> QED BY <3>2, <3>3
  <2> QED BY <1>1, <2>2, <2>3 DEF ListsPart, Backed
<1> QED BY <1>9, <1>13, <1>14, <1>15, <1>17, <1>22, <1>23, <1>24, <1>26, <1>27

\* What a process has written and synced is whole and stable.
LEMMA CleanIsSound ==
    ASSUME TypePart, HandlePart, NEW p \in Procs, Synced(p), Clean(p)
    PROVE  /\ Sound(fd[p].ino)
           /\ content[fd[p].ino][1].serial = fd[p].serial
<1> DEFINE i == fd[p].ino
<1>1. Open(p) /\ ip[p] \in 1..6 /\ fd[p] \in Handle
  BY DEF Synced, TypePart
<1>2. fd[p].at = Size(p) /\ fd[p].size = Size(p) /\ Size(p) \in 1..2 /\ fd[p].serial # 0
  BY <1>1, AtomicFilesAssumption DEF HandlePart, Synced, RenameAt, Written, TypePart
<1>3. /\ content[i][1] = BlockOf(p)
      /\ content[i][2] = IF Size(p) = 2 THEN BlockOf(p) ELSE Hole
      /\ stable[i] = content[i]
  BY <1>2 DEF Clean
<1>4. BlockOf(p).serial = fd[p].serial /\ BlockOf(p).size = Size(p) /\ Hole.serial = 0
  BY <1>2 DEF BlockOf, Hole
<1>5. BlockOf(p) # Hole
  BY <1>2, <1>4
<1> QED BY <1>3, <1>4, <1>5 DEF Sound, Whole

\* A file that is renamed keeps the invariant: what is under the file's name then has been
\* written by one process and synced, unless another writes it or has failed.
LEMMA RenameInv ==
    ASSUME AtomicInv, NEW p \in Procs, Rename(p)
    PROVE  AtomicInv'
<1> USE DEF AtomicInv
<1>0. PICK tmp, file, i : tmp = job[p].tmp /\ file = job[p].file /\ i = dir[job[p].tmp]
  OBVIOUS
<1>1. /\ Running(p) /\ Open(p) /\ Unplaced(p) /\ Synced(p) /\ ip[p] = RenameAt(p)
      /\ tmp \in DOMAIN dir /\ tmp \in Names \ Files /\ file \in Files
  <2>1. Running(p) /\ ip[p] = RenameAt(p) /\ RenameAt(p) \in 5..6 /\ ip[p] # 1 /\ Open(p)
    BY CallIs DEF Rename, At
  <2> QED BY <1>0, <2>1, JobIs DEF Rename, Exists, Unplaced, Synced
<1>2. /\ DOMAIN dir' = (DOMAIN dir \ {tmp}) \cup {file} /\ tmp \notin DOMAIN dir'
      /\ dir'[file] = i
      /\ \A n \in DOMAIN dir : n # tmp /\ n # file => dir'[n] = dir[n]
      /\ dir' \in views' /\ views' = views \cup {dir'}
      /\ content' = content /\ stable' = stable /\ dir \in views
  BY <1>0, <1>1 DEF Rename, Change, Renamed, DirPart
<1>3. /\ \A d \in views : \A n \in DOMAIN d : d[n] = i => n = tmp
      /\ \A n \in DOMAIN dir' : dir'[n] = i => n = file
      /\ i \in Inodes
  <2>1. \A d \in views : \A n \in DOMAIN d : d[n] = i => n = tmp
    BY <1>0, <1>1 DEF DirPart
  <2>2. i \in Inodes
    BY <1>0, <1>1 DEF DirPart, IsDirectory
  <2> QED BY <1>2, <2>1, <2>2
<1>4. \/ /\ ~ WritesChunk(p) /\ file \in Atomic /\ tmp = Tmp(file)
         /\ ip' = [ip EXCEPT ![p] = 6] /\ ip[p] = 5 /\ fd' = fd /\ job' = job
         /\ UNCHANGED historyVars
      \/ /\ WritesChunk(p) /\ file \notin Atomic
         /\ ip' = [ip EXCEPT ![p] = 1] /\ fd' = [fd EXCEPT ![p] = Closed]
         /\ job' = [job EXCEPT ![p] = NextJob(p)]
         /\ serial' = serial
         /\ \/ UNCHANGED <<durable, shared, loud>>
            \/ /\ durable' = [durable EXCEPT ![file] = fd[p].serial]
               /\ shared' = shared \ {file} /\ loud' = loud \ {file}
  <2>1. Len(job[p].calls) = 6
    BY <1>1, JobIs
  <2>2. CASE ~ WritesChunk(p)
    <3>1. ip[p] = 5 /\ file \in Atomic /\ tmp = Tmp(file)
      BY <1>0, <1>1, <2>2, JobIs DEF RenameAt, WritesChunk
    <3> QED BY <2>1, <2>2, <3>1 DEF Rename, Continue, Done, historyVars
  <2>3. CASE WritesChunk(p)
    <3>1. ip[p] = 6 /\ file \notin Atomic
      BY <1>0, <1>1, <2>3, JobIs DEF RenameAt, WritesChunk
    <3> QED BY <1>0, <2>1, <2>3, <3>1 DEF Rename, Continue, Done
  <2> QED BY <2>2, <2>3
<1>5. /\ serial' = serial
      /\ \A g \in Atomic : /\ durable'[g] = durable[g]
                           /\ g \in shared' <=> g \in shared
                           /\ g \in loud' <=> g \in loud
  BY <1>4, NamesAre DEF TypePart, historyVars
<1>6. /\ \A q \in Procs : q # p => job'[q] = job[q] /\ ip'[q] = ip[q] /\ fd'[q] = fd[q]
      /\ ~ WritesChunk(p) => job'[p] = job[p] /\ ip'[p] = 6 /\ fd'[p] = fd[p] /\ ip[p] = 5
      /\ WritesChunk(p) => job'[p] = NextJob(p) /\ ip'[p] = 1 /\ fd'[p] = Closed
  BY <1>4 DEF TypePart
<1>7. /\ \A q \in Procs : Open(q)' =>
           /\ Open(q) /\ job'[q] = job[q] /\ fd'[q] = fd[q]
           /\ q = p => ~ WritesChunk(p)
           /\ WritesChunk(q)' <=> WritesChunk(q)
           /\ Unplaced(q)' <=> Unplaced(q) /\ q # p
           /\ Synced(q)' <=> Synced(q)
      /\ \A q \in Procs : Open(q) /\ (q = p => ~ WritesChunk(p)) => Open(q)'
  <2>1. \A q \in Procs : Open(q)' =>
          Open(q) /\ job'[q] = job[q] /\ fd'[q] = fd[q] /\ (q = p => ~ WritesChunk(p))
    BY <1>1, <1>6 DEF Open, Closed
  <2>2. \A q \in Procs : Open(q) /\ (q = p => ~ WritesChunk(p)) => Open(q)'
    BY <1>6 DEF Open
  <2>3. ASSUME NEW q \in Procs, Open(q)', q # p
        PROVE  /\ WritesChunk(q)' <=> WritesChunk(q)
               /\ Unplaced(q)' <=> Unplaced(q)
               /\ Synced(q)' <=> Synced(q)
    BY <1>6, <2>1, <2>3 DEF WritesChunk, Unplaced, Synced, RenameAt
  <2>4. ASSUME Open(p)'
        PROVE  ~ WritesChunk(p)' /\ ~ Unplaced(p)' /\ Synced(p)'
    BY <1>6, <2>1, <2>4 DEF WritesChunk, Unplaced, Synced, RenameAt
  <2> QED BY <1>1, <2>1, <2>2, <2>3, <2>4
<1>8. \A q \in Procs : Open(q)' => (Clean(q)' <=> Clean(q))
  BY <1>2, <1>7 DEF Clean, BlockOf
<1>9. \A k : Sound(k)' <=> Sound(k)
  BY <1>2 DEF Sound, Whole
<1>10. /\ \A g \in Atomic : WritersOf(g)' = WritersOf(g)
       /\ file \in Atomic <=> ~ WritesChunk(p)
       /\ file \in Atomic => p \in WritersOf(file) /\ tmp = Tmp(file)
       /\ \A g \in Atomic : g # file => p \notin WritersOf(g)
  <2>1. file \in Atomic <=> ~ WritesChunk(p)
    BY <1>4
  <2>2. ASSUME NEW g \in Atomic PROVE WritersOf(g)' = WritersOf(g)
    BY <1>0, <1>7, <2>1, <2>2 DEF WritersOf
  <2> QED BY <1>0, <1>1, <1>4, <2>1, <2>2 DEF WritersOf
<1>11. \A k : Backed(dir, k) => Backed(dir', k)
  <2>1. \A j \in 1..MaxChunks : Chunk(j) # tmp
    BY <1>1, NamesAre
  <2>2. \A j : Chunk(j) \in DOMAIN dir => Chunk(j) # tmp
    <3>1. \A j : Chunk(j) # tmp
      <4>1. tmp[3] # "final"
        <5>1. CASE ~ WritesChunk(p)
          BY <1>10, <5>1 DEF Tmp
        <5>2. CASE WritesChunk(p)
          <6>1. PICK j \in 1..MaxChunks : job[p] = WriteChunk(p, j)
            BY <1>1, <5>2, JobIs
          <6>2. tmp = ChunkTmp(p, j)
            BY <1>0, <6>1 DEF WriteChunk
          <6>3. tmp[3] = p
            BY <6>2 DEF ChunkTmp
          <6> QED BY <6>3, AtomicFilesAssumption
        <5> QED BY <5>1, <5>2
      <4> QED BY <4>1 DEF Chunk
    <3> QED BY <3>1
  <2> QED BY <1>2, <2>2 DEF Backed
<1>12. WritesChunk(p) => \E j \in 1..MaxChunks :
         /\ file = Chunk(j) /\ job'[p] = AfterChunk(j) /\ Backed(dir', j)
  <2> SUFFICES ASSUME WritesChunk(p)
               PROVE  \E j \in 1..MaxChunks :
                        file = Chunk(j) /\ job'[p] = AfterChunk(j) /\ Backed(dir', j)
    OBVIOUS
  <2>1. PICK j \in 1..MaxChunks : job[p] = WriteChunk(p, j) /\ Backed(dir, j - 1)
    BY <1>1, JobIs
  <2>2. job[p].file = Chunk(j)
    BY <2>1 DEF WriteChunk
  <2>3. Chunk(j)[2] = j /\ Chunk(j) # Points /\ Chunk(j) # Checkpoint
    BY NamesAre DEF Chunk, Atomic
  <2>4. job'[p] = AfterChunk(j)
    BY <1>6, <2>2, <2>3 DEF NextJob
  <2>5. Backed(dir', j - 1) /\ Chunk(j) \in DOMAIN dir'
    BY <1>0, <1>2, <1>11, <2>1, <2>2
  <2>6. Backed(dir', j)
    BY <2>5 DEF Backed
  <2> QED BY <1>0, <2>2, <2>4, <2>6
<1>13. TypePart'
  <2>1. job' \in [Procs -> Jobs]
    <3>1. CASE ~ WritesChunk(p)
      BY <1>4, <3>1 DEF TypePart
    <3>2. CASE WritesChunk(p)
      <4>1. \A j \in 1..MaxChunks : AfterChunk(j) \in Jobs
        BY Typed, AtomicFilesAssumption DEF AfterChunk, Atomic
      <4>2. NextJob(p) \in Jobs
        BY <1>6, <1>12, <3>2, <4>1
      <4> QED BY <1>4, <3>2, <4>2 DEF TypePart
    <3> QED BY <3>1, <3>2
  <2>2. fd' \in [Procs -> Handle] /\ ip' \in [Procs -> 1..6]
    <3>1. Closed \in Handle
      BY Typed
    <3>2. fd' \in [Procs -> Handle]
      BY <1>4, <3>1 DEF TypePart
    <3>3. ip' \in [Procs -> 1..6]
      BY <1>4 DEF TypePart
    <3> QED BY <3>2, <3>3
  <2>3. fd[p].serial \in Nat
    BY DEF TypePart, Handle
  <2>4. durable' \in [Files -> Nat] /\ shared' \subseteq Files /\ loud' \subseteq Files
    BY <1>4, <2>3 DEF TypePart, historyVars
  <2> QED BY <1>2, <1>5, <2>1, <2>2, <2>4 DEF TypePart
<1>14. JobPart'
  <2>1. ASSUME NEW q \in Procs, job'[q] = job[q]
        PROVE  \/ job'[q] = NoJob
               \/ q \in Recorders /\ \E j \in 1..MaxChunks :
                     \/ job'[q] = WriteChunk(q, j) /\ Backed(dir', j - 1)
                     \/ job'[q] = AtomicWrite(Checkpoint, j) /\ Backed(dir', j)
               \/ /\ job'[q] = AtomicWrite(Points, 0)
                  /\ q \in Recorders => MaxChunks > 0 /\ Backed(dir', MaxChunks)
    BY <1>11, <2>1 DEF JobPart
  <2>2. ASSUME WritesChunk(p)
        PROVE  \/ p \in Recorders /\ \E j \in 1..MaxChunks :
                     job'[p] = AtomicWrite(Checkpoint, j) /\ Backed(dir', j)
               \/ /\ job'[p] = AtomicWrite(Points, 0)
                  /\ MaxChunks > 0 /\ Backed(dir', MaxChunks)
    <3>1. p \in Recorders
      BY <1>1, <2>2, JobIs
    <3>2. PICK j \in 1..MaxChunks : job'[p] = AfterChunk(j) /\ Backed(dir', j)
      BY <1>12, <2>2
    <3> QED BY <3>1, <3>2, AtomicFilesAssumption DEF AfterChunk
  <2>3. \A q \in Procs : job'[q] = job[q] \/ (q = p /\ WritesChunk(p))
    BY <1>6
  <2> QED BY <2>1, <2>2, <2>3 DEF JobPart, Backed
<1>15. HandlePart'
  <2>1. ASSUME NEW q \in Procs, q # p
        PROVE  Written(q)' = Written(q) /\ (Open(q)' <=> Open(q))
    BY <1>6, <1>7, <2>1 DEF Written, WritesChunk
  <2>2. ASSUME ~ WritesChunk(p) PROVE Written(p)' = Written(p) /\ Open(p)'
    BY <1>1, <1>6, <1>7, <2>2 DEF Written, WritesChunk
  <2>3. WritesChunk(p) => ~ Open(p)' /\ ip'[p] = 1
    BY <1>6, <1>7
  <2> QED BY <1>1, <1>5, <1>6, <2>1, <2>2, <2>3 DEF HandlePart, Running
<1>16. DirPart'
  <2>1. ASSUME NEW m \in DOMAIN dir', NEW n \in DOMAIN dir', dir'[m] = dir'[n] PROVE m = n
    BY <1>2, <1>3, <2>1 DEF DirPart, IsDirectory
  <2>2. DOMAIN dir' \subseteq Names /\ dir' \in [DOMAIN dir' -> Inodes]
    <3>1. dir' = [n \in DOMAIN dir' |-> dir'[n]]
      BY DEF Rename, Change, Renamed
    <3>2. \A n \in DOMAIN dir' : dir'[n] \in Inodes
      BY <1>2, <1>3 DEF DirPart, IsDirectory
    <3>3. DOMAIN dir' \subseteq Names
      BY <1>1, <1>2, NamesAre DEF DirPart, IsDirectory
    <3> QED BY <3>1, <3>2, <3>3
  <2>3. (\A d \in views : IsDirectory(d))'
    BY <1>2, <2>1, <2>2 DEF DirPart, IsDirectory
  <2>4. ASSUME NEW d \in views', NEW t \in DOMAIN dir' \ Files, NEW n \in DOMAIN d, d[n] = dir'[t]
        PROVE  n = t
    <3>1. t \in DOMAIN dir \ Files /\ dir'[t] = dir[t]
      BY <1>1, <1>2
    <3>2. CASE d = dir'
      BY <2>1, <2>4, <3>2
    <3>3. CASE d \in views
      BY <2>4, <3>1, <3>3 DEF DirPart
    <3> QED BY <1>2, <3>2, <3>3
  <2> QED BY <1>2, <2>3, <2>4 DEF DirPart
<1>17. ASSUME NEW d \in views', NEW n \in DOMAIN d
       PROVE  \/ d \in views
              \/ d = dir' /\ n = file /\ d[n] = i
              \/ d = dir' /\ n # file /\ n # tmp /\ n \in DOMAIN dir /\ d[n] = dir[n]
  BY <1>2
<1>18. \A q \in Procs : Open(q) => Running(q)
  BY DEF HandlePart, Running
<1>19. \A q \in Procs : Open(q) /\ (job[q].file # file \/ (WritesChunk(q) /\ q # p)) =>
         job[q].tmp # tmp
  BY <1>0, <1>1, <1>18, TmpTells
<1>20. ASSUME NEW q \in Procs, Open(q)', q # p, job[q].tmp # tmp
       PROVE  InPlace(q) => InPlace(q)'
  <2>1. job[q].tmp \notin Files
    BY <1>7, <1>18, <1>20, JobIs
  <2> QED BY <1>1, <1>2, <1>7, <1>20, <2>1 DEF InPlace
<1>21. OwnPart'
  <2>1. ASSUME NEW q \in Procs, Open(q), NEW d \in views', NEW n \in DOMAIN d, d[n] = fd[q].ino
        PROVE  n \in {job[q].file, job[q].tmp}
    <3>1. CASE d = dir' /\ n = file /\ d[n] = i
      <4>1. tmp \in {job[q].file, job[q].tmp}
        BY <1>0, <1>1, <1>2, <2>1, <3>1 DEF OwnPart
      <4>2. job[q].file \in Files
        BY <1>18, <2>1, JobIs
      <4> QED BY <1>1, <1>19, <2>1, <3>1, <4>1, <4>2
    <3>2. CASE ~ (d = dir' /\ n = file /\ d[n] = i)
      BY <1>2, <1>17, <2>1, <3>2 DEF OwnPart
    <3> QED BY <3>1, <3>2
  <2> QED BY <1>7, <2>1 DEF OwnPart
<1>22. ChunkPart'
  <2>1. ASSUME NEW q \in Procs, Open(q)', WritesChunk(q)' PROVE InPlace(q)' /\ Clean(q)'
    <3>1. q # p /\ Open(q) /\ WritesChunk(q)
      BY <1>7, <2>1
    <3>2. InPlace(q) /\ Clean(q)
      BY <3>1 DEF ChunkPart
    <3> QED BY <1>8, <1>19, <1>20, <2>1, <3>1, <3>2
  <2>2. ASSUME NEW d \in views', NEW j \in 1..MaxChunks, Chunk(j) \in DOMAIN d
        PROVE  Sound(d[Chunk(j)])
    <3>1. CASE d = dir' /\ Chunk(j) = file /\ d[Chunk(j)] = i
      <4>1. WritesChunk(p)
        BY <1>10, <3>1, NamesAre
      <4>2. InPlace(p) /\ Clean(p)
        BY <1>1, <4>1 DEF ChunkPart
      <4>3. Sound(fd[p].ino) /\ fd[p].ino = i
        BY <1>0, <1>1, <4>2, CleanIsSound DEF InPlace
      <4> QED BY <3>1, <4>3
    <3>2. CASE ~ (d = dir' /\ Chunk(j) = file /\ d[Chunk(j)] = i)
      BY <1>2, <1>17, <2>2, <3>2 DEF ChunkPart
    <3> QED BY <3>1, <3>2
  <2> QED BY <1>9, <2>1, <2>2 DEF ChunkPart
<1>23. AlonePart'
  <2> SUFFICES ASSUME NEW q \in Procs, Open(q)', fd[q].alone, job[q].file \in Atomic
               PROVE  /\ WritersOf(job[q].file) = {q}
                      /\ fd[q].serial = serial[job[q].file]
                      /\ Clean(q)
                      /\ Unplaced(q)' => InPlace(q)'
                      /\ ~ Unplaced(q)' => /\ job[q].file \in DOMAIN dir'
                                           /\ dir'[job[q].file] = fd[q].ino
    <3>1. ASSUME NEW q \in Procs, Open(q)', job[q].file \in Atomic
          PROVE  {r \in Procs : Open(r)' /\ job'[r].file = job'[q].file} =
                   WritersOf(job[q].file)
      <4>1. PICK g \in Atomic : g = job[q].file
        BY <3>1
      <4>2. {r \in Procs : Open(r)' /\ job'[r].file = g} = WritersOf(g)
        BY <1>10 DEF WritersOf
      <4> QED BY <1>7, <3>1, <4>1, <4>2
    <3>2. ASSUME NEW q \in Procs, Open(q)', fd'[q].alone, job'[q].file \in Atomic
          PROVE  /\ {r \in Procs : Open(r)' /\ job'[r].file = job'[q].file} = {q}
                 /\ fd'[q].serial = serial'[job'[q].file]
                 /\ Clean(q)'
                 /\ Unplaced(q)' => InPlace(q)'
                 /\ ~ Unplaced(q)' => /\ job'[q].file \in DOMAIN dir'
                                      /\ dir'[job'[q].file] = fd'[q].ino
      BY <1>5, <1>7, <1>8, <3>1, <3>2
    <3> QED BY <3>2 DEF AlonePart, WritersOf
  <2>1. /\ Open(q) /\ WritersOf(job[q].file) = {q} /\ fd[q].serial = serial[job[q].file]
        /\ Clean(q)
        /\ Unplaced(q) => InPlace(q)
        /\ ~ Unplaced(q) => job[q].file \in DOMAIN dir /\ dir[job[q].file] = fd[q].ino
    BY <1>7 DEF AlonePart
  <2>2. CASE q = p
    <3>1. ~ Unplaced(q)' /\ InPlace(p)
      BY <1>1, <1>7, <2>1, <2>2
    <3> QED BY <1>0, <1>2, <2>1, <2>2, <3>1 DEF InPlace
  <2>3. CASE q # p
    <3>1. job[q].file # file
      BY <1>10, <2>1, <2>3
    <3>2. job[q].tmp # tmp /\ job[q].file # tmp
      BY <1>1, <1>19, <2>1, <3>1, NamesAre
    <3>3. Unplaced(q)' => InPlace(q)'
      BY <1>7, <1>20, <2>1, <2>3, <3>2
    <3>4. ~ Unplaced(q)' => job[q].file \in DOMAIN dir' /\ dir'[job[q].file] = fd[q].ino
      BY <1>2, <1>7, <2>1, <2>3, <3>1, <3>2
    <3> QED BY <2>1, <3>3, <3>4
  <2> QED BY <2>2, <2>3
<1>24. UnsharedPart'
  <2> SUFFICES ASSUME NEW g \in Atomic \ shared, NEW d \in views'
               PROVE  /\ durable[g] > 0 => g \in DOMAIN d
                      /\ g \in DOMAIN d => Sound(d[g]) /\ content[d[g]][1].serial >= durable[g]
    <3>1. \A g \in Atomic \ shared : \A q \in WritersOf(g) :
            q \in Procs /\ fd[q].alone /\ fd'[q] = fd[q]
      BY <1>7, <1>10 DEF UnsharedPart, WritersOf
    <3> QED BY <1>2, <1>5, <1>9, <1>10, <3>1 DEF UnsharedPart
  <2>1. g # tmp
    BY <1>1, NamesAre
  <2>2. durable[g] > 0 => g \in DOMAIN d
    BY <1>2, <2>1 DEF UnsharedPart
  <2>3. ASSUME g \in DOMAIN d PROVE Sound(d[g]) /\ content[d[g]][1].serial >= durable[g]
    <3>1. CASE d = dir' /\ g = file /\ d[g] = i
      <4>1. p \in WritersOf(file) /\ fd[p].alone
        BY <1>10, <3>1 DEF UnsharedPart
      <4>2. InPlace(p) /\ Clean(p) /\ fd[p].serial = serial[file]
        BY <1>0, <1>1, <3>1, <4>1 DEF AlonePart
      <4>3. Sound(fd[p].ino) /\ content[fd[p].ino][1].serial = serial[file] /\ fd[p].ino = i
        BY <1>0, <1>1, <4>2, CleanIsSound DEF InPlace
      <4>4. durable[file] <= serial[file] /\ durable[file] \in Nat /\ serial[file] \in Nat
        BY <1>1, <3>1 DEF UnsharedPart, TypePart
      <4> QED BY <3>1, <4>3, <4>4
    <3>2. CASE ~ (d = dir' /\ g = file /\ d[g] = i)
      BY <1>2, <1>17, <2>3, <3>2 DEF UnsharedPart
    <3> QED BY <3>1, <3>2
  <2> QED BY <2>2, <2>3
<1>25. ASSUME NEW g \in Atomic, g # file PROVE Tmp(g) # tmp
  <2>1. CASE WritesChunk(p)
    <3>1. PICK j \in 1..MaxChunks : job[p] = WriteChunk(p, j)
      BY <1>1, <2>1, JobIs
    <3>2. tmp = ChunkTmp(p, j)
      BY <1>0, <3>1 DEF WriteChunk
    <3> QED BY <3>2, NamesAre
  <2>2. CASE ~ WritesChunk(p)
    BY <1>10, <1>25, <2>2, NamesAre
  <2> QED BY <2>1, <2>2
<1>26. LoudPart'
  <2> SUFFICES ASSUME NEW g \in Atomic \ loud
               PROVE  /\ (\A q \in WritersOf(g) : ~ Unplaced(q)') /\ g \in DOMAIN dir' =>
                            Sound(dir'[g])
                      /\ WritersOf(g) = {} => \A d \in views' : g \in DOMAIN d => Sound(d[g])
                      /\ \A q \in WritersOf(g) :
                            /\ Unplaced(q)' /\ Tmp(g) \in DOMAIN dir'
                            /\ \A r \in WritersOf(g) : Unplaced(r)' => r = q
                            => InPlace(q)' /\ Clean(q)'
    BY <1>5, <1>9, <1>10 DEF LoudPart
  <2>1. \A q \in WritersOf(g) : /\ q \in Procs /\ Open(q)' /\ Open(q) /\ job[q].file = g
                                /\ Unplaced(q)' <=> Unplaced(q) /\ q # p
    BY <1>7, <1>10 DEF WritersOf
  <2>2. CASE g = file
    <3>1. p \in WritersOf(g) /\ tmp = Tmp(g)
      BY <1>10, <2>2
    <3>2. ASSUME \A q \in WritersOf(g) : ~ Unplaced(q)' PROVE Sound(dir'[g])
      <4>1. \A q \in WritersOf(g) : Unplaced(q) => q = p
        BY <2>1, <3>2
      <4>2. InPlace(p) /\ Clean(p)
        BY <1>1, <3>1, <4>1 DEF LoudPart
      <4> QED BY <1>0, <1>1, <1>2, <2>2, <4>2, CleanIsSound DEF InPlace
    <3> QED BY <1>2, <3>1, <3>2
  <2>3. CASE g # file
    <3>1. g # tmp /\ Tmp(g) # tmp /\ Tmp(g) # file
      BY <1>1, <1>25, <2>3, NamesAre
    <3>2. \A q \in WritersOf(g) : q # p
      BY <1>10, <2>3
    <3>3. ASSUME \A q \in WritersOf(g) : ~ Unplaced(q)', g \in DOMAIN dir' PROVE Sound(dir'[g])
      <4>1. g \in DOMAIN dir /\ dir'[g] = dir[g]
        BY <1>2, <2>3, <3>1, <3>3
      <4>2. \A q \in WritersOf(g) : ~ Unplaced(q)
        BY <2>1, <3>2, <3>3
      <4> QED BY <4>1, <4>2 DEF LoudPart
    <3>4. ASSUME WritersOf(g) = {}, NEW d \in views', g \in DOMAIN d PROVE Sound(d[g])
      BY <1>2, <1>17, <2>3, <3>4 DEF LoudPart
    <3>5. ASSUME NEW q \in WritersOf(g), Unplaced(q)', Tmp(g) \in DOMAIN dir',
                 \A r \in WritersOf(g) : Unplaced(r)' => r = q
          PROVE  InPlace(q)' /\ Clean(q)'
      <4>1. Tmp(g) \in DOMAIN dir /\ Unplaced(q) /\ \A r \in WritersOf(g) : Unplaced(r) => r = q
        BY <1>2, <2>1, <3>1, <3>2, <3>5
      <4>2. InPlace(q) /\ Clean(q)
        BY <4>1 DEF LoudPart
      <4>3. job[q].tmp # tmp
        BY <1>19, <2>1, <2>3
      <4> QED BY <1>8, <1>20, <2>1, <3>2, <4>2, <4>3
    <3> QED BY <3>3, <3>4, <3>5
  <2> QED BY <2>2, <2>3
<1>27. ListsPart'
  <2> DEFINE t == Tmp(Checkpoint)
  <2>0. Checkpoint \in Atomic /\ t \notin Files /\ Checkpoint # tmp
    BY <1>1, NamesAre DEF Atomic
  <2>1. \A q \in WritersOf(Checkpoint) : /\ q \in Procs /\ Open(q)' /\ Open(q)
                                         /\ fd'[q] = fd[q]
                                         /\ Unplaced(q)' => Unplaced(q) /\ q # p
                                         /\ Synced(q)' <=> Synced(q)
    BY <1>7, <1>10, <2>0 DEF WritersOf
  <2>2. \A q \in WritersOf(Checkpoint) : Backed(dir', fd[q].lists)
    BY <1>11, <1>18, JobIs DEF WritersOf, HandlePart
  <2>3. ASSUME NEW d \in views', Checkpoint \in DOMAIN d
        PROVE  /\ Backed(d, content[d[Checkpoint]][1].lists)
               /\ Backed(d, stable[d[Checkpoint]][1].lists)
               /\ \A q \in WritersOf(Checkpoint) :
                    fd[q].ino = d[Checkpoint] => Backed(d, fd[q].lists)
    <3>1. CASE d = dir' /\ Checkpoint = file /\ d[Checkpoint] = i
      <4>1. p \in WritersOf(Checkpoint) /\ tmp = t
        BY <1>10, <2>0, <3>1
      <4>2. Backed(dir, content[i][1].lists) /\ Backed(dir, stable[i][1].lists)
        BY <1>0, <1>1, <4>1 DEF ListsPart
      <4> QED BY <1>11, <2>2, <3>1, <4>2
    <3>2. CASE d = dir' /\ Checkpoint # file
      <4>1. Checkpoint \in DOMAIN dir /\ d[Checkpoint] = dir[Checkpoint]
        BY <1>2, <2>0, <2>3, <3>2
      <4>2. /\ Backed(dir, content[dir[Checkpoint]][1].lists)
            /\ Backed(dir, stable[dir[Checkpoint]][1].lists)
        BY <1>2, <4>1 DEF ListsPart
      <4> QED BY <1>11, <2>2, <3>2, <4>1, <4>2
    <3>3. CASE d \in views
      BY <2>3, <3>3 DEF ListsPart
    <3> QED BY <1>2, <3>1, <3>2, <3>3
  <2>4. ASSUME t \in DOMAIN dir', NEW q \in WritersOf(Checkpoint), Unplaced(q)'
        PROVE  /\ Backed(dir', content[dir'[t]][1].lists)
               /\ Synced(q)' \/ fd'[q].ino # dir'[t] => Backed(dir', stable[dir'[t]][1].lists)
    <3>1. t \in DOMAIN dir /\ dir'[t] = dir[t]
      BY <1>1, <1>2, <2>0, <2>4
    <3> QED BY <1>11, <2>1, <2>4, <3>1 DEF ListsPart
  <2>5. WritersOf(Checkpoint)' = WritersOf(Checkpoint)
    BY <1>10, <2>0
  <2> QED BY <1>2, <2>1, <2>3, <2>4, <2>5 DEF ListsPart, Backed
<1> QED BY <1>13, <1>14, <1>15, <1>16, <1>21, <1>22, <1>23, <1>24, <1>26, <1>27

\* The last call of an atomic write keeps the invariant, and what it reports done is stable.
LEMMA SyncDirInv ==
    ASSUME AtomicInv, NEW p \in Procs, SyncDir(p)
    PROVE  AtomicInv'
<1> USE DEF AtomicInv
<1>0. PICK file : file = job[p].file
  OBVIOUS
<1>1. /\ Running(p) /\ Open(p) /\ ip[p] = 6 /\ ~ WritesChunk(p)
      /\ ~ Unplaced(p) /\ Synced(p) /\ file \in Atomic /\ file \in Files
  <2>1. Running(p) /\ ip[p] = 6 /\ ~ WritesChunk(p) /\ Open(p)
    BY CallIs DEF SyncDir, At
  <2> QED BY <1>0, <2>1, JobIs, NamesAre DEF Unplaced, Synced, RenameAt
<1>2. /\ ip' = [ip EXCEPT ![p] = 1] /\ fd' = [fd EXCEPT ![p] = Closed]
      /\ job' = [job EXCEPT ![p] = NextJob(p)]
      /\ serial' = serial /\ dir' = dir /\ views' = {dir}
      /\ content' = content /\ stable' = stable /\ dir \in views
      /\ IF fd[p].alone
            THEN /\ durable' = [durable EXCEPT ![file] = fd[p].serial]
                 /\ shared' = shared \ {file}
                 /\ loud' = loud \ {file}
            ELSE UNCHANGED <<durable, shared, loud>>
  <2>1. Len(job[p].calls) = 6
    BY <1>1, JobIs
  <2> QED BY <1>0, <1>1, <2>1 DEF SyncDir, Continue, Done, DirPart
<1>3. /\ ~ Open(p)' /\ ip'[p] = 1 /\ job'[p] = NextJob(p)
      /\ \A q \in Procs : q # p =>
           /\ job'[q] = job[q] /\ ip'[q] = ip[q] /\ fd'[q] = fd[q]
           /\ Open(q)' <=> Open(q)
  BY <1>2 DEF TypePart, Open, Closed
<1>4. \A q \in Procs : Open(q)' =>
        /\ q # p /\ Open(q) /\ job'[q] = job[q] /\ fd'[q] = fd[q]
        /\ WritesChunk(q)' <=> WritesChunk(q)
        /\ InPlace(q)' <=> InPlace(q)
        /\ Clean(q)' <=> Clean(q)
        /\ Unplaced(q)' <=> Unplaced(q)
        /\ Synced(q)' <=> Synced(q)
  BY <1>2, <1>3 DEF WritesChunk, InPlace, Clean, Unplaced, Synced, RenameAt, BlockOf
<1>5. \A k : Sound(k)' <=> Sound(k)
  BY <1>2 DEF Sound, Whole
<1>6. /\ \A g : WritersOf(g)' = WritersOf(g) \ {p}
      /\ p \in WritersOf(file) /\ \A g : g # file => p \notin WritersOf(g)
  BY <1>0, <1>1, <1>3 DEF WritersOf
<1>7. fd[p].alone =>
        /\ WritersOf(file) = {p} /\ fd[p].serial = serial[file]
        /\ file \in DOMAIN dir /\ Sound(dir[file])
        /\ content[dir[file]][1].serial = serial[file]
  <2> SUFFICES ASSUME fd[p].alone
               PROVE  /\ WritersOf(file) = {p} /\ fd[p].serial = serial[file]
                      /\ file \in DOMAIN dir /\ Sound(dir[file])
                      /\ content[dir[file]][1].serial = serial[file]
    OBVIOUS
  <2>1. /\ WritersOf(file) = {p} /\ fd[p].serial = serial[file] /\ Clean(p)
        /\ file \in DOMAIN dir /\ dir[file] = fd[p].ino
    BY <1>0, <1>1 DEF AlonePart
  <2>2. Sound(fd[p].ino) /\ content[fd[p].ino][1].serial = fd[p].serial
    BY <1>1, <2>1, CleanIsSound
  <2> QED BY <2>1, <2>2
<1>8. \/ job'[p] = NoJob
      \/ p \in Recorders /\ \E j \in 1..MaxChunks :
            \/ job'[p] = WriteChunk(p, j) /\ Backed(dir, j - 1)
            \/ job'[p] = AtomicWrite(Checkpoint, j) /\ Backed(dir, j)
  <2>1. CASE file = Checkpoint
    <3>1. p \in Recorders /\ job[p].lists \in 1..MaxChunks /\ Backed(dir, job[p].lists)
      BY <1>0, <1>1, <2>1, JobIs
    <3>2. NextJob(p) = AfterCheckpoint(p, job[p].lists)
      BY <1>0, <2>1, NamesAre DEF NextJob
    <3>3. (job[p].lists + 1) - 1 = job[p].lists
      BY <3>1
    <3>4. job[p].lists < MaxChunks => job[p].lists + 1 \in 1..MaxChunks
      BY <3>1, AtomicFilesAssumption
    <3> QED BY <1>3, <3>1, <3>2, <3>3, <3>4 DEF AfterCheckpoint
  <2>2. CASE file = Points
    <3>1. NextJob(p) = AfterPoints(p)
      BY <1>0, <2>2, NamesAre DEF NextJob
    <3>2. ASSUME p \in Recorders PROVE MaxChunks > 0 /\ Backed(dir, MaxChunks)
      <4>1. \A j : WriteChunk(p, j).file # Points
        BY NamesAre DEF WriteChunk, Atomic
      <4>2. \A j : AtomicWrite(Checkpoint, j).file # Points
        BY NamesAre DEF AtomicWrite
      <4> QED BY <1>0, <1>1, <2>2, <3>2, <4>1, <4>2 DEF JobPart, Running
    <3> QED BY <1>3, <3>1, <3>2, AtomicFilesAssumption DEF AfterPoints
  <2> QED BY <1>1, <2>1, <2>2 DEF Atomic
<1>9. TypePart'
  <2>1. job' \in [Procs -> Jobs]
    <3>1. NextJob(p) \in Jobs
      BY <1>3, <1>8, Typed, AtomicFilesAssumption DEF Atomic
    <3> QED BY <1>2, <3>1 DEF TypePart
  <2>2. fd' \in [Procs -> Handle] /\ ip' \in [Procs -> 1..6]
    <3>1. Closed \in Handle
      BY Typed
    <3> QED BY <1>2, <3>1 DEF TypePart
  <2>3. fd[p].serial \in Nat
    BY DEF TypePart, Handle
  <2>4. durable' \in [Files -> Nat] /\ shared' \subseteq Files /\ loud' \subseteq Files
    BY <1>2, <2>3 DEF TypePart
  <2> QED BY <1>2, <2>1, <2>2, <2>4 DEF TypePart
<1>10. JobPart'
  BY <1>2, <1>3, <1>8 DEF JobPart, Backed
<1>11. HandlePart'
  <2>1. \A q \in Procs : q # p => Written(q)' = Written(q)
    BY <1>3 DEF Written, WritesChunk
  <2> QED BY <1>2, <1>3, <2>1 DEF HandlePart
<1>12. DirPart' /\ OwnPart' /\ ChunkPart'
  <2>1. DirPart'
    BY <1>2 DEF DirPart, IsDirectory
  <2>2. OwnPart'
    BY <1>2, <1>4 DEF OwnPart
  <2>3. ChunkPart'
    BY <1>2, <1>4, <1>5 DEF ChunkPart
  <2> QED BY <2>1, <2>2, <2>3
<1>13. AlonePart'
  <2>1. ASSUME NEW q \in Procs, Open(q)', fd'[q].alone, job'[q].file \in Atomic
        PROVE  /\ {r \in Procs : Open(r)' /\ job'[r].file = job'[q].file} = {q}
               /\ fd'[q].serial = serial'[job'[q].file]
               /\ Clean(q)'
               /\ Unplaced(q)' => InPlace(q)'
               /\ ~ Unplaced(q)' => /\ job'[q].file \in DOMAIN dir'
                                    /\ dir'[job'[q].file] = fd'[q].ino
    <3>1. Open(q) /\ q # p /\ job'[q] = job[q] /\ fd'[q] = fd[q]
      BY <1>4, <2>1
    <3>2. WritersOf(job[q].file) = {q}
      BY <2>1, <3>1 DEF AlonePart
    <3>3. {r \in Procs : Open(r)' /\ job'[r].file = job'[q].file} = {q}
      BY <1>4, <2>1, <3>1, <3>2 DEF WritersOf
    <3> QED BY <1>2, <1>4, <2>1, <3>1, <3>3 DEF AlonePart
  <2> QED BY <2>1 DEF AlonePart, WritersOf
<1>14. UnsharedPart'
  <2> SUFFICES ASSUME NEW g \in Atomic
               PROVE  /\ durable'[g] <= serial[g]
                      /\ g \notin shared' =>
                          /\ \A q \in WritersOf(g) \ {p} : fd'[q].alone
                          /\ durable'[g] > 0 => g \in DOMAIN dir
                          /\ g \in DOMAIN dir =>
                               Sound(dir[g]) /\ content[dir[g]][1].serial >= durable'[g]
    BY <1>2, <1>5, <1>6 DEF UnsharedPart
  <2>1. g \in Files /\ serial[g] \in Nat
    BY NamesAre DEF TypePart
  <2>2. CASE fd[p].alone /\ g = file
    <3>1. durable'[g] = serial[g]
      BY <1>2, <1>7, <2>1, <2>2 DEF TypePart
    <3> QED BY <1>7, <2>1, <2>2, <3>1
  <2>3. CASE ~ (fd[p].alone /\ g = file)
    <3>1. durable'[g] = durable[g] /\ (g \in shared' <=> g \in shared)
      BY <1>2, <2>1, <2>3 DEF TypePart
    <3>2. \A q \in WritersOf(g) \ {p} : q \in Procs /\ q # p /\ fd'[q] = fd[q]
      BY <1>3 DEF WritersOf
    <3> QED BY <1>2, <3>1, <3>2 DEF UnsharedPart
  <2> QED BY <2>2, <2>3
<1>15. LoudPart'
  <2> SUFFICES ASSUME NEW g \in Atomic, g \notin loud'
               PROVE  /\ (\A q \in WritersOf(g) \ {p} : ~ Unplaced(q)) /\ g \in DOMAIN dir =>
                            Sound(dir[g])
                      /\ \A q \in WritersOf(g) \ {p} :
                            /\ Unplaced(q) /\ Tmp(g) \in DOMAIN dir
                            /\ \A r \in WritersOf(g) \ {p} : Unplaced(r) => r = q
                            => InPlace(q) /\ Clean(q)
    <3>1. \A g \in Atomic : \A q \in WritersOf(g) \ {p} : q \in Procs /\ Open(q)'
      BY <1>3 DEF WritersOf
    <3> QED BY <1>2, <1>4, <1>5, <1>6, <3>1 DEF LoudPart
  <2>1. CASE fd[p].alone /\ g = file
    BY <1>7, <2>1
  <2>2. CASE ~ (fd[p].alone /\ g = file)
    <3>1. g \notin loud
      BY <1>2, <2>2
    <3> QED BY <1>1, <3>1 DEF LoudPart
  <2> QED BY <2>1, <2>2
<1>16. ListsPart'
  <2>1. \A q \in WritersOf(Checkpoint)' : q \in WritersOf(Checkpoint) /\ Open(q)' /\ q \in Procs
    BY <1>3, <1>6 DEF WritersOf
  <2> QED BY <1>2, <1>4, <2>1 DEF ListsPart, Backed
<1> QED BY <1>9, <1>10, <1>11, <1>12, <1>13, <1>14, <1>15, <1>16

\* Whatever directory and whatever blocks a loss of power leaves, the invariant holds of
\* them: no file that is sound loses anything.
LEMMA PowerLossInv ==
    ASSUME AtomicInv, PowerLoss
    PROVE  AtomicInv'
<1> USE DEF AtomicInv
<1>1. PICK d \in views : \E lost \in SUBSET Unsynced(d) :
        /\ dir' = d
        /\ views' = {d}
        /\ content' = [i \in Inodes |->
               IF i \in {d[name] : name \in DOMAIN d}
               THEN [b \in 1..2 |->
                       IF <<i, b>> \in lost THEN stable[i][b] ELSE content[i][b]]
               ELSE Empty]
  BY DEF PowerLoss
<1>2. PICK lost \in SUBSET Unsynced(d) :
        content' = [i \in Inodes |->
               IF i \in {d[name] : name \in DOMAIN d}
               THEN [b \in 1..2 |->
                       IF <<i, b>> \in lost THEN stable[i][b] ELSE content[i][b]]
               ELSE Empty]
  BY <1>1
<1>3. dir' = d /\ views' = {d} /\ stable' = content' /\ Stop(Procs)
  BY <1>1 DEF PowerLoss
<1>4. /\ \A p \in Procs : job'[p] = NoJob /\ ip'[p] = 1 /\ ~ Open(p)'
      /\ \A p \in Procs : Open(p) => job[p].file \in loud'
      /\ loud \subseteq loud'
      /\ serial' = serial /\ durable' = durable /\ shared' = shared
  <2>1. Procs \in SUBSET Procs
    OBVIOUS
  <2> QED BY <1>3, <2>1, StopDoes DEF Stop
<1>5. \A n \in DOMAIN d : d[n] \in Inodes
  BY DEF DirPart, IsDirectory
<1>6. content' \in [Inodes -> [1..2 -> Block]]
  <2> SUFFICES ASSUME NEW i \in Inodes PROVE content'[i] \in [1..2 -> Block]
    BY <1>2
  <2>1. \A b \in 1..2 : stable[i][b] \in Block /\ content[i][b] \in Block
    BY DEF TypePart
  <2> QED BY <1>2, <2>1, Typed
<1>7. \A n \in DOMAIN d :
        /\ content'[d[n]][1] = content[d[n]][1] \/ content'[d[n]][1] = stable[d[n]][1]
        /\ Sound(d[n]) => content'[d[n]] = content[d[n]] /\ Sound(d[n])'
  <2> SUFFICES ASSUME NEW n \in DOMAIN d, NEW i, i = d[n]
               PROVE  /\ content'[i][1] = content[i][1] \/ content'[i][1] = stable[i][1]
                      /\ Sound(i) => content'[i] = content[i] /\ Sound(i)'
    <3>1. \A n \in DOMAIN d : \A i : i = d[n] =>
            /\ content'[i][1] = content[i][1] \/ content'[i][1] = stable[i][1]
            /\ Sound(i) => content'[i] = content[i] /\ Sound(i)'
      OBVIOUS
    <3> QED BY <3>1 DEF Sound
  <2>1. i \in Inodes /\ i \in {d[name] : name \in DOMAIN d}
    BY <1>5
  <2>2. content'[i] = [b \in 1..2 |-> IF <<i, b>> \in lost THEN stable[i][b] ELSE content[i][b]]
    BY <1>2, <2>1
  <2>3. content[i] = [b \in 1..2 |-> content[i][b]]
    BY <2>1 DEF TypePart
  <2>4. Sound(i) => content'[i] = content[i]
    BY <2>2, <2>3 DEF Sound
  <2>5. Sound(i) => Sound(i)'
    BY <1>3, <2>4 DEF Sound, Whole
  <2> QED BY <2>2, <2>4, <2>5
<1>8. TypePart'
  <2>1. Procs \in SUBSET Procs
    OBVIOUS
  <2> QED BY <1>3, <1>6, <2>1, StopTypes
<1>9. JobPart' /\ HandlePart' /\ OwnPart' /\ AlonePart'
  BY <1>4 DEF JobPart, HandlePart, OwnPart, AlonePart
<1>10. \A g : WritersOf(g)' = {}
  BY <1>4 DEF WritersOf
<1>11. DirPart'
  BY <1>3 DEF DirPart, IsDirectory
<1>12. ChunkPart'
  BY <1>3, <1>4, <1>7 DEF ChunkPart
<1>13. UnsharedPart'
  <2> SUFFICES ASSUME NEW g \in Atomic \ shared
               PROVE  /\ durable[g] > 0 => g \in DOMAIN d
                      /\ g \in DOMAIN d =>
                            Sound(d[g])' /\ content'[d[g]][1].serial >= durable[g]
    BY <1>3, <1>4, <1>10 DEF UnsharedPart
  <2> QED BY <1>7 DEF UnsharedPart
<1>14. LoudPart'
  <2> SUFFICES ASSUME NEW g \in Atomic, g \notin loud', g \in DOMAIN d PROVE Sound(d[g])'
    BY <1>3, <1>10 DEF LoudPart
  <2>1. g \notin loud /\ WritersOf(g) = {}
    BY <1>4 DEF WritersOf
  <2> QED BY <1>7, <2>1 DEF LoudPart
<1>15. ListsPart'
  <2> SUFFICES ASSUME Checkpoint \in DOMAIN d
               PROVE  Backed(d, content'[d[Checkpoint]][1].lists)
    BY <1>3, <1>10 DEF ListsPart, Backed
  <2> QED BY <1>7 DEF ListsPart
<1> QED BY <1>8, <1>9, <1>11, <1>12, <1>13, <1>14, <1>15

-----------------------------------------------------------------------------
(* The theorems. *)

\* Every step of AtomicFiles keeps the invariant.
LEMMA AtomicNext ==
    ASSUME AtomicInv, [Next]_vars
    PROVE  AtomicInv'
<1> USE DEF AtomicInv
<1>1. ASSUME NEW p \in Procs, RefuseChunk(p) \/ RenameMissing(p) \/ Kill(p)
      PROVE  AtomicInv'
  <2>1. Stop({p}) /\ UNCHANGED fsVars /\ {p} \in SUBSET Procs
    BY <1>1 DEF RefuseChunk, RenameMissing, MissingIsLoud, Kill
  <2> QED BY <2>1, StopInv
<1>2. ASSUME NEW p \in Procs, Start(p) \/ Create(p) \/ Write(p) \/ Sync(p) \/ CheckAbsent(p)
      PROVE  AtomicInv'
  BY <1>2, StartInv, CreateInv, WriteInv, SyncInv, CheckAbsentInv
<1>3. ASSUME NEW p \in Procs, Rename(p) \/ SyncDir(p)
      PROVE  AtomicInv'
  BY <1>3, RenameInv, SyncDirInv
<1>4. CASE PowerLoss
  BY <1>4, PowerLossInv
<1>5. CASE UNCHANGED vars
  <2>1. UNCHANGED <<dir, views, content, stable, job, ip, fd, serial, durable, shared, loud>>
    BY <1>5 DEF vars, fsVars, procVars, historyVars
  <2>2. /\ \A p : Open(p)' <=> Open(p)
        /\ \A p : InPlace(p)' <=> InPlace(p)
        /\ \A p : Clean(p)' <=> Clean(p)
        /\ \A p : Unplaced(p)' <=> Unplaced(p)
        /\ \A p : Synced(p)' <=> Synced(p)
        /\ \A p : Written(p)' = Written(p)
        /\ \A p : WritesChunk(p)' <=> WritesChunk(p)
        /\ \A i : Sound(i)' <=> Sound(i)
        /\ \A file : WritersOf(file)' = WritersOf(file)
    BY <2>1 DEF Open, InPlace, Clean, Unplaced, Synced, Written, WritesChunk, Sound, Whole,
                WritersOf, RenameAt, BlockOf
  <2>3. TypePart' /\ JobPart' /\ HandlePart' /\ DirPart'
    BY <2>1, <2>2 DEF TypePart, JobPart, Backed, HandlePart, DirPart, IsDirectory
  <2>4. OwnPart' /\ ChunkPart' /\ AlonePart'
    BY <2>1, <2>2 DEF OwnPart, ChunkPart, AlonePart
  <2>5. UnsharedPart' /\ LoudPart'
    BY <2>1, <2>2 DEF UnsharedPart, LoudPart
  <2>6. ListsPart'
    BY <2>1, <2>2 DEF ListsPart, Backed
  <2> QED BY <2>3, <2>4, <2>5, <2>6
<1> QED BY <1>1, <1>2, <1>3, <1>4, <1>5 DEF Next

\* AtomicInv holds in every state that the commands can reach.
THEOREM AtomicInvariance == Spec => []AtomicInv
<1>1. Init => AtomicInv
  BY AtomicInit
<1>2. AtomicInv /\ [Next]_vars => AtomicInv'
  BY AtomicNext
<1> QED BY <1>1, <1>2, PTL DEF Spec

\* What is sound is found as it is, whenever the power fails.
LEMMA RemainsOfSound ==
    ASSUME TypePart, NEW i \in Inodes, Sound(i), NEW c \in Remains(i)
    PROVE  c = content[i] /\ Whole(c)
<1>1. PICK old \in SUBSET (1..2) :
        c = [b \in 1..2 |-> IF b \in old THEN stable[i][b] ELSE content[i][b]]
  BY DEF Remains
<1>2. content[i] = [b \in 1..2 |-> content[i][b]] /\ stable[i] = content[i]
  BY DEF TypePart, Sound
<1> QED BY <1>1, <1>2 DEF Sound

\* What is found under the name of a file that is sound in every directory.
LEMMA NowOrLaterIs ==
    ASSUME AtomicInv, NEW file, NEW c \in NowOrLater(file),
           \A d \in views : file \in DOMAIN d => Sound(d[file])
    PROVE  \E d \in views : file \in DOMAIN d /\ c = content[d[file]] /\ Whole(c)
<1> USE DEF AtomicInv
<1>1. CASE c \in {content[d[file]] : d \in {d \in {dir} : Exists(d, file)}}
  <2>1. file \in DOMAIN dir /\ c = content[dir[file]]
    BY <1>1 DEF Exists
  <2> QED BY <2>1 DEF DirPart, Sound
<1>2. CASE c \in UNION {Remains(d[file]) : d \in {d \in views : Exists(d, file)}}
  <2>1. PICK d \in views : file \in DOMAIN d /\ c \in Remains(d[file])
    BY <1>2 DEF Exists
  <2>2. d[file] \in Inodes /\ Sound(d[file])
    BY <2>1 DEF DirPart, IsDirectory
  <2> QED BY <2>1, <2>2, RemainsOfSound
<1> QED BY <1>1, <1>2 DEF NowOrLater

\* For any number of writers and of losses of power, a file that no two processes write at
\* once is never seen in part (atomic_write, ActiveTransactionChunkWriter::finish).
THEOREM FilesNeverInPart == Spec => []NeverInPart
<1>1. AtomicInv => NeverInPart
  <2> SUFFICES ASSUME AtomicInv, NEW file \in Files \ shared, NEW c \in NowOrLater(file)
               PROVE  Whole(c)
    BY DEF NeverInPart
  <2>1. \A d \in views : file \in DOMAIN d => Sound(d[file])
    <3>1. CASE file \in Atomic
      BY <3>1 DEF AtomicInv, UnsharedPart
    <3>2. CASE file \notin Atomic
      BY <3>2, NamesAre DEF AtomicInv, ChunkPart
    <3> QED BY <3>1, <3>2
  <2> QED BY <2>1, NowOrLaterIs
<1> QED BY <1>1, AtomicInvariance, PTL

\* What atomic_write has reported done outlives every loss of power, as it is or replaced by
\* a later write.
THEOREM SuccessesAreDurable == Spec => []SuccessIsDurable
<1>1. AtomicInv => SuccessIsDurable
  <2> SUFFICES ASSUME AtomicInv, NEW file \in Atomic \ shared, durable[file] > 0
               PROVE  /\ \A d \in views : Exists(d, file)
                      /\ \A c \in NowOrLater(file) : c[1].serial >= durable[file]
    BY DEF SuccessIsDurable, Atomic
  <2>1. \A d \in views : /\ file \in DOMAIN d /\ Sound(d[file])
                         /\ content[d[file]][1].serial >= durable[file]
    BY DEF AtomicInv, UnsharedPart
  <2>2. ASSUME NEW c \in NowOrLater(file) PROVE c[1].serial >= durable[file]
    <3>1. PICK d \in views : c = content[d[file]]
      BY <2>1, NowOrLaterIs
    <3> QED BY <2>1, <3>1
  <2> QED BY <2>1, <2>2 DEF Exists
<1> QED BY <1>1, AtomicInvariance, PTL

\* A checkpoint names chunks that are there, whole, in every directory that a loss of power
\* may leave, although only the renames of atomic_write are synced.
THEOREM CheckpointsAreBacked == Spec => []CheckpointBacked
<1>1. AtomicInv => CheckpointBacked
  <2> SUFFICES ASSUME AtomicInv, NEW d \in views, Checkpoint \in DOMAIN d,
                      NEW c \in Remains(d[Checkpoint]), NEW j \in 1..c[1].lists
               PROVE  /\ Exists(d, Chunk(j))
                      /\ \A k \in Remains(d[Chunk(j)]) : Whole(k)
    BY DEF CheckpointBacked, Exists
  <2>1. PICK old \in SUBSET (1..2) :
          c = [b \in 1..2 |-> IF b \in old THEN stable[d[Checkpoint]][b]
                              ELSE content[d[Checkpoint]][b]]
    BY DEF Remains
  <2>2. c[1] = stable[d[Checkpoint]][1] \/ c[1] = content[d[Checkpoint]][1]
    BY <2>1
  <2>3. d[Checkpoint] \in Inodes
    BY DEF AtomicInv, DirPart, IsDirectory
  <2>4. c[1] \in Block
    BY <2>2, <2>3 DEF AtomicInv, TypePart
  <2>5. j \in 1..MaxChunks
    BY <2>4, AtomicFilesAssumption DEF Block
  <2>6. Chunk(j) \in DOMAIN d
    BY <2>2 DEF AtomicInv, ListsPart, Backed
  <2>7. Sound(d[Chunk(j)]) /\ d[Chunk(j)] \in Inodes
    BY <2>5, <2>6 DEF AtomicInv, ChunkPart, DirPart, IsDirectory
  <2> QED BY <2>6, <2>7, RemainsOfSound DEF AtomicInv, Exists
<1> QED BY <1>1, AtomicInvariance, PTL

\* Of the processes that write one file at once under its one temporary name one fails, or
\* the file is whole when they are done: of those that rename the temporary file the last has
\* written it alone, and to the others' renames it is missing.
THEOREM TornFilesAreLoud == Spec => []TornIsLoud
<1>1. AtomicInv => TornIsLoud
  <2> SUFFICES ASSUME AtomicInv, NEW file \in Files, file \in DOMAIN dir,
                      WritersOf(file) = {}, file \notin loud
               PROVE  Whole(content[dir[file]])
    BY DEF TornIsLoud, Exists
  <2>1. CASE file \in Atomic
    BY <2>1 DEF AtomicInv, LoudPart, Sound
  <2>2. CASE file \notin Atomic
    BY <2>2, NamesAre DEF AtomicInv, ChunkPart, DirPart, Sound
  <2> QED BY <2>1, <2>2
<1> QED BY <1>1, AtomicInvariance, PTL
=============================================================================
