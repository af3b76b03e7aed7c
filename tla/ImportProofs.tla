---------------------------- MODULE ImportProofs ----------------------------
(***************************************************************************)
(* Theorems about Import, for any number of process ids, files, kills and  *)
(* failing commands, whatever private files killed runs have left behind.  *)
(***************************************************************************)
EXTENDS Import, DatasetProofs

\* The commands that run inside the script, and where it puts what they make.
CommandsOfScript ==
    /\ cmd = "none" \/ (pc = "normalizing" /\ cmd = "normalize")
                    \/ (pc = "replaying" /\ cmd = "replay" /\ into = "staging")
    /\ at \in {"validate", "load", "checkpoint", "loaded"} => book = manifest

\* A manifest that exists vouches for a normalization, and so does the one that a
\* normalize is about to write.
ManifestsName ==
    /\ manifest.exists => manifest.gen # Absent
    /\ at = "manifest" => book.gen # Absent

Steps ==
    {"idle", "normalizing", "check", "replaying", "checksum", "open", "oldDb", "knowDb",
     "oldSum", "knowSum", "newDb", "ownDb", "newSum", "ownSum", "close", "forget", "trap",
     "dropDb", "dropSum", "restoreDb", "restoreSum", "sweepBackups", "sweep", "leave"}

Before == {"normalizing", "check", "replaying", "checksum", "open"}

\* From here on there is a database in staging, or in the published place.
HasDb == {"checksum", "open", "oldDb", "knowDb", "oldSum", "knowSum", "newDb"}

HasSum == (HasDb \ {"checksum"}) \cup {"ownDb", "newSum"}

\* What is staged is of the normalization that the manifest vouches for.
Staged ==
    /\ pc = "replaying" \/ pc \in HasSum \cup {"checksum", "ownSum", "close", "forget"} =>
         manifest.exists
    /\ pc \in HasDb => stagingDb[pid] = manifest.gen
    /\ pc = "replaying" /\ cmd = "none" /\ result = "ok" => stagingDb[pid] = manifest.gen
    /\ pc \in HasSum => stagingSum[pid] = manifest.gen

\* The database that was found is where it was; or it has been moved away, and the trap
\* can restore it; or there was none.
DbKept == db = before[1] /\ ~ knowsDb /\ ~ ownsDb
DbHeld == IF knowsDb THEN before[1] # Absent /\ backupDb[pid] = before[1]
                     ELSE before[1] = Absent
DbGone == db = Absent /\ DbHeld /\ ~ ownsDb
DbNew == db = manifest.gen /\ DbHeld

\* The same for the checksum file.
SumKept == sum = before[2] /\ ~ knowsSum /\ ~ ownsSum
SumHeld == IF knowsSum THEN before[2] # Absent /\ backupSum[pid] = before[2]
                       ELSE before[2] = Absent
SumGone == sum = Absent /\ SumHeld /\ ~ ownsSum
SumNew == sum = manifest.gen /\ SumHeld

\* The import has published both files, or has left what it found.
Settled ==
    \/ manifest.exists /\ db = manifest.gen /\ sum = manifest.gen
    \/ status = "error" /\ <<db, sum>> = before

\* Where the two files are, step by step, on the way forth.
Promoted ==
    /\ pc \in Before \cup {"oldDb"} => DbKept /\ SumKept
    /\ pc \in {"knowDb", "oldSum"} => SumKept
    /\ pc = "knowDb" => /\ db = Absent
                        /\ backupDb[pid] = before[1] /\ before[1] # Absent
                        /\ ~ knowsDb /\ ~ ownsDb
    /\ pc \in {"oldSum", "knowSum", "newDb"} => DbGone
    /\ pc = "knowSum" => /\ sum = Absent
                         /\ backupSum[pid] = before[2] /\ before[2] # Absent
                         /\ ~ knowsSum /\ ~ ownsSum
    /\ pc \in {"newDb", "ownDb", "newSum"} => SumGone
    /\ pc \in {"ownDb", "newSum", "ownSum", "close"} => DbNew
    /\ pc = "ownDb" => ~ ownsDb
    /\ pc \in {"newSum", "ownSum", "close"} => ownsDb
    /\ pc \in {"ownSum", "close"} => SumNew
    /\ pc = "forget" => db = manifest.gen /\ sum = manifest.gen

\* And on the way back.
TrappedOpen == pc \in {"dropDb", "dropSum", "restoreDb", "restoreSum"} \/ (pc = "trap" /\ open)

Restoring ==
    /\ TrappedOpen => status = "error"
    /\ (pc = "trap" /\ open) \/ pc = "dropDb" => DbKept \/ DbGone \/ (DbNew /\ ownsDb /\ sum = Absent)
    /\ pc \in {"dropSum", "restoreDb"} => (db = before[1] /\ ~ knowsDb) \/ (db = Absent /\ DbHeld)
    /\ pc = "restoreSum" => db = before[1]
    /\ TrappedOpen => SumKept \/ SumGone
    /\ (pc = "trap" /\ ~ open) \/ pc \in {"sweepBackups", "sweep", "leave"} => Settled

\* When a promotion is open, and what a run will exit with.
OpenPart ==
    /\ pc \in Before \cup {"idle", "forget", "sweepBackups", "leave"} => ~ open
    /\ pc \in {"oldDb", "knowDb", "oldSum", "knowSum", "newDb", "ownDb", "newSum", "ownSum",
               "close", "dropDb", "dropSum", "restoreDb", "restoreSum"} => open
    /\ pc = "leave" => <<db, sum>> = before
    /\ status # "signal"
    /\ exit # "signal"

\* The pair that the run found is matched, and so is the published one between runs.
PairsMatch ==
    /\ pc # "idle" /\ before[1] # Absent /\ before[2] # Absent => before[1] = before[2]
    /\ before \in Made \X Made
    /\ pc = "idle" => MatchedPair

\* What the script and its trap keep true.
ScriptInv ==
    /\ pc \in Steps
    /\ CommandsOfScript
    /\ ManifestsName
    /\ Staged
    /\ Promoted
    /\ Restoring
    /\ OpenPart
    /\ PairsMatch

\* The inductive invariant.
ImportInv == DatasetInv /\ ImportTypeOK /\ ScriptInv

-----------------------------------------------------------------------------
(* The dataset commands inside the script. *)

\* The script takes no step with the dataset directory that the commands of Dataset do
\* not take, but that a kill of the script is not counted among the kills of commands.
LEMMA DatasetSteps ==
    ASSUME [ImportNext]_vars
    PROVE  [DatasetNext]_datasetVars \/ (KillScript /\ End("killed") /\ UNCHANGED fileVars)
<1> USE DEF datasetVars, ScriptOnly
<1>1. CASE UNCHANGED vars
  BY <1>1 DEF vars
<1>2. CASE DatasetStep \/ FinishRocksReplay
  BY <1>2 DEF DatasetStep, OtherStep, FinishRocksReplay, DatasetNext, CommandStep
<1>3. CASE Normalized \/ RefuseImport \/ Replayed \/ Checksum
  BY <1>3 DEF Normalized, RefuseImport, Replayed, Checksum
<1>4. CASE Stage
  BY <1>4 DEF Stage, DatasetNext, StartCommand
<1>5. CASE Promotion
  BY <1>5 DEF Promotion, OpenPromotion, MoveOldDb, KnowDb, MoveOldSum, KnowSum, MoveNewDb,
     OwnDb, MoveNewSum, OwnSum, ClosePromotion, ForgetBackups
<1>6. CASE Cleanup
  BY <1>6 DEF Cleanup, EnterTrap, DropDb, DropSum, RestoreDb, RestoreSum, SweepBackups, Exit
<1>7. CASE Begin
  BY <1>7 DEF Begin, BeginWith, DatasetNext, StartCommand
<1>8. CASE Outside \/ CommandDies
  BY <1>8 DEF Outside, CommandDies, DatasetNext
<1>9. CASE CommandFails
  BY <1>9 DEF CommandFails
<1>10. CASE KillScript
  BY <1>10 DEF KillScript, CutOff
<1>11. CASE TrapFails
  BY <1>11 DEF TrapFails, CutOff
<1> QED BY <1>1, <1>2, <1>3, <1>4, <1>5, <1>6, <1>7, <1>8, <1>9, <1>10, <1>11
        DEF ImportNext, Proceed

\* The invariant of the dataset directory is not disturbed.
LEMMA DatasetPart == ImportInv /\ [ImportNext]_vars => DatasetInv'
<1> SUFFICES ASSUME ImportInv, [ImportNext]_vars PROVE DatasetInv'
  OBVIOUS
<1>1. CASE [DatasetNext]_datasetVars
  BY <1>1, InvStep DEF ImportInv
<1>2. CASE KillScript /\ End("killed") /\ UNCHANGED fileVars
  <2>1. kills' \in 0..MaxKills
    BY <1>2 DEF KillScript, CutOff, ImportInv, DatasetInv, DatasetTypeOK
  <2> QED BY <1>2, <2>1, EndInv DEF ImportInv
<1> QED BY <1>1, <1>2, DatasetSteps

-----------------------------------------------------------------------------
(* The published pair, step by step. *)

\* Wherever the script has come to, the two files that are there belong together.
LEMMA FilesMatch == ImportInv => MatchedPair
BY DEF ImportInv, ScriptInv, Promoted, Restoring, OpenPart, PairsMatch, Steps, Before,
   DbKept, DbGone, DbNew, SumKept, SumGone, SumNew, Settled, TrappedOpen, MatchedPair, Absent

\* The steps of the commands that the script runs, and of the recorder, leave what the
\* script has done as it is; a replay that ends has staged what the manifest vouches for.
LEMMA CommandsPart ==
    ASSUME ImportInv, DatasetStep \/ FinishRocksReplay \/ Outside \/ CommandDies
    PROVE  ScriptInv'
<1> USE DatasetAssumption
    DEF ImportInv, ScriptInv, CommandsOfScript, ManifestsName, Staged, Promoted, Restoring,
        OpenPart, PairsMatch, Steps, Before, HasDb, HasSum, DbKept, DbHeld, DbGone, DbNew,
        SumKept, SumHeld, SumGone, SumNew, Settled, TrappedOpen, Absent
<1> USE DEF datasetVars, fileVars, cmdVars, importVars, runVars, flagVars, publicVars,
        privateVars, MatchedPair, DatasetInv
<1>1. CASE DatasetStep
  <2> USE <1>1 DEF DatasetStep, Goto, More, StepsOfCommand
  <2>1. CASE WriteRows
    BY <2>1 DEF WriteRows
  <2>2. CASE WriteQueries
    BY <2>2 DEF WriteQueries
  <2>3. CASE WriteLog
    BY <2>3 DEF WriteLog
  <2>4. CASE HashFiles
    BY <2>4 DEF HashFiles, Hashes, Generation
  <2>5. CASE WriteManifest
    BY <2>5 DEF WriteManifest, End
  <2>6. CASE Validate
    BY <2>6 DEF Validate, End
  <2>7. CASE LoadRows
    BY <2>7 DEF LoadRows
  <2>8. CASE PutCheckpoint
    BY <2>8 DEF PutCheckpoint
  <2> QED BY <2>1, <2>2, <2>3, <2>4, <2>5, <2>6, <2>7, <2>8 DEF OtherStep
<1>2. CASE FinishRocksReplay
  BY <1>2 DEF FinishRocksReplay, FinishReplay, End, StepsOfCommand, RowsLoaded, ImportTypeOK
<1>3. CASE Outside
  BY <1>3 DEF Outside, RecordMore, RecordKeys
<1>4. CASE CommandDies
  BY <1>4 DEF CommandDies, Kill, End
<1> QED BY <1>1, <1>2, <1>3, <1>4

\* Up to the checksum of the staged database nothing published is touched.
LEMMA StagingPart ==
    ASSUME ImportInv, Normalized \/ RefuseImport \/ Stage \/ Replayed \/ Checksum
    PROVE  ScriptInv'
<1> USE DatasetAssumption
    DEF ImportInv, ScriptInv, CommandsOfScript, ManifestsName, Staged, Promoted, Restoring,
        OpenPart, PairsMatch, Steps, Before, HasDb, HasSum, DbKept, DbHeld, DbGone, DbNew,
        SumKept, SumHeld, SumGone, SumNew, Settled, TrappedOpen, Absent
<1> USE DEF datasetVars, fileVars, cmdVars, runVars, flagVars, publicVars, privateVars,
        ImportTypeOK
<1>1. CASE Normalized
  BY <1>1 DEF Normalized
<1>2. CASE RefuseImport
  BY <1>2 DEF RefuseImport
<1>3. CASE Stage
  BY <1>3 DEF Stage, StartReplay, Goto
<1>4. CASE Replayed
  BY <1>4 DEF Replayed
<1>5. CASE Checksum
  BY <1>5 DEF Checksum
<1> QED BY <1>1, <1>2, <1>3, <1>4, <1>5

\* The way forth: what is moved away can be restored until both files are there.
LEMMA PromotionPart == ASSUME ImportInv, Promotion PROVE ScriptInv'
<1> USE DatasetAssumption
    DEF ImportInv, ScriptInv, CommandsOfScript, ManifestsName, Staged, Promoted, Restoring,
        OpenPart, PairsMatch, Steps, Before, HasDb, HasSum, DbKept, DbHeld, DbGone, DbNew,
        SumKept, SumHeld, SumGone, SumNew, Settled, TrappedOpen, Absent
<1> USE DEF ScriptOnly, datasetVars, fileVars, cmdVars, runVars, flagVars, publicVars,
        privateVars, ImportTypeOK
<1>1. CASE OpenPromotion
  BY <1>1 DEF OpenPromotion
<1>2. CASE MoveOldDb
  BY <1>2 DEF MoveOldDb
<1>3. CASE KnowDb
  BY <1>3 DEF KnowDb
<1>4. CASE MoveOldSum
  BY <1>4 DEF MoveOldSum
<1>5. CASE KnowSum
  BY <1>5 DEF KnowSum
<1>6. CASE MoveNewDb
  BY <1>6 DEF MoveNewDb, Emptied
<1>7. CASE OwnDb
  BY <1>7 DEF OwnDb
<1>8. CASE MoveNewSum
  BY <1>8 DEF MoveNewSum, Emptied
<1>9. CASE OwnSum
  BY <1>9 DEF OwnSum
<1>10. CASE ClosePromotion
  BY <1>10 DEF ClosePromotion
<1>11. CASE ForgetBackups
  BY <1>11 DEF ForgetBackups, NoFlags
<1> QED BY <1>1, <1>2, <1>3, <1>4, <1>5, <1>6, <1>7, <1>8, <1>9, <1>10, <1>11 DEF Promotion

\* The way back: the trap ends with the pair that was found, or with both files new.
LEMMA CleanupPart == ASSUME ImportInv, Cleanup PROVE ScriptInv'
<1> USE DatasetAssumption
    DEF ImportInv, ScriptInv, CommandsOfScript, ManifestsName, Staged, Promoted, Restoring,
        OpenPart, PairsMatch, Steps, Before, HasDb, HasSum, DbKept, DbHeld, DbGone, DbNew,
        SumKept, SumHeld, SumGone, SumNew, Settled, TrappedOpen, Absent
<1> USE DEF ScriptOnly, datasetVars, fileVars, cmdVars, runVars, flagVars, publicVars,
        privateVars, ImportTypeOK
<1>1. CASE EnterTrap
  BY <1>1 DEF EnterTrap, TrapNext
<1>2. CASE DropDb
  BY <1>2 DEF DropDb
<1>3. CASE DropSum
  BY <1>3 DEF DropSum
<1>4. CASE RestoreDb
  BY <1>4 DEF RestoreDb, Emptied
<1>5. CASE RestoreSum
  BY <1>5 DEF RestoreSum, Emptied
<1>6. CASE SweepBackups
  BY <1>6 DEF SweepBackups
<1>7. CASE Exit
  BY <1>7 DEF Exit, NoFlags, MatchedPair
<1> QED BY <1>1, <1>2, <1>3, <1>4, <1>5, <1>6, <1>7 DEF Cleanup

\* An import begins with the pair it finds; a command that fails sends the script into
\* its trap, a kill leaves the pair as it is, and a trap that fails may take a file away.
LEMMA BeginAndFaultsPart ==
    ASSUME ImportInv, Begin \/ CommandFails \/ KillScript \/ TrapFails
    PROVE  ScriptInv'
<1> USE DatasetAssumption
    DEF ImportInv, ScriptInv, CommandsOfScript, ManifestsName, Staged, Promoted, Restoring,
        OpenPart, PairsMatch, Steps, Before, HasDb, HasSum, DbKept, DbHeld, DbGone, DbNew,
        SumKept, SumHeld, SumGone, SumNew, Settled, TrappedOpen, Absent
<1> USE DEF datasetVars, fileVars, cmdVars, runVars, flagVars, publicVars, privateVars,
        ImportTypeOK
<1>1. CASE Begin
  BY <1>1 DEF Begin, BeginWith, StartNormalize, Goto, MatchedPair, Made
<1>2. CASE CommandFails
  BY <1>2 DEF CommandFails, Fault
<1>3. CASE KillScript
  <2>1. MatchedPair'
    BY <1>3, FilesMatch DEF KillScript, MatchedPair
  <2>2. cmd' = "none" /\ at' = "idle"
    BY <1>3 DEF KillScript, CutOff, End, DatasetInv, DatasetTypeOK
  <2> QED BY <1>3, <2>1, <2>2 DEF KillScript, CutOff, NoFlags
<1>4. CASE TrapFails
  <2>1. MatchedPair'
    BY <1>4, FilesMatch DEF TrapFails, MatchedPair
  <2>2. cmd = "none" /\ UNCHANGED <<cmdVars, fileVars>>
    BY <1>4 DEF TrapFails, TrapActs, CutOff
  <2>3. at = "idle"
    BY <2>2 DEF DatasetInv, DatasetTypeOK
  <2> QED BY <1>4, <2>1, <2>2, <2>3 DEF TrapFails, CutOff, NoFlags
<1> QED BY <1>1, <1>2, <1>3, <1>4

-----------------------------------------------------------------------------
(* Types. *)

\* Every step of the script keeps the types.
LEMMA TypePart == ASSUME ImportInv, [ImportNext]_vars, DatasetInv' PROVE ImportTypeOK'
<1> USE DEF ImportTypeOK
<1>1. ImportTypeOK /\ DatasetTypeOK' /\ Absent \in Made
  BY DEF ImportInv, DatasetInv, Made
<1>2. CASE UNCHANGED vars
  BY <1>1, <1>2 DEF vars, importVars, publicVars, privateVars, runVars, flagVars
<1>3. CASE DatasetStep \/ Outside \/ CommandDies
  BY <1>1, <1>3 DEF DatasetStep, Outside, CommandDies, importVars, publicVars, privateVars,
     runVars, flagVars
<1>4. CASE FinishRocksReplay
  <2>1. gen \in Made
    BY <1>4 DEF FinishRocksReplay, FinishReplay, ImportInv, DatasetInv, RowsLoaded,
       DatasetTypeOK, Book, Made
  <2>2. stagingDb' \in [Pids -> Made] /\ db' \in Made
    BY <1>1, <1>4, <2>1 DEF FinishRocksReplay
  <2> QED BY <1>1, <1>4, <2>2 DEF FinishRocksReplay, runVars, flagVars
<1>5. CASE Normalized \/ RefuseImport \/ Replayed \/ Checksum
  BY <1>1, <1>5 DEF Normalized, RefuseImport, Replayed, Checksum, publicVars, privateVars,
     runVars, flagVars
<1>6. CASE Stage
  BY <1>1, <1>6 DEF Stage, Emptied, publicVars, runVars, flagVars
<1>7. CASE Promotion
  <2> USE <1>1 DEF ScriptOnly, runVars, flagVars, publicVars, privateVars, Emptied
  <2>1. CASE OpenPromotion
    BY <2>1 DEF OpenPromotion
  <2>2. CASE MoveOldDb
    BY <2>2 DEF MoveOldDb
  <2>3. CASE KnowDb
    BY <2>3 DEF KnowDb
  <2>4. CASE MoveOldSum
    BY <2>4 DEF MoveOldSum
  <2>5. CASE KnowSum
    BY <2>5 DEF KnowSum
  <2>6. CASE MoveNewDb
    BY <2>6 DEF MoveNewDb
  <2>7. CASE OwnDb
    BY <2>7 DEF OwnDb
  <2>8. CASE MoveNewSum
    BY <2>8 DEF MoveNewSum
  <2>9. CASE OwnSum
    BY <2>9 DEF OwnSum
  <2>10. CASE ClosePromotion
    BY ZenonT(30), <2>10 DEF ClosePromotion
  <2>11. CASE ForgetBackups
    BY <2>11 DEF ForgetBackups, NoFlags
  <2> QED BY <1>7, <2>1, <2>2, <2>3, <2>4, <2>5, <2>6, <2>7, <2>8, <2>9, <2>10, <2>11 DEF Promotion
<1>8. CASE Cleanup
  <2> USE <1>1 DEF ScriptOnly, runVars, flagVars, publicVars, privateVars, Emptied
  <2>1. CASE EnterTrap
    BY <2>1 DEF EnterTrap, TrapNext
  <2>2. CASE DropDb
    BY <2>2 DEF DropDb
  <2>3. CASE DropSum
    BY <2>3 DEF DropSum
  <2>4. CASE RestoreDb
    BY <2>4 DEF RestoreDb
  <2>5. CASE RestoreSum
    BY <2>5 DEF RestoreSum
  <2>6. CASE SweepBackups
    BY <2>6 DEF SweepBackups
  <2>7. CASE Exit
    BY <2>7 DEF Exit, NoFlags
  <2> QED BY <1>8, <2>1, <2>2, <2>3, <2>4, <2>5, <2>6, <2>7 DEF Cleanup
<1>9. CASE Begin
  BY <1>1, <1>9, ImportAssumption DEF Begin, BeginWith, publicVars, privateVars, flagVars
<1>10. CASE CommandFails
  BY <1>1, <1>10, ImportAssumption DEF CommandFails, Fault, publicVars, privateVars, flagVars,
     runVars
<1>11. CASE KillScript \/ TrapFails
  <2>1. faults' \in 0..MaxFaults
    BY <1>1, <1>11, ImportAssumption DEF KillScript, TrapFails, Fault
  <2>2. UNCHANGED <<privateVars, runVars, status, into>> /\ NoFlags
    BY <1>11 DEF KillScript, TrapFails, CutOff
  <2>3. exit' \in {"kill", "broken"} /\ db' \in {db, Absent} /\ sum' \in {sum, Absent}
    BY <1>11 DEF KillScript, TrapFails, CutOff, publicVars
  <2> QED BY <1>1, <1>11, <2>1, <2>2, <2>3
          DEF KillScript, TrapFails, CutOff, NoFlags, privateVars, runVars
<1> QED BY <1>2, <1>3, <1>4, <1>5, <1>6, <1>7, <1>8, <1>9, <1>10, <1>11
        DEF ImportNext, Proceed

-----------------------------------------------------------------------------
(* Theorems. *)

\* The initial state satisfies the invariant.
LEMMA ImportInvInit == ImportInit => ImportInv
<1> SUFFICES ASSUME ImportInit PROVE ImportInv
  OBVIOUS
<1>1. DatasetInv
  BY InvInit DEF ImportInit
<1>2. ImportTypeOK
  <2>1. Absent \in Made /\ 0 \in 0..MaxFaults /\ DatasetTypeOK
    BY <1>1, ImportAssumption DEF Made, DatasetInv
  <2>2. \A f \in {stagingDb, stagingSum, backupDb, backupSum} : f \in [Pids -> Made]
    BY <2>1 DEF ImportInit
  <2> QED BY <2>1, <2>2 DEF ImportInit, ImportTypeOK
<1>3. ScriptInv
  BY DEF ImportInit, DatasetInit, NoManifest, ScriptInv, CommandsOfScript, ManifestsName,
     Staged, Promoted, Restoring, OpenPart, PairsMatch, Steps, Before, HasDb, HasSum,
     TrappedOpen, MatchedPair, Made
<1> QED BY <1>1, <1>2, <1>3 DEF ImportInv

\* Every step of the system keeps it.
LEMMA ImportInvStep == ImportInv /\ [ImportNext]_vars => ImportInv'
<1> SUFFICES ASSUME ImportInv, [ImportNext]_vars PROVE ImportInv'
  OBVIOUS
<1>1. DatasetInv'
  BY DatasetPart
<1>2. ImportTypeOK'
  BY <1>1, TypePart
<1>3. ScriptInv'
  <2>1. CASE UNCHANGED vars
    BY <2>1 DEF ImportInv, vars, datasetVars, fileVars, cmdVars, importVars, publicVars,
       privateVars, runVars, flagVars, ScriptInv, CommandsOfScript, ManifestsName, Staged,
       Promoted, Restoring, OpenPart, PairsMatch, DbKept, DbHeld, DbGone, DbNew, SumKept,
       SumHeld, SumGone, SumNew, Settled, TrappedOpen, MatchedPair
  <2> QED BY <2>1, CommandsPart, StagingPart, PromotionPart, CleanupPart, BeginAndFaultsPart
          DEF ImportNext, Proceed
<1> QED BY <1>1, <1>2, <1>3 DEF ImportInv

\* The invariant holds in every reachable state.
THEOREM ImportInvariance == ImportSpec => []ImportInv
BY ImportInvInit, ImportInvStep, PTL DEF ImportSpec

\* Every variable of the script and of the files it replaces has its type.
THEOREM ImportTypeCorrect == ImportSpec => []ImportTypeOK
<1>1. ImportInv => ImportTypeOK
  BY DEF ImportInv
<1> QED BY <1>1, ImportInvariance, PTL

\* A checksum file beside a database is that database's, whichever command fails, wherever
\* the script or its command is killed and whatever a reused process id finds.
THEOREM PairCorrect == ImportSpec => []MatchedPair
BY FilesMatch, ImportInvariance, PTL

-----------------------------------------------------------------------------
(* Import implements Publication. *)

\* The published pair never holds a file that Publication would not let a reader find
\* once the run that is at work has been cut off.
LEMMA OnlyRemnants ==
    ASSUME ImportInv, pc # "idle"
    PROVE  /\ db \in {Absent, before[1], manifest.gen}
           /\ sum \in {Absent, before[2], manifest.gen}
BY DEF ImportInv, ScriptInv, Promoted, Restoring, OpenPart, Steps, Before, DbKept, DbGone,
   DbNew, SumKept, SumGone, SumNew, Settled, TrappedOpen

\* A step that leaves the manifest, the pair and the last outcome, and neither begins nor
\* ends a run, is a stutter of Publication.
LEMMA SilentStep ==
    ASSUME ImportInv,
           manifest' = manifest, exit' = exit, before' = before,
           pc = "idle" <=> pc' = "idle",
           pc = "idle" => UNCHANGED publicVars
    PROVE  UNCHANGED PublicationView!publicationVars
BY DEF PublicationView!publicationVars, Published, publicVars

\* The only command of the script that replaces the manifest is normalize, and it names
\* a normalization that is not older than the one before.
LEMMA ManifestRefreshed == ASSUME ImportInv, WriteManifest, UNCHANGED importVars
                           PROVE  PublicationView!Refresh
<1> USE DatasetAssumption
<1>1. cmd = "normalize" /\ pc = "normalizing"
  BY DEF ImportInv, ScriptInv, CommandsOfScript, DatasetInv, StepsOfCommand, DatasetTypeOK,
     WriteManifest
<1>2. book.gen = gen /\ rows[1] = gen /\ gen \in 1..MaxRaw
  BY <1>1 DEF WriteManifest, ImportInv, DatasetInv, RowsWritten, StepsOfCommand, Generation
<1>3. manifest.gen <= gen /\ manifest.gen \in Nat
  BY <1>2 DEF ImportInv, DatasetInv, RowsInOrder, DatasetTypeOK, Book, Absent, Generation
<1>4. manifest'.gen \in manifest.gen..MaxRaw
  BY <1>2, <1>3 DEF WriteManifest
<1>5. UNCHANGED <<Published, exit>>
  BY <1>1 DEF importVars, runVars, Published
<1> QED BY <1>4, <1>5 DEF PublicationView!Refresh

\* A run that ends has published both files, whatever it reports, or it reports an error
\* and has left both as they were.
LEMMA ExitReports == ASSUME ImportInv, Exit
                     PROVE  PublicationView!Succeed \/ PublicationView!Fail
<1>1. Published = before /\ Published' = <<db, sum>> /\ manifest' = manifest
  BY DEF Exit, Published, publicVars, datasetVars, fileVars
<1>2. before = <<before[1], before[2]>>
  BY DEF ImportInv, ScriptInv, PairsMatch
<1>3. Settled /\ exit' = status /\ status \in {"ok", "error"}
  BY DEF Exit, ImportInv, ImportTypeOK, ScriptInv, Restoring, OpenPart, TrappedOpen
<1>4. CASE manifest.exists /\ db = manifest.gen /\ sum = manifest.gen
  <2>1. manifest.gen > 0
    BY <1>4, DatasetAssumption DEF ImportInv, ScriptInv, ManifestsName, DatasetInv,
       DatasetTypeOK, Book, Generation, Absent
  <2> QED BY <1>1, <1>3, <1>4, <2>1 DEF PublicationView!Succeed, PublicationView!Fail,
          PublicationView!Publish, PublicationView!Pair
<1>5. CASE status = "error" /\ <<db, sum>> = before
  BY <1>1, <1>2, <1>3, <1>5 DEF PublicationView!Fail, PublicationView!Pair
<1> QED BY <1>3, <1>4, <1>5 DEF Settled

\* A run that is cut off leaves what Publication lets a reader find: a trap that fails may
\* have taken away one file more.
LEMMA CutOffLeavesRemnants ==
    ASSUME ImportInv, KillScript \/ TrapFails
    PROVE  PublicationView!CutOff
<1>1. /\ pc # "idle" /\ pc' = "idle"
      /\ manifest' = manifest
      /\ exit' \in {"kill", "broken"}
  BY DEF KillScript, TrapFails, TrapActs, CutOff, fileVars
<1>2. Published = before /\ Published' = <<db', sum'>>
  BY <1>1 DEF Published
<1>3. db' \in {db, Absent} /\ sum' \in {sum, Absent}
  BY DEF KillScript, TrapFails, publicVars
<1>4. <<db', sum'>> \in PublicationView!Remnants
  BY <1>1, <1>2, <1>3, OnlyRemnants, FilesMatch
     DEF MatchedPair, Absent, PublicationView!Remnants
<1> QED BY <1>1, <1>2, <1>4 DEF PublicationView!CutOff, PublicationView!Pair

\* Every step of the script is a step of Publication or a stutter.
LEMMA PublicationStep ==
    ASSUME ImportInv, [ImportNext]_vars
    PROVE  [PublicationView!Next]_(PublicationView!publicationVars)
<1>1. CASE UNCHANGED vars
  BY <1>1, SilentStep DEF vars, datasetVars, fileVars, importVars, runVars, publicVars
<1>2. CASE DatasetStep
  <2>1. CASE WriteManifest
    BY <1>2, <2>1, ManifestRefreshed DEF DatasetStep, PublicationView!Next
  <2>2. CASE ~ WriteManifest
    BY <1>2, <2>2, SilentStep DEF DatasetStep, OtherStep, WriteRows, WriteQueries, WriteLog,
       HashFiles, Validate, LoadRows, PutCheckpoint, fileVars, importVars, runVars,
       publicVars
  <2> QED BY <2>1, <2>2
<1>3. CASE FinishRocksReplay
  <2>1. pc = "replaying" /\ into = "staging"
    BY <1>3 DEF FinishRocksReplay, FinishReplay, ImportInv, ScriptInv, CommandsOfScript,
       DatasetInv, StepsOfCommand
  <2> QED BY <1>3, <2>1, SilentStep DEF FinishRocksReplay, FinishReplay, fileVars, runVars
<1>4. CASE Normalized \/ RefuseImport \/ Stage \/ Replayed \/ Checksum
  BY <1>4, SilentStep DEF Normalized, RefuseImport, Stage, StartReplay, Replayed, Checksum,
     datasetVars, fileVars, runVars
<1>5. CASE Promotion
  BY <1>5, SilentStep DEF Promotion, OpenPromotion, MoveOldDb, KnowDb, MoveOldSum, KnowSum,
     MoveNewDb, OwnDb, MoveNewSum, OwnSum, ClosePromotion, ForgetBackups, ScriptOnly,
     datasetVars, fileVars, runVars
<1>6. CASE Cleanup
  <2>1. CASE Exit
    BY <2>1, ExitReports DEF PublicationView!Next
  <2>2. CASE ~ Exit
    BY <1>6, <2>2, SilentStep DEF Cleanup, EnterTrap, TrapNext, DropDb, DropSum, RestoreDb,
       RestoreSum, SweepBackups, ScriptOnly, datasetVars, fileVars, runVars
  <2> QED BY <2>1, <2>2
<1>7. CASE Begin
  <2>1. manifest' = manifest /\ exit' = exit
    BY <1>7 DEF Begin, BeginWith, StartNormalize, datasetVars, fileVars
  <2>2. Published' = <<db, sum>> /\ Published = <<db, sum>>
    BY <1>7 DEF Begin, BeginWith, Published
  <2> QED BY <2>1, <2>2 DEF PublicationView!publicationVars
<1>8. CASE Outside \/ CommandDies
  BY <1>8, SilentStep DEF Outside, RecordMore, RecordKeys, CommandDies, Kill, fileVars,
     importVars, runVars, publicVars
<1>9. CASE CommandFails
  BY <1>9, SilentStep DEF CommandFails, datasetVars, fileVars, runVars
<1>10. CASE KillScript \/ TrapFails
  BY <1>10, CutOffLeavesRemnants DEF PublicationView!Next
<1> QED BY <1>1, <1>2, <1>3, <1>4, <1>5, <1>6, <1>7, <1>8, <1>9, <1>10 DEF ImportNext, Proceed

\* The script with its trap, over the commands of the dataset, publishes as Publication
\* says, whatever fails, wherever it is killed and however long it goes on.
THEOREM PublicationImplemented == ImportSpec => ImplementsPublication
<1>1. ImportInit => PublicationView!Init
  BY DEF ImportInit, DatasetInit, NoManifest, Absent, Published, PublicationView!Init,
     PublicationView!Pair
<1>2. ImportInv /\ [ImportNext]_vars =>
        [PublicationView!Next]_(PublicationView!publicationVars)
  BY PublicationStep
<1> QED BY <1>1, <1>2, ImportInvariance, PTL
        DEF ImportSpec, ImplementsPublication, PublicationView!Spec
=============================================================================
