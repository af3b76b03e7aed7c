------------------------------- MODULE Import -------------------------------
(***************************************************************************)
(* scripts/import-real-data.sh: normalize if need be, replay into a        *)
(* staging database, write its checksum file, and put both in the place of *)
(* the published pair.  The script runs the commands of Dataset; it keeps  *)
(* its own files apart by its process id, which a later run may get again. *)
(* An operator may also replay straight into the published path; Release   *)
(* composes these steps with the imports.                                  *)
(*                                                                         *)
(* A database, and a checksum file, is the generation it was made from.    *)
(***************************************************************************)
EXTENDS Dataset

CONSTANTS
    Pids,               \* the process ids of the runs of the script
    ForceNormalize,     \* values of --force-normalize the runs use
    ForceReplace,       \* values of --force
    Faults,             \* "error": a shell command fails; "signal": the script is
                        \* interrupted and its EXIT trap runs; "kill": it does not
    MaxFaults           \* how many faults (bounds the model)

ASSUME ImportAssumption ==
    /\ ForceNormalize \subseteq BOOLEAN
    /\ ForceReplace \subseteq BOOLEAN
    /\ MaxFaults \in Nat

VARIABLES
    \* Files.
    db,         \* materialized/rocksdb
    sum,        \* reports/rocksdb-checksums.json
    stagingDb,  \* per process id, as the next three
    stagingSum,
    backupDb,
    backupSum,
    \* The run of the script.
    pc,         \* the shell command it has come to
    pid,
    force,      \* --force
    open,       \* active_promotion_complete = 0
    knowsDb,    \* active_backup_db_path is set
    knowsSum,   \* active_backup_checksum_path is set
    ownsDb,     \* active_final_db_owned
    ownsSum,    \* active_final_checksum_owned
    status,     \* what the run will exit with
    exit,       \* how the last run ended
    into,       \* where the replay that runs puts its database
    before,     \* the published pair when the run began (history)
    faults

publicVars == <<db, sum>>
privateVars == <<stagingDb, stagingSum, backupDb, backupSum>>
flagVars == <<open, knowsDb, knowsSum, ownsDb, ownsSum>>
runVars == <<pid, force, before>>
importVars == <<publicVars, privateVars, pc, runVars, flagVars, status, exit, into,
                faults>>
vars == <<datasetVars, importVars>>

NoFlags_KeepsOwner ==
    /\ open' = FALSE
    /\ knowsDb' = FALSE
    /\ knowsSum' = FALSE
    /\ ownsSum' = FALSE
    /\ UNCHANGED ownsDb

\* The path variables are cleared, or gone with the script.
NoFlags ==
    /\ open' = FALSE
    /\ knowsDb' = FALSE
    /\ knowsSum' = FALSE
    /\ ownsDb' = FALSE
    /\ ownsSum' = FALSE

ImportInit ==
    /\ DatasetInit
    /\ db = Absent
    /\ sum = Absent
    /\ stagingDb = [p \in Pids |-> Absent]
    /\ stagingSum = [p \in Pids |-> Absent]
    /\ backupDb = [p \in Pids |-> Absent]
    /\ backupSum = [p \in Pids |-> Absent]
    /\ pc = "idle"
    /\ pid \in Pids
    /\ force = FALSE
    /\ open = FALSE
    /\ knowsDb = FALSE
    /\ knowsSum = FALSE
    /\ ownsDb = FALSE
    /\ ownsSum = FALSE
    /\ status = "ok"
    /\ exit = "none"
    /\ into = "memory"
    /\ before = <<Absent, Absent>>
    /\ faults = 0

Fault(kind) ==
    /\ kind \in Faults
    /\ faults < MaxFaults
    /\ faults' = faults + 1

-----------------------------------------------------------------------------
(* normalize_dataset *)

Reusable == manifest.exists /\ rows[1] # Absent

\* A normalized dataset is reused whatever raw input has come since.
BeginWith(p, f, fn) ==
    /\ pc = "idle"
    /\ cmd = "none"
    /\ pid' = p
    /\ force' = f
    /\ IF Reusable /\ ~ fn
          THEN pc' = "check" /\ UNCHANGED datasetVars
          ELSE pc' = "normalizing" /\ StartNormalize
    /\ status' = "ok"
    /\ before' = <<db, sum>>
    /\ UNCHANGED <<publicVars, privateVars, flagVars, exit, into, faults>>

Begin == \E p \in Pids, f \in ForceReplace, fn \in ForceNormalize : BeginWith(p, f, fn)

\* --force-normalize --force
FreshImport == \E p \in Pids : BeginWith(p, TRUE, TRUE)

Normalized ==
    /\ pc = "normalizing"
    /\ cmd = "none"
    /\ IF result = "ok"
          THEN pc' = "check" /\ UNCHANGED status
          ELSE pc' = "leave" /\ status' = "error"
    /\ UNCHANGED <<datasetVars, publicVars, privateVars, flagVars, runVars, exit, into,
                   faults>>

-----------------------------------------------------------------------------
(* import_rocksdb: staging. *)

Emptied(files) == [files EXCEPT ![pid] = Absent]

MayReplace_Never == db = Absent

\* The published path is free, or there is --force.
MayReplace == db = Absent \/ force

RefuseImport ==
    /\ pc = "check"
    /\ ~ MayReplace
    /\ pc' = "trap"
    /\ status' = "error"
    /\ UNCHANGED <<datasetVars, publicVars, privateVars, flagVars, runVars, exit, into,
                   faults>>

\* Leftovers under this process id are removed, then the replay starts.
Stage ==
    /\ pc = "check"
    /\ MayReplace
    /\ stagingDb' = Emptied(stagingDb)
    /\ stagingSum' = Emptied(stagingSum)
    /\ backupDb' = Emptied(backupDb)
    /\ backupSum' = Emptied(backupSum)
    /\ StartReplay
    /\ into' = "staging"
    /\ pc' = "replaying"
    /\ UNCHANGED <<publicVars, flagVars, runVars, status, exit, faults>>

Replayed_IgnoresFailure ==
    /\ pc = "replaying"
    /\ cmd = "none"
    /\ pc' = "checksum"
    /\ UNCHANGED <<datasetVars, publicVars, privateVars, flagVars, runVars, status,
                   exit, into, faults>>

Replayed ==
    /\ pc = "replaying"
    /\ cmd = "none"
    /\ IF result = "ok"
          THEN pc' = "checksum" /\ UNCHANGED status
          ELSE pc' = "trap" /\ status' = "error"
    /\ UNCHANGED <<datasetVars, publicVars, privateVars, flagVars, runVars, exit, into,
                   faults>>

\* decibel-admin checksum reads the staging database.
Checksum ==
    /\ pc = "checksum"
    /\ stagingSum' = [stagingSum EXCEPT ![pid] = stagingDb[pid]]
    /\ pc' = "open"
    /\ UNCHANGED <<datasetVars, publicVars, stagingDb, backupDb, backupSum, flagVars,
                   runVars, status, exit, into, faults>>

-----------------------------------------------------------------------------
(* import_rocksdb: promotion, one shell command at a time. *)

ScriptOnly == UNCHANGED <<datasetVars, runVars, status, exit, into, faults>>

OpenPromotion ==
    /\ pc = "open"
    /\ open' = TRUE
    /\ pc' = "oldDb"
    /\ ScriptOnly
    /\ UNCHANGED <<publicVars, privateVars, knowsDb, knowsSum, ownsDb, ownsSum>>

MoveOldDb ==
    /\ pc = "oldDb"
    /\ IF db # Absent
          THEN /\ backupDb' = [backupDb EXCEPT ![pid] = db]
               /\ db' = Absent
               /\ pc' = "knowDb"
          ELSE pc' = "oldSum" /\ UNCHANGED <<db, backupDb>>
    /\ ScriptOnly
    /\ UNCHANGED <<sum, stagingDb, stagingSum, backupSum, flagVars>>

KnowDb ==
    /\ pc = "knowDb"
    /\ knowsDb' = TRUE
    /\ pc' = "oldSum"
    /\ ScriptOnly
    /\ UNCHANGED <<publicVars, privateVars, open, knowsSum, ownsDb, ownsSum>>

MoveOldSum_Leaves ==
    /\ pc = "oldSum"
    /\ pc' = "newDb"
    /\ ScriptOnly
    /\ UNCHANGED <<publicVars, privateVars, flagVars>>

MoveOldSum ==
    /\ pc = "oldSum"
    /\ IF sum # Absent
          THEN /\ backupSum' = [backupSum EXCEPT ![pid] = sum]
               /\ sum' = Absent
               /\ pc' = "knowSum"
          ELSE pc' = "newDb" /\ UNCHANGED <<sum, backupSum>>
    /\ ScriptOnly
    /\ UNCHANGED <<db, stagingDb, stagingSum, backupDb, flagVars>>

KnowSum ==
    /\ pc = "knowSum"
    /\ knowsSum' = TRUE
    /\ pc' = "newDb"
    /\ ScriptOnly
    /\ UNCHANGED <<publicVars, privateVars, open, knowsDb, ownsDb, ownsSum>>

\* mv moves into a directory that is there, and reports success.
MoveNewDb ==
    /\ pc = "newDb"
    /\ db' = IF db = Absent THEN stagingDb[pid] ELSE db
    /\ stagingDb' = Emptied(stagingDb)
    /\ pc' = "ownDb"
    /\ ScriptOnly
    /\ UNCHANGED <<sum, stagingSum, backupDb, backupSum, flagVars>>

OwnDb ==
    /\ pc = "ownDb"
    /\ ownsDb' = TRUE
    /\ pc' = "newSum"
    /\ ScriptOnly
    /\ UNCHANGED <<publicVars, privateVars, open, knowsDb, knowsSum, ownsSum>>

MoveNewSum ==
    /\ pc = "newSum"
    /\ sum' = stagingSum[pid]
    /\ stagingSum' = Emptied(stagingSum)
    /\ pc' = "ownSum"
    /\ ScriptOnly
    /\ UNCHANGED <<db, stagingDb, backupDb, backupSum, flagVars>>

OwnSum ==
    /\ pc = "ownSum"
    /\ ownsSum' = TRUE
    /\ pc' = "close"
    /\ ScriptOnly
    /\ UNCHANGED <<publicVars, privateVars, open, knowsDb, knowsSum, ownsDb>>

ClosePromotion ==
    /\ pc = "close"
    /\ open' = FALSE
    /\ pc' = "forget"
    /\ ScriptOnly
    /\ UNCHANGED <<publicVars, privateVars, knowsDb, knowsSum, ownsDb, ownsSum>>

\* The backups are deleted and every path variable is cleared.
ForgetBackups ==
    /\ pc = "forget"
    /\ backupDb' = IF knowsDb THEN Emptied(backupDb) ELSE backupDb
    /\ backupSum' = IF knowsSum THEN Emptied(backupSum) ELSE backupSum
    /\ NoFlags
    /\ pc' = "trap"
    /\ ScriptOnly
    /\ UNCHANGED <<publicVars, stagingDb, stagingSum>>

-----------------------------------------------------------------------------
(* cleanup_staging, the EXIT trap: it runs however the script exits. *)

TrapNext == IF open THEN "dropDb" ELSE "sweepBackups"

EnterTrap ==
    /\ pc = "trap"
    /\ pc' = TrapNext
    /\ ScriptOnly
    /\ UNCHANGED <<publicVars, privateVars, flagVars>>

DropDb ==
    /\ pc = "dropDb"
    /\ db' = IF ownsDb THEN Absent ELSE db
    /\ pc' = "dropSum"
    /\ ScriptOnly
    /\ UNCHANGED <<sum, privateVars, flagVars>>

DropSum ==
    /\ pc = "dropSum"
    /\ sum' = IF ownsSum THEN Absent ELSE sum
    /\ pc' = "restoreDb"
    /\ ScriptOnly
    /\ UNCHANGED <<db, privateVars, flagVars>>

\* Restores only what the script remembers to have moved.
RestoreDb ==
    /\ pc = "restoreDb"
    /\ IF knowsDb /\ backupDb[pid] # Absent
          THEN db' = backupDb[pid] /\ backupDb' = Emptied(backupDb)
          ELSE UNCHANGED <<db, backupDb>>
    /\ pc' = "restoreSum"
    /\ ScriptOnly
    /\ UNCHANGED <<sum, stagingDb, stagingSum, backupSum, flagVars>>

RestoreSum_Drops ==
    /\ pc = "restoreSum"
    /\ pc' = "sweep"
    /\ ScriptOnly
    /\ UNCHANGED <<publicVars, privateVars, flagVars>>

RestoreSum ==
    /\ pc = "restoreSum"
    /\ IF knowsSum /\ backupSum[pid] # Absent
          THEN sum' = backupSum[pid] /\ backupSum' = Emptied(backupSum)
          ELSE UNCHANGED <<sum, backupSum>>
    /\ pc' = "sweep"
    /\ ScriptOnly
    /\ UNCHANGED <<db, stagingDb, stagingSum, backupDb, flagVars>>

\* The promotion was complete, or had not begun.
SweepBackups ==
    /\ pc = "sweepBackups"
    /\ backupDb' = IF knowsDb THEN Emptied(backupDb) ELSE backupDb
    /\ backupSum' = IF knowsSum THEN Emptied(backupSum) ELSE backupSum
    /\ pc' = "sweep"
    /\ ScriptOnly
    /\ UNCHANGED <<publicVars, stagingDb, stagingSum, flagVars>>

\* A script that has not come to import_rocksdb has set no path and leaves all as it is.
Exit ==
    /\ pc \in {"sweep", "leave"}
    /\ stagingDb' = IF pc = "sweep" THEN Emptied(stagingDb) ELSE stagingDb
    /\ stagingSum' = IF pc = "sweep" THEN Emptied(stagingSum) ELSE stagingSum
    /\ exit' = status
    /\ NoFlags
    /\ pc' = "idle"
    /\ UNCHANGED <<datasetVars, publicVars, backupDb, backupSum, runVars, status, into,
                   faults>>

-----------------------------------------------------------------------------
(* Faults. *)

InTrap == pc \in {"trap", "dropDb", "dropSum", "restoreDb", "restoreSum",
                  "sweepBackups", "sweep", "leave"}

\* A command that the script runs fails and has changed nothing.
CommandFails ==
    /\ pc \in {"checksum", "oldDb", "oldSum", "newDb", "newSum", "forget"}
    /\ Fault("error")
    /\ pc' = "trap"
    /\ status' = "error"
    /\ UNCHANGED <<datasetVars, publicVars, privateVars, flagVars, runVars, exit, into>>

\* SIGINT or SIGTERM between two commands.
Signal ==
    /\ pc # "idle"
    /\ ~ InTrap
    /\ cmd = "none"
    /\ Fault("signal")
    /\ pc' = IF pc \in {"normalizing", "check"} THEN "leave" ELSE "trap"
    /\ status' = "signal"
    /\ UNCHANGED <<datasetVars, publicVars, privateVars, flagVars, runVars, exit, into>>

\* The script is gone, wherever it was.
CutOff(how) ==
    /\ pc' = "idle"
    /\ exit' = how
    /\ NoFlags
    /\ UNCHANGED <<fileVars, kills, privateVars, runVars, status, into>>

\* The machine, or the script and its command, is killed.
KillScript ==
    /\ pc # "idle"
    /\ Fault("kill")
    /\ CutOff("kill")
    /\ IF cmd # "none" THEN End("killed") ELSE UNCHANGED cmdVars
    /\ UNCHANGED publicVars

\* The trap has a file to remove or to move back.
TrapActs ==
    \/ pc = "dropDb" /\ ownsDb /\ db # Absent
    \/ pc = "dropSum" /\ ownsSum /\ sum # Absent
    \/ pc \in {"restoreDb", "sweepBackups"} /\ knowsDb /\ backupDb[pid] # Absent
    \/ pc \in {"restoreSum", "sweepBackups"} /\ knowsSum /\ backupSum[pid] # Absent
    \/ pc = "sweep" /\ (stagingDb[pid] # Absent \/ stagingSum[pid] # Absent)

\* A command of the trap fails: under set -e the rest of the trap is not run.  What it
\* was to restore may have been cleared already.
TrapFails ==
    /\ TrapActs
    /\ Fault("error")
    /\ CutOff("broken")
    /\ db' \in IF pc = "restoreDb" THEN {db, Absent} ELSE {db}
    /\ sum' \in IF pc = "restoreSum" THEN {sum, Absent} ELSE {sum}
    /\ UNCHANGED cmdVars

-----------------------------------------------------------------------------
(* Composition with Dataset. *)

\* replay_rocksdb_materialized renames its own staging directory when it is done.
FinishRocksReplay ==
    /\ into = "final" => db = Absent
    /\ FinishReplay
    /\ db' = IF into = "final" THEN gen ELSE db
    /\ stagingDb' = IF into = "staging" THEN [stagingDb EXCEPT ![pid] = gen]
                    ELSE stagingDb
    /\ UNCHANGED <<sum, stagingSum, backupDb, backupSum, pc, runVars, flagVars, status,
                   exit, into, faults>>

OtherStep ==
    \/ WriteRows \/ WriteQueries \/ WriteLog \/ HashFiles \/ WriteManifest
    \/ Validate \/ LoadRows \/ PutCheckpoint

DatasetStep == OtherStep /\ UNCHANGED importVars

Outside ==
    /\ pc = "idle" \/ LiveRecorder
    /\ RecordMore \/ RecordKeys
    /\ UNCHANGED importVars

CommandDies == Kill /\ UNCHANGED importVars

Promotion ==
    \/ OpenPromotion \/ MoveOldDb \/ KnowDb \/ MoveOldSum \/ KnowSum
    \/ MoveNewDb \/ OwnDb \/ MoveNewSum \/ OwnSum \/ ClosePromotion
    \/ ForgetBackups

Cleanup ==
    \/ EnterTrap \/ DropDb \/ DropSum \/ RestoreDb \/ RestoreSum \/ SweepBackups \/ Exit

Proceed ==
    \/ DatasetStep \/ FinishRocksReplay
    \/ Normalized \/ RefuseImport \/ Stage \/ Replayed \/ Checksum
    \/ Promotion \/ Cleanup

ImportNext ==
    \/ Proceed \/ Begin
    \/ Outside \/ CommandDies
    \/ CommandFails \/ TrapFails \/ KillScript

ImportSpec == ImportInit /\ [][ImportNext]_vars

\* The same, and a script that may be interrupted.
SignalSpec == ImportInit /\ [][ImportNext \/ Signal]_vars

\* What runs is scheduled, and an import that normalizes and replaces is started again,
\* whatever other imports come in between.
ImportFairSpec == ImportSpec /\ WF_vars(Proceed) /\ SF_vars(FreshImport)

-----------------------------------------------------------------------------
(* What an operator does beside the imports. *)

\* decibel-dataset replay --engine rocksdb without --db-path, then checksum.
ReplayByHand ==
    /\ pc = "idle"
    /\ db = Absent
    /\ StartReplay
    /\ into' = "final"
    /\ UNCHANGED <<publicVars, privateVars, pc, runVars, flagVars, status, exit, faults>>

ChecksumByHand ==
    /\ pc = "idle"
    /\ cmd = "none"
    /\ db # Absent
    /\ sum' = db
    /\ UNCHANGED <<datasetVars, db, privateVars, pc, runVars, flagVars, status, exit,
                   into, faults>>

\* A directory is not renamed onto one that another command has made meanwhile.
RenameRefused ==
    /\ at = "loaded"
    /\ into = "final"
    /\ db # Absent
    /\ End("error")
    /\ UNCHANGED <<fileVars, kills, importVars>>

-----------------------------------------------------------------------------
(* Properties. *)

Made == {Absent} \cup Generation

\* Every variable has its type, and a promotion is open only inside a run.
ImportTypeOK ==
    /\ DatasetTypeOK
    /\ db \in Made
    /\ sum \in Made
    /\ stagingDb \in [Pids -> Made]
    /\ stagingSum \in [Pids -> Made]
    /\ backupDb \in [Pids -> Made]
    /\ backupSum \in [Pids -> Made]
    /\ pid \in Pids
    /\ force \in BOOLEAN
    /\ open \in BOOLEAN
    /\ knowsDb \in BOOLEAN
    /\ knowsSum \in BOOLEAN
    /\ ownsDb \in BOOLEAN
    /\ ownsSum \in BOOLEAN
    /\ status \in {"ok", "error", "signal"}
    /\ exit \in {"none", "ok", "error", "signal", "kill", "broken"}
    /\ into \in {"memory", "staging", "final"}
    /\ faults \in 0..MaxFaults
    /\ pc = "idle" => ~ (open \/ knowsDb \/ knowsSum \/ ownsDb \/ ownsSum)

\* A checksum file beside a database is that database's, after any failure or kill.
MatchedPair == db # Absent /\ sum # Absent => db = sum

\* The pair that the imports publish one after the other: while one is at work, the pair
\* it found.
Published == IF pc = "idle" THEN <<db, sum>> ELSE before

PublicationView == INSTANCE Publication WITH
    MaxSource <- MaxRaw,
    source <- manifest.gen,
    database <- Published[1],
    checksums <- Published[2],
    outcome <- exit

\* The script with its trap, over the dataset's commands, publishes as Publication says:
\* success has published both files of the normalization that the manifest vouches for;
\* failure leaves the pair exactly as it was found, or has replaced it, whichever command
\* fails and whatever killed runs have left behind; a run that is cut off leaves no more
\* and no other files than Publication allows.
ImplementsPublication == PublicationView!Spec

\* An import that is repeated catches up with the raw input.
ImportCatchesUp == []<>(raw = 0 \/ (db = raw /\ sum = raw))

\* --force replaces the published path after staging has succeeded (usage of the
\* script): no exit through the trap leaves the path without a database.
ForceOnlyReplaces ==
    [][pc = "sweep" /\ before[1] # Absent => db' # Absent]_vars
=============================================================================
