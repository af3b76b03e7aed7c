----------------------------- MODULE RawArchive -----------------------------
(***************************************************************************)
(* What the recorder promises the rest of the pipeline, with no files, no  *)
(* process and no stream: the versions held on disk are always a prefix of *)
(* the requested range, they are never given up, and the cursor a resumed  *)
(* run starts from never moves back and never passes a version that is not *)
(* held.                                                                   *)
(***************************************************************************)
EXTENDS Integers

CONSTANTS
    FirstVersion,   \* --start-version of the archive
    EndVersion      \* --end-version of the archive

VARIABLES
    held,           \* versions found in completed chunks
    cursor          \* where a run with --resume starts

archiveVars == <<held, cursor>>

Init ==
    /\ held = {}
    /\ cursor = FirstVersion

\* A chunk is put in place: it extends (or, re-recorded, repeats) the prefix. An
\* archive with no checkpoint reads its cursor off the chunk names, so the cursor
\* may move in the same step.
Store ==
    \E last \in FirstVersion..EndVersion :
        /\ held' = held \cup (FirstVersion..last)
        /\ cursor' \in {cursor, last + 1}
        /\ cursor' >= cursor

\* A checkpoint is put in place.
Commit ==
    /\ cursor' \in (cursor + 1)..(EndVersion + 1)
    /\ FirstVersion..(cursor' - 1) \subseteq held
    /\ UNCHANGED held

Next == Store \/ Commit

Spec == Init /\ [][Next]_archiveVars
=============================================================================
