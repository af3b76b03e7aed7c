----------------------------- MODULE MCRelease -----------------------------
(* Small instances of Release for TLC. *)
EXTENDS Release

\* States that differ only in what no step and no property of Release reads again are
\* one: how the last import and command ended, and the values of runs that are over.
MCView ==
    <<fileVars, publicVars, privateVars, pc, flagVars, faults, releaseVars,
      IF pc = "idle" THEN "over" ELSE <<pid, force, status>>,
      IF pc = "idle" /\ cmd = "none" THEN "over" ELSE cmdVars,
      IF cmd = "none" THEN "over" ELSE into>>

\* The first generation of raw input has no fills: the workload that scans them lacks its
\* rows, and the query file made from them is empty.
MCRowless == {<<1, 2>>}
MCQueryless == {<<1, 2>>}
=============================================================================
