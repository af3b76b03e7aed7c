--------------------------- MODULE MCAtomicFiles ---------------------------
(* Small instances of AtomicFiles: files of one and of two blocks. *)
EXTENDS AtomicFiles

CONSTANTS r, d

MCSize(p) == IF p = d THEN 1 ELSE 2
=============================================================================
