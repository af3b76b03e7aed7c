------------------------------ MODULE MCImport ------------------------------
(* Small instances of Import for TLC. *)
EXTENDS Import
=============================================================================
