------------------------------ MODULE MCDataset ------------------------------
(* Small instances of Dataset for TLC. *)
EXTENDS DatasetProofs
=============================================================================
