---------------------------- MODULE MCDbWorkers ----------------------------
(* Instances of DbWorkers for TLC. *)
EXTENDS DbWorkers
=============================================================================
