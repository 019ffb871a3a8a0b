------------------------------ MODULE MCSnapshot ------------------------------
(* Snapshot for TLC: its constants are given in the cfgs. *)
EXTENDS Snapshot
=============================================================================
