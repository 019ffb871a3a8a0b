------------------------------ MODULE MCCallSync ------------------------------
(* CallSync for TLC: its constants are given in the cfg. *)
EXTENDS CallSync
=============================================================================
