---------------------------- MODULE MCBufferEncoder ----------------------------
(* BufferEncoder for TLC: its constants are given in the cfg. *)
EXTENDS BufferEncoder
=============================================================================
