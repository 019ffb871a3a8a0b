--------------------------- MODULE MCRecordPipeline ---------------------------
(* RecordPipeline for TLC: its constants are sets of strings, given in the cfgs. *)
EXTENDS RecordPipeline
=============================================================================
