-------------------------- MODULE MCRecorderSettings --------------------------
(* RecorderSettings for TLC. *)
EXTENDS RecorderSettings

\* Bit rates on both sides of each boundary; one below 0 and one that wraps to 9.
SomeRates == {-1, 0, 1, 3, 9, 10, 24, 50, 51, 111}
=============================================================================
