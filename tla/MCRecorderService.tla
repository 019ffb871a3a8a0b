-------------------------- MODULE MCRecorderService --------------------------
(***************************************************************************)
(* Small instances of RecorderService.  Each cfg gives the surroundings,   *)
(* Env, in which the properties it names are claimed.                      *)
(***************************************************************************)
EXTENDS RecorderService, TLC

Symmetry == Permutations(RecorderIds) \cup Permutations(Pids)
=============================================================================
