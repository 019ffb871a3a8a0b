--------------------------- MODULE MCRecordFileName ---------------------------
(* RecordFileName for TLC: summer time ends after the second second. *)
EXTENDS RecordFileName, TLC

\* The third second has the local time of the second one.
SummerTimeEnds == [s \in 0..MaxClock |-> IF s < 2 THEN s ELSE s - 1]

Media == [begins |-> "media", place |-> "media"]

\* "/media/internal/../../elsewhere", the same place written as it is, and a target folder
\* that is written as if it were elsewhere.
LeadsOut == [begins |-> "media", place |-> "elsewhere"]
LeadsIn == [begins |-> "elsewhere", place |-> "media"]

\* A name that a recording made in the second reading gets.
Taken == [prefix |-> "Record", time |-> 0, hundredths |-> 1]

SomeRequests ==
  {[folder |-> Media, file |-> NoName], [folder |-> Media, file |-> Taken],
   [folder |-> LeadsOut, file |-> NoName], [folder |-> LeadsIn, file |-> NoName]}

Symmetry == Permutations(RecorderIds)
=============================================================================
