--------------------------- MODULE PipelineContract ---------------------------
(***************************************************************************)
(* What one g-record-pipeline process promises the recorder service that   *)
(* forked it: which calls it answers, with what, and when it ends; and     *)
(* which calls it takes for granted that the service does not make.        *)
(* RecordPipeline, the threads of the process, implements it; the children *)
(* of RecorderSystem are processes that behave as it says.                 *)
(***************************************************************************)

VARIABLES
  phase,   \* where the process stands
  kind,    \* what it was told to start, "none" before
  reply    \* the answer to the last call, "none" until it is given

vars == <<phase, kind, reply>>

Phases == {"idle", "loading", "loaded", "paused", "capturing", "stopping",
           "quitting", "exited"}

\* "nothing" is a start that names no source.
StartKinds == {"recording", "snapshot", "nothing"}

Replies == {"none", "true", "false"}

TypeOK == phase \in Phases /\ kind \in StartKinds \cup {"none"} /\ reply \in Replies

Init == phase = "idle" /\ kind = "none" /\ reply = "none"

-----------------------------------------------------------------------------

\* A subscriber is taken or refused.
Subscribe ==
  phase = "idle" /\ kind = "none" /\ reply' \in {"true", "false"} /\ UNCHANGED <<phase, kind>>

\* A process is told to start once.
Start ==
  /\ phase = "idle" /\ kind = "none"
  /\ kind' \in StartKinds
  /\ IF kind' = "nothing" THEN reply' = "true" /\ UNCHANGED phase
     ELSE phase' = "loading" /\ reply' = "none"

\* start is answered true whether or not it loads; a load that fails late ends
\* the process, and so does a snapshot taken before start has returned.
StartReturns ==
  /\ phase = "loading"
  /\ phase' \in {"idle", "quitting", IF kind = "recording" THEN "loaded" ELSE "capturing"}
  /\ reply' = "true" /\ UNCHANGED kind

\* stop ends the process, unless nothing is loaded or a snapshot is ending by itself.
Stop ==
  /\ \/ phase = "idle" /\ kind # "none" /\ reply' = "true" /\ UNCHANGED phase
     \/ phase = "capturing" /\ reply' = "false" /\ UNCHANGED phase
     \/ phase \in {"loaded", "paused", "capturing"} /\ phase' = "stopping" /\ reply' = "none"
  /\ UNCHANGED kind

StopReturns ==
  phase = "stopping" /\ phase' = "quitting" /\ reply' = "true" /\ UNCHANGED kind

\* A recording that has not loaded does not answer pause and resume.
Switch(target) ==
  /\ kind = "recording"
  /\ \/ phase = "idle" /\ reply' = "none" /\ UNCHANGED phase
     \/ phase \in {"loaded", "paused"} /\ phase' = target /\ reply' = "true"
     \/ phase \in {"loaded", "paused"} /\ reply' = "false" /\ UNCHANGED phase
  /\ UNCHANGED kind

Pause == Switch("paused")
Resume == Switch("loaded")

\* A snapshot ends by itself.
EndOfStream == phase = "capturing" /\ phase' = "quitting" /\ UNCHANGED <<kind, reply>>

\* Nothing is left of a process that has ended.
Ended == phase' = "exited" /\ kind' = "none" /\ reply' = "none"

Exit == phase = "quitting" /\ Ended

\* Without a uMediaServer start ends the process, and stopping can take it down.
Crash == (phase = "stopping" \/ (phase = "idle" /\ kind = "none")) /\ Ended

-----------------------------------------------------------------------------

Next == Subscribe \/ Start \/ StartReturns \/ Stop \/ StopReturns \/ Pause \/ Resume
          \/ EndOfStream \/ Exit \/ Crash

Spec == Init /\ [][Next]_vars

\* A call returns, a snapshot ends, and a process that has quit is gone: what the
\* service needs for its own wait() to return.
Fairness ==
  WF_vars(StartReturns) /\ WF_vars(StopReturns) /\ WF_vars(EndOfStream) /\ WF_vars(Exit)
=============================================================================
