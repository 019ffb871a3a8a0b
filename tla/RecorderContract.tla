--------------------------- MODULE RecorderContract ---------------------------
(***************************************************************************)
(* What the media recorder service promises its clients about a recorder,  *)
(* with the pipelines, the clients and the blocking calls left out.        *)
(*                                                                         *)
(* A recorder id is "absent" or has the state of its recorder.  One        *)
(* request is served at a time.  It is answered true exactly when it did   *)
(* what it asks for, and the request in progress is the only thing that    *)
(* changes a recorder, and changes no other.                               *)
(***************************************************************************)
CONSTANTS RecorderIds, NoId

VARIABLES
  phase,        \* what each id stands for
  op,           \* the request in progress, "none" between requests
  serving,      \* the id of its recorder
  returnValue   \* the answer to the last request, "none" while one is open

vars == <<phase, op, serving, returnValue>>

\* The phases in which a request is taken up at all.
Needs == [start |-> {"OPEN"}, stop |-> {"RECORDING", "PAUSE"},
          takeSnapshot |-> {"RECORDING"}, pause |-> {"RECORDING"}, resume |-> {"PAUSE"}]

\* The phase in which start, pause and resume, answered true, leave the recorder.
Goal == [start |-> "RECORDING", pause |-> "PAUSE", resume |-> "RECORDING"]

Init ==
  /\ phase = [id \in RecorderIds |-> "absent"]
  /\ op = "none" /\ serving = NoId /\ returnValue = "none"

Answer(value) == op' = "none" /\ serving' = NoId /\ returnValue' = value
Begin(request, id) == op' = request /\ serving' = id /\ returnValue' = "none"

\* A request that is refused, or only stores a setting.
Settle ==
  /\ op = "none"
  /\ \E value \in {"true", "false"} : Answer(value)
  /\ UNCHANGED phase

\* open gives the id a new recorder, in the place of any it had.
Open(id) ==
  /\ op = "none"
  /\ phase' = [phase EXCEPT ![id] = "OPEN"]
  /\ Answer("true") \/ Begin("open", id)

\* close ends a recorder that is neither recording nor paused.
Close(id) ==
  /\ op = "none" /\ phase[id] = "OPEN"
  /\ phase' = [phase EXCEPT ![id] = "absent"]
  /\ Answer("true") \/ Begin("close", id)

TakeUp(id) ==
  /\ op = "none"
  /\ \E request \in DOMAIN Needs : phase[id] \in Needs[request] /\ Begin(request, id)
  /\ UNCHANGED phase

\* start, pause or resume did it.
Reach ==
  /\ op \in DOMAIN Goal
  /\ phase' = [phase EXCEPT ![serving] = Goal[op]]
  /\ Answer("true")

\* stop did it; the answer is given when the pipeline process has been waited for.
StopRecording ==
  /\ op = "stop" /\ phase[serving] \in Needs.stop
  /\ phase' = [phase EXCEPT ![serving] = "OPEN"]
  /\ UNCHANGED <<op, serving, returnValue>>

Finish ==
  /\ op \in {"open", "close", "takeSnapshot"} \/ (op = "stop" /\ phase[serving] = "OPEN")
  /\ Answer("true")
  /\ UNCHANGED phase

Fail ==
  /\ \/ op \in {"start", "pause", "resume", "takeSnapshot"}
     \/ op = "stop" /\ phase[serving] # "OPEN"
  /\ Answer("false")
  /\ UNCHANGED phase

Next ==
  \/ Settle \/ Reach \/ StopRecording \/ Finish \/ Fail
  \/ \E id \in RecorderIds : Open(id) \/ Close(id) \/ TakeUp(id)

Spec == Init /\ [][Next]_vars
=============================================================================
