--------------------------- MODULE RecorderService ---------------------------
(***************************************************************************)
(* The media recorder service process: the Luna handlers of                *)
(* MediaRecorderManager, the MediaRecorder objects they drive, and the     *)
(* g-record-pipeline child processes each MediaRecorder forks through its  *)
(* Process objects.                                                        *)
(*                                                                         *)
(* All handlers run on the one GMainLoop thread, so at most one is in      *)
(* progress; svc.pc says where that handler stands.  A handler stops being *)
(* atomic where the code blocks: in LunaClient::callSync (a "*.call" style *)
(* label with resp = "none") and in Process::stop, whose wait() returns    *)
(* when ANY child of the service has exited (a "*.reap" label).  The       *)
(* children run concurrently with the thread.                              *)
(***************************************************************************)
EXTENDS Naturals, Sequences, FiniteSets

CONSTANTS
  RecorderIds,   \* the range of getRandomNumber()
  Pids,          \* BOUND: children that exist, or are referred to, at a time
  NoRecorder,    \* recorders[id] when the map has no entry for id
  NoProcess,     \* a null unique_ptr<Process>
  ForkFailed,    \* a Process whose fork() returned -1
  MaxPending,    \* BOUND: calls a child has not handled yet
  Env            \* what the surroundings of the service may do wrong

\* Members of Env:
\*   "idClash"        open draws a random id that is in use
\*   "badFormat"      a client asks for a file format its source has not got
\*   "audioSnapshot"  a client asks for a snapshot of an audio-only recording
\*   "cameraFail"     the camera service refuses getFormat
\*   "loadFail"       the pipeline cannot be loaded in the child
\*   "pauseFail"      the pipeline refuses to pause or to play
\*   "subscribeFail"  LSCall refuses the snapshot subscription
\*   "timeout"        a reply does not come within the time of callSync
\*   "crash"          a child dies while its pipeline is loaded
\*   "crashEarly"     a child dies before it has loaded a pipeline
\*   "forkFail"       fork() returns -1
EnvFaults == {"idClash", "badFormat", "audioSnapshot", "cameraFail", "loadFail",
              "pauseFail", "subscribeFail", "timeout", "crash",
              "crashEarly", "forkFail"}

NoId == "noId"

VARIABLES
  recorders,  \* MediaRecorderManager::recorders, and what each recorder holds
  svc,        \* the handler in progress on the main thread
  resp,       \* what callSync has put in resp: "none" until it returns
  returnValue, \* of the last answer, "none" while a handler blocks
  proc,       \* the children of the service: what each is doing
  inbox       \* the calls sent to a child that it has not handled

vars == <<recorders, svc, resp, returnValue, proc, inbox>>

-----------------------------------------------------------------------------
\* Types.  State CLOSE is left out: open leaves it, and close sets it on an
\* object the manager erases in the same step.

Handles == Pids \cup {NoProcess, ForkFailed}

Recorder ==
  [state : {"OPEN", "RECORDING", "PAUSE"},
   video : BOOLEAN,             \* !videoSrc.empty(); if not, audioSrc is true
   badFormat : BOOLEAN,         \* mFormat is set, and not one its source can have
   process : Handles,           \* record_process, whose child record_uri names
   client : {"null", "registered", "unregistered"},  \* record_client
   lateEos : BOOLEAN]           \* a snapshot was given up, its EOS may come yet

CallPcs == {"start.camera", "start.load", "stop.call", "pause.call",
            "resume.call", "snapshot.load", "snapshot.stop"}
ReapPcs == {"open.reap", "close.reap", "start.reap", "stop.reap", "snapshot.reap"}
OtherPcs == {"start.client", "start.format", "snapshot.subscribe", "snapshot.eos"}

Service ==
  [pc : {"loop"} \cup CallPcs \cup ReapPcs \cup OtherPcs,
   id : RecorderIds \cup {NoId},   \* the recorder the handler works on
   local : Handles,                \* the Process object the handler itself owns:
                                   \* snapshot_process, or the one it destroys
   err : {"ERR_NONE", "ERR_SNAPSHOT_CAPTURE_FAILED"}]   \* what takeSnapshot returns after its wait()

\* A child is "idle" until it has handled its start, "empty" after one that loaded
\* nothing, and "quitting" when it has left its main loop.
NotLoaded == {"idle", "empty"}
Running == NotLoaded \cup {"loaded", "paused", "capturing", "quitting"}
ProcStates == {"none", "exited"} \cup Running

\* "load" and "capture" are the "start" call of a recording and of a snapshot,
\* "empty" the "start" call whose payload names no source.
Calls == {"load", "capture", "empty", "stop", "pause", "resume"}

ASSUME ConstantsAssumption ==
  /\ Env \subseteq EnvFaults
  /\ NoId \notin RecorderIds
  /\ NoRecorder \notin Recorder
  /\ IsFiniteSet(RecorderIds) /\ IsFiniteSet(Pids)
  /\ NoProcess \notin Pids /\ ForkFailed \notin Pids /\ NoProcess # ForkFailed
  /\ MaxPending \in Nat \ {0, 1}

TypeOK ==
  /\ recorders \in [RecorderIds -> Recorder \cup {NoRecorder}]
  /\ svc \in Service
  /\ resp \in {"none", "true", "false", "unparsable"}
  /\ returnValue \in {"none", "true", "false"}
  /\ proc \in [Pids -> ProcStates]
  /\ inbox \in [Pids -> Seq(Calls)]

Loop == [pc |-> "loop", id |-> NoId, local |-> NoProcess, err |-> "ERR_NONE"]

Init ==
  /\ recorders = [id \in RecorderIds |-> NoRecorder]
  /\ svc = Loop
  /\ resp = "none"
  /\ returnValue = "none"
  /\ proc = [p \in Pids |-> "none"]
  /\ inbox = [p \in Pids |-> << >>]

-----------------------------------------------------------------------------
\* Helpers.

Exists(id) == recorders[id] # NoRecorder

\* The request is answered and the thread is back in its main loop.
Answer(code) ==
  svc' = Loop /\ returnValue' = IF code = "ERR_NONE" THEN "true" ELSE "false"

\* The handler in progress goes on to pc.
Goto(pc) == svc' = [svc EXCEPT !.pc = pc] /\ UNCHANGED returnValue

\* A handler begins a blocking part for id, holding the Process object h.
Enter(pc, id, h) ==
  svc' = [pc |-> pc, id |-> id, local |-> h, err |-> "ERR_NONE"] /\ returnValue' = "none"

\* Mutant: the id of a new pipeline may be one that is still in use.
FreePidsReused == {p \in Pids : proc[p] = "none"}

\* A pid that no child has and no Process object or record_uri names.
FreePids == {p \in Pids : /\ proc[p] = "none"
                          /\ svc.local # p
                          /\ \A id \in RecorderIds : Exists(id) => recorders[id].process # p}

\* Process::start: h is the _pid of the new Process object.
Fork(h) ==
  \/ h \in FreePids /\ proc' = [proc EXCEPT ![h] = "idle"]
  \/ h = ForkFailed /\ "forkFail" \in Env /\ UNCHANGED proc

\* The child whose reply the handler in progress waits for.
Callee == IF svc.pc \in {"snapshot.load", "snapshot.stop"} THEN svc.local
          ELSE IF svc.pc \in CallPcs \ {"start.camera"} THEN recorders[svc.id].process
          ELSE NoProcess

Alive(h) == h \in Pids /\ proc[h] \in Running

\* callSync up to its wait: a client without a bus handle fails at once.
Send(client, h, call) ==
  IF client = "unregistered"
  THEN resp' = "unparsable" /\ UNCHANGED inbox
  ELSE /\ resp' = "none"
       /\ inbox' = IF Alive(h) THEN [inbox EXCEPT ![h] = Append(@, call)] ELSE inbox

\* BOUND: requests that would overfill the child's inbox are not taken.
HasRoom(id) ==
  LET h == recorders[id].process IN h \in Pids => Len(inbox[h]) < MaxPending

-----------------------------------------------------------------------------
\* MediaRecorderManager and MediaRecorder: opening and closing.

\* Requests a handler answers before it reaches a recorder: a payload that does
\* not parse or has a member of the wrong type, a missing or unknown id.
RejectRequest ==
  /\ svc.pc = "loop"
  /\ \E code \in {"ERR_JSON_PARSING", "ERR_JSON_TYPE", "ERR_RECORDER_ID_NOT_SPECIFIED",
                  "ERR_INVALID_RECORDER_ID"} : Answer(code)
  /\ UNCHANGED <<recorders, resp, proc, inbox>>

\* Mutant: the state is not set.
OpenRecorderClosed(video) ==
  [state |-> "CLOSE", video |-> video, badFormat |-> FALSE, process |-> NoProcess,
   client |-> "null", lateEos |-> FALSE]

\* MediaRecorder::open on a fresh object: the recorder it leaves.
OpenRecorder(video) ==
  [state |-> "OPEN", video |-> video, badFormat |-> FALSE, process |-> NoProcess,
   client |-> "null", lateEos |-> FALSE]

\* Mutant: the destructor does not wait for the child.
DestroyNoWait(pc, id, h) == Answer("ERR_NONE")

\* Destroying a MediaRecorder that holds the Process object h.
Destroy(pc, id, h) ==
  IF h = NoProcess THEN Answer("ERR_NONE") ELSE Enter(pc, id, h)

\* open: the random id may be that of a recorder, which is then replaced.
HandleOpen(id) ==
  /\ svc.pc = "loop"
  /\ \E video, audio \in BOOLEAN :
       IF ~video /\ ~audio
       THEN Answer("ERR_SOURCE_NOT_SPECIFIED") /\ UNCHANGED recorders
       ELSE /\ Exists(id) => "idClash" \in Env
            /\ recorders' = [recorders EXCEPT ![id] = OpenRecorder(video)]
            /\ Destroy("open.reap", id,
                       IF Exists(id) THEN recorders[id].process ELSE NoProcess)
  /\ UNCHANGED <<resp, proc, inbox>>

\* The handlers that look the recorder up before they call it.
Serve(id) == svc.pc = "loop" /\ Exists(id)

\* A MediaRecorder method refuses a request that needs another state.
Refuse(id, states) == recorders[id].state \notin states /\ Answer("ERR_INVALID_STATE")

\* Mutant: close does not look at the state.
CloseRecorderAlways(id) == TRUE

\* MediaRecorder::close
CloseRecorder(id) == recorders[id].state = "OPEN"

\* close: an entry is erased only when its recorder has been closed.
HandleClose(id) ==
  /\ Serve(id)
  /\ IF CloseRecorder(id)
     THEN /\ recorders' = [recorders EXCEPT ![id] = NoRecorder]
          /\ Destroy("close.reap", id, recorders[id].process)
     ELSE Answer("ERR_INVALID_STATE") /\ UNCHANGED recorders
  /\ UNCHANGED <<resp, proc, inbox>>

-----------------------------------------------------------------------------
\* The settings.  Only the file format decides anything later on; what the
\* others store is passed to the pipeline as it is.

SetOutputFile(id) ==
  recorders[id].state = "OPEN" /\ \E code \in {"ERR_NONE", "ERR_CANNOT_WRITE"} : Answer(code)

HandleSetOutputFile(id) ==
  /\ Serve(id)
  /\ Refuse(id, {"OPEN"}) \/ SetOutputFile(id) \/ Answer("ERR_PATH_NOT_SPECIFIED")
  /\ UNCHANGED <<recorders, resp, proc, inbox>>

\* The format is stored before it is checked, so a refused one stays, but for
\* the empty name, which start takes for a format not set.
SetOutputFormat(id, format) ==
  /\ recorders[id].state = "OPEN"
  /\ format = "supported" \/ "badFormat" \in Env
  /\ recorders' = [recorders EXCEPT ![id].badFormat = (format = "unsupported")]
  /\ Answer(IF format = "supported" THEN "ERR_NONE" ELSE "ERR_UNSUPPORTED_FORMAT")

HandleSetOutputFormat(id) ==
  /\ Serve(id)
  /\ \/ \E format \in {"supported", "unsupported", "empty"} : SetOutputFormat(id, format)
     \/ /\ Refuse(id, {"OPEN"}) \/ Answer("ERR_FORMAT_NOT_SPECIFIED")
        /\ UNCHANGED recorders
  /\ UNCHANGED <<resp, proc, inbox>>

SetVideoFormat(id) ==
  /\ recorders[id].state = "OPEN"
  /\ IF recorders[id].video
     THEN \E code \in {"ERR_NONE", "ERR_UNSUPPORTED_VIDEO_FORMAT",
                       "ERR_VIDEO_BITRATE_OUT_OF_RANGE"} : Answer(code)
     ELSE Answer("ERR_VIDEO_NOT_OPENED")

HandleSetVideoFormat(id) ==
  /\ Serve(id)
  /\ Refuse(id, {"OPEN"}) \/ SetVideoFormat(id)
  /\ UNCHANGED <<recorders, resp, proc, inbox>>

SetAudioFormat(id) ==
  /\ recorders[id].state = "OPEN"
  /\ \/ Answer("ERR_AUDIO_NOT_OPENED") /\ recorders[id].video
     \/ \E code \in {"ERR_NONE", "ERR_UNSUPPORTED_AUDIO_FORMAT"} : Answer(code)

HandleSetAudioFormat(id) ==
  /\ Serve(id)
  /\ Refuse(id, {"OPEN"}) \/ SetAudioFormat(id)
  /\ UNCHANGED <<recorders, resp, proc, inbox>>

-----------------------------------------------------------------------------
\* start, in the blocking parts of MediaRecorder::start.

Here == recorders[svc.id]

\* The new child is forked before the Process of a failed start is destroyed.
HandleStart(id) ==
  /\ Serve(id)
  /\ \/ Refuse(id, {"OPEN"}) /\ UNCHANGED <<recorders, proc>>
     \/ /\ recorders[id].state = "OPEN"
        /\ \E h \in Handles :
             /\ Fork(h)
             /\ recorders' = [recorders EXCEPT ![id].process = h]
        /\ LET old == recorders[id].process
           IN Enter(IF old = NoProcess THEN "start.client" ELSE "start.reap", id, old)
  /\ UNCHANGED <<resp, inbox>>

\* The new client asks the bus for its name while a client left by a failed
\* start still holds it.  For a video source the camera is asked for its format.
StartClient ==
  /\ svc.pc = "start.client"
  /\ LET client == IF Here.client = "registered" THEN "unregistered" ELSE "registered"
     IN /\ recorders' = [recorders EXCEPT ![svc.id].client = client]
        /\ IF Here.video
           THEN /\ Goto("start.camera")
                /\ resp' = IF client = "registered" THEN "none" ELSE "unparsable"
           ELSE Goto("start.format") /\ UNCHANGED resp
  /\ UNCHANGED <<proc, inbox>>

\* getCameraFormat returns: a reply that does not parse throws out of start.
StartCamera ==
  /\ svc.pc = "start.camera" /\ resp # "none"
  /\ \/ resp = "true" /\ Goto("start.format")
     \/ resp = "false" /\ Answer("ERR_CAMERA_OPEN_FAIL")
     \/ resp = "unparsable" /\ Answer("ERR_JSON_PARSING")
  /\ resp' = "none"
  /\ UNCHANGED <<recorders, proc, inbox>>

\* The file format is checked, or set if there is none, and the child told to start.
StartFormat ==
  /\ svc.pc = "start.format"
  /\ IF Here.badFormat
     THEN /\ Answer(IF Here.video THEN "ERR_UNSUPPORTED_VIDEO_FORMAT"
                                  ELSE "ERR_UNSUPPORTED_AUDIO_FORMAT")
          /\ UNCHANGED <<resp, inbox>>
     ELSE Goto("start.load") /\ Send(Here.client, Here.process, "load")
  /\ UNCHANGED <<recorders, proc>>

\* Mutant: the reply to start is not looked at.
StartLoadAnyReply ==
  /\ svc.pc = "start.load" /\ resp # "none"
  /\ recorders' = [recorders EXCEPT ![svc.id].state = "RECORDING"]
  /\ Answer("ERR_NONE")
  /\ resp' = "none"
  /\ UNCHANGED <<proc, inbox>>

\* Only a true reply makes the recorder RECORDING; every other way out of start
\* leaves it OPEN, with the process and the client it made.
StartLoad ==
  /\ svc.pc = "start.load" /\ resp # "none"
  /\ \/ /\ resp = "true"
        /\ recorders' = [recorders EXCEPT ![svc.id].state = "RECORDING"]
        /\ Answer("ERR_NONE")
     \/ /\ resp # "true"
        /\ Answer(IF resp = "false" THEN "ERR_FAILED_TO_START_RECORDING"
                                    ELSE "ERR_JSON_PARSING")
        /\ UNCHANGED recorders
  /\ resp' = "none"
  /\ UNCHANGED <<proc, inbox>>

-----------------------------------------------------------------------------
\* stop, pause and resume: one call to the child each.

\* The method sends call to the child of id and waits at pc.
Forward(id, states, call, pc) ==
  /\ Serve(id)
  /\ \/ Refuse(id, states) /\ UNCHANGED <<resp, inbox>>
     \/ /\ recorders[id].state \in states /\ HasRoom(id)
        /\ Enter(pc, id, NoProcess)
        /\ Send(recorders[id].client, recorders[id].process, call)
  /\ UNCHANGED <<recorders, proc>>

HandleStop(id) == Forward(id, {"RECORDING", "PAUSE"}, "stop", "stop.call")
HandlePause(id) == Forward(id, {"RECORDING"}, "pause", "pause.call")
HandleResume(id) == Forward(id, {"PAUSE"}, "resume", "resume.call")

\* Mutant: the reply to stop is not looked at.
StopCallAnyReply ==
  /\ svc.pc = "stop.call" /\ resp # "none"
  /\ recorders' = [recorders EXCEPT ![svc.id].state = "OPEN", ![svc.id].process = NoProcess]
  /\ Enter("stop.reap", svc.id, Here.process)
  /\ resp' = "none"
  /\ UNCHANGED <<proc, inbox>>

\* stop returns: record_process.reset() waits for a child to exit.
StopCall ==
  /\ svc.pc = "stop.call" /\ resp # "none"
  /\ \/ /\ resp = "true"
        /\ recorders' = [recorders EXCEPT ![svc.id].state = "OPEN",
                                          ![svc.id].process = NoProcess]
        /\ Enter("stop.reap", svc.id, Here.process)
     \/ /\ resp # "true"
        /\ Answer("ERR_FAILED_TO_STOP_RECORDING")
        /\ UNCHANGED recorders
  /\ resp' = "none"
  /\ UNCHANGED <<proc, inbox>>

\* Mutant: the reply to pause and resume is not looked at.
SwitchAnyReply(pc, state, failure) ==
  /\ svc.pc = pc /\ resp # "none"
  /\ recorders' = [recorders EXCEPT ![svc.id].state = state]
  /\ Answer("ERR_NONE")
  /\ resp' = "none"
  /\ UNCHANGED <<proc, inbox>>

\* pause and resume return: the state follows a true reply only.
Switch(pc, state, failure) ==
  /\ svc.pc = pc /\ resp # "none"
  /\ \/ /\ resp = "true"
        /\ recorders' = [recorders EXCEPT ![svc.id].state = state]
        /\ Answer("ERR_NONE")
     \/ resp # "true" /\ Answer(failure) /\ UNCHANGED recorders
  /\ resp' = "none"
  /\ UNCHANGED <<proc, inbox>>

PauseCall == Switch("pause.call", "PAUSE", "ERR_FAILED_TO_PAUSE")
ResumeCall == Switch("resume.call", "RECORDING", "ERR_FAILED_TO_RESUME")

-----------------------------------------------------------------------------
\* takeSnapshot.  The client thread that sets mEos is the subject of module
\* Snapshot; here the poll of mEos ends when the child of this snapshot, or one
\* given up earlier, may have sent its end of stream.

\* What keeps takeSnapshot from forking a child.
RefuseSnapshot(id) ==
  \/ Refuse(id, {"RECORDING"})
  \/ /\ recorders[id].state = "RECORDING"
     /\ \E code \in {"ERR_CANNOT_WRITE", "ERR_UNSUPPORTED_FORMAT"} : Answer(code)
  \/ \E code \in {"ERR_PATH_NOT_SPECIFIED", "ERR_FORMAT_NOT_SPECIFIED"} : Answer(code)

HandleTakeSnapshot(id) ==
  /\ Serve(id)
  /\ \/ RefuseSnapshot(id) /\ UNCHANGED proc
     \/ /\ recorders[id].state = "RECORDING"
        /\ recorders[id].video \/ "audioSnapshot" \in Env
        /\ \E h \in Handles : Fork(h) /\ Enter("snapshot.subscribe", id, h)
  /\ UNCHANGED <<recorders, resp, inbox>>

\* The subscription is asked for and the child told to start, with no image
\* member in the payload when there is no video source.
SnapshotSubscribe ==
  /\ svc.pc = "snapshot.subscribe"
  /\ \/ /\ "subscribeFail" \in Env
        /\ svc' = [svc EXCEPT !.pc = "snapshot.reap", !.err = "ERR_SNAPSHOT_CAPTURE_FAILED"]
        /\ UNCHANGED <<resp, inbox>>
     \/ /\ svc' = [svc EXCEPT !.pc = "snapshot.load"]
        /\ Send("registered", svc.local, IF Here.video THEN "capture" ELSE "empty")
  /\ UNCHANGED <<recorders, returnValue, proc>>

\* Whatever the reply to start, mEos is cleared and polled.
SnapshotLoad ==
  /\ svc.pc = "snapshot.load" /\ resp # "none"
  /\ Goto("snapshot.eos") /\ resp' = "none"
  /\ UNCHANGED <<recorders, proc, inbox>>

\* Mutant: takeSnapshot does not wait for its child.
SnapshotEosNoWait ==
  /\ svc.pc = "snapshot.eos"
  /\ svc.local \in Pids /\ proc[svc.local] \in {"quitting", "exited"}
  /\ Answer("ERR_NONE")
  /\ UNCHANGED <<recorders, resp, proc, inbox>>

\* The poll sees mEos.
SnapshotEos ==
  /\ svc.pc = "snapshot.eos"
  /\ Here.lateEos \/ (svc.local \in Pids /\ proc[svc.local] \in {"quitting", "exited"})
  /\ Goto("snapshot.reap")
  /\ UNCHANGED <<recorders, resp, proc, inbox>>

\* Ten seconds went by: the child is told to stop.
SnapshotGiveUp ==
  /\ svc.pc = "snapshot.eos"
  /\ recorders' = [recorders EXCEPT ![svc.id].lateEos = TRUE]
  /\ Goto("snapshot.stop")
  /\ Send("registered", svc.local, "stop")
  /\ UNCHANGED proc

SnapshotStop ==
  /\ svc.pc = "snapshot.stop" /\ resp # "none"
  /\ Goto("snapshot.reap") /\ resp' = "none"
  /\ UNCHANGED <<recorders, proc, inbox>>

-----------------------------------------------------------------------------
\* Process::stop: the wait() of a Process destructor.

\* What the handler does once its wait() has returned.
AfterWait ==
  \/ /\ svc.pc = "start.reap"
     /\ svc' = [svc EXCEPT !.pc = "start.client", !.local = NoProcess]
     /\ UNCHANGED <<recorders, returnValue>>
  \/ /\ svc.pc = "stop.reap"
     /\ recorders' = [recorders EXCEPT ![svc.id].client = "null"]
     /\ Answer("ERR_NONE")
  \/ /\ svc.pc \in {"open.reap", "close.reap", "snapshot.reap"}
     /\ Answer(svc.err)
     /\ UNCHANGED recorders

\* wait() returns some child that has exited, whichever object forked it.
Reap(p) ==
  /\ svc.pc \in ReapPcs
  /\ proc[p] = "exited"
  /\ proc' = [proc EXCEPT ![p] = "none"]
  /\ AfterWait
  /\ UNCHANGED <<resp, inbox>>

\* wait() fails with ECHILD when the service has no child.
ReapNothing ==
  /\ svc.pc \in ReapPcs
  /\ \A p \in Pids : proc[p] = "none"
  /\ AfterWait
  /\ UNCHANGED <<resp, proc, inbox>>

-----------------------------------------------------------------------------
\* The other side of the calls: the children, the camera service and the bus.

\* The reply goes to the caller that still waits for it, else nowhere.
Reply(p, value) ==
  resp' = IF /\ svc.pc \in CallPcs /\ Callee = p /\ resp = "none"
             /\ Len(inbox[p]) = 1
          THEN value ELSE resp

\* RecordPipelineService::start answers true whether or not the pipeline loads.  One
\* that is unloaded again, for want of a bus, ends the process; a snapshot may be over by
\* the time start returns.
ChildStart(p) ==
  /\ Head(inbox[p]) \in {"load", "capture", "empty"}
  /\ Reply(p, "true")
  /\ \/ Head(inbox[p]) = "load" /\ proc' = [proc EXCEPT ![p] = "loaded"]
     \/ Head(inbox[p]) = "capture" /\ proc' = [proc EXCEPT ![p] = "capturing"]
     \/ /\ Head(inbox[p]) = "empty" \/ "loadFail" \in Env
        /\ proc' = [proc EXCEPT ![p] = "empty"]
     \/ /\ Head(inbox[p]) = "capture" \/ (Head(inbox[p]) = "load" /\ "loadFail" \in Env)
        /\ proc' = [proc EXCEPT ![p] = "quitting"]

\* RecordPipelineService::stop: only a loaded pipeline ends the process, and a snapshot
\* that has unloaded itself is refused.
ChildStop(p) ==
  /\ Head(inbox[p]) = "stop"
  /\ \/ /\ Reply(p, "true")
        /\ proc' = [proc EXCEPT ![p] = IF @ \in NotLoaded THEN @ ELSE "quitting"]
     \/ proc[p] = "capturing" /\ Reply(p, "false") /\ UNCHANGED proc

\* RecordPipelineService::pause and resume give no reply without a pipeline.
ChildSwitch(p, call, state) ==
  /\ Head(inbox[p]) = call
  /\ IF proc[p] \in NotLoaded THEN UNCHANGED <<proc, resp>>
     ELSE \/ Reply(p, "true") /\ proc' = [proc EXCEPT ![p] = state]
          \/ "pauseFail" \in Env /\ Reply(p, "false") /\ UNCHANGED proc

\* The child's main loop handles the oldest call; it has quit when "quitting".
ChildHandle(p) ==
  /\ proc[p] \in Running \ {"quitting"} /\ inbox[p] # << >>
  /\ ChildStart(p) \/ ChildStop(p) \/ ChildSwitch(p, "pause", "paused")
       \/ ChildSwitch(p, "resume", "loaded")
  /\ inbox' = [inbox EXCEPT ![p] = Tail(@)]
  /\ UNCHANGED <<recorders, svc, returnValue>>

\* A snapshot reaches its end of stream and unloads itself.
ChildEos(p) ==
  /\ proc[p] = "capturing"
  /\ proc' = [proc EXCEPT ![p] = "quitting"]
  /\ UNCHANGED <<recorders, svc, resp, returnValue, inbox>>

\* The process ends, and with it the calls it has not handled.
End(p) ==
  /\ proc' = [proc EXCEPT ![p] = "exited"]
  /\ inbox' = [inbox EXCEPT ![p] = << >>]
  /\ UNCHANGED <<recorders, svc, resp, returnValue>>

ChildExit(p) == proc[p] = "quitting" /\ End(p)

ChildCrash(p) ==
  /\ \/ "crash" \in Env /\ proc[p] \in Running \ NotLoaded
     \/ "crashEarly" \in Env /\ proc[p] \in NotLoaded
  /\ End(p)

Waiting == svc.pc \in CallPcs /\ resp = "none"

CameraReply ==
  /\ Waiting /\ svc.pc = "start.camera"
  /\ resp' = "true" \/ ("cameraFail" \in Env /\ resp' = "false")
  /\ UNCHANGED <<recorders, svc, returnValue, proc, inbox>>

\* The bus answers for a callee that is gone.
BusError ==
  /\ Waiting /\ svc.pc # "start.camera" /\ ~Alive(Callee)
  /\ resp' = "false"
  /\ UNCHANGED <<recorders, svc, returnValue, proc, inbox>>

\* The time of callSync runs out: the bus reports it, or the poll ends first.
\* It always does when the callee has taken the call and given no reply.
CallTimeout ==
  /\ Waiting
  /\ "timeout" \in Env \/ (Alive(Callee) /\ inbox[Callee] = << >>)
  /\ resp' \in {"false", "unparsable"}
  /\ UNCHANGED <<recorders, svc, returnValue, proc, inbox>>

-----------------------------------------------------------------------------

Request ==
  \/ RejectRequest
  \/ \E id \in RecorderIds :
       \/ HandleOpen(id) \/ HandleClose(id)
       \/ HandleSetOutputFile(id) \/ HandleSetOutputFormat(id)
       \/ HandleSetVideoFormat(id) \/ HandleSetAudioFormat(id)
       \/ HandleStart(id) \/ HandleStop(id) \/ HandleTakeSnapshot(id)
       \/ HandlePause(id) \/ HandleResume(id)

\* The steps of a handler after a blocking call has returned.
Continue ==
  \/ StartClient \/ StartCamera \/ StartFormat \/ StartLoad
  \/ StopCall \/ PauseCall \/ ResumeCall
  \/ SnapshotSubscribe \/ SnapshotLoad \/ SnapshotEos \/ SnapshotGiveUp \/ SnapshotStop
  \/ ReapNothing \/ \E p \in Pids : Reap(p)

Child(p) == ChildHandle(p) \/ ChildEos(p) \/ ChildExit(p) \/ ChildCrash(p)

Bus == CameraReply \/ BusError \/ CallTimeout

Next == Request \/ Continue \/ Bus \/ \E p \in Pids : Child(p)

Spec == Init /\ [][Next]_vars

\* The main thread runs when it can, a call that has been made gets its reply,
\* its error or its timeout, and a child handles its calls, ends its snapshot
\* and ends after its main loop has quit.  No request need ever come.
Fairness ==
  /\ WF_vars(Continue)
  /\ WF_vars(Bus)
  /\ \A p \in Pids : WF_vars(ChildHandle(p)) /\ WF_vars(ChildEos(p)) /\ WF_vars(ChildExit(p))

FairSpec == Spec /\ Fairness

-----------------------------------------------------------------------------
\* Properties.  Those that hold only of surroundings that do not do certain
\* things are checked, and stated as theorems, with Env limited accordingly.

Active(id) == Exists(id) /\ recorders[id].state \in {"RECORDING", "PAUSE"}

\* stop, pause and resume dereference record_client, and stop expects a child to
\* wait for: a recorder that is recording or paused has both, its client has its
\* bus name, and the handler that works on a recorder finds it in the map.
NoNullDereference ==
  /\ \A id \in RecorderIds :
       Active(id) => recorders[id].process \in Pids /\ recorders[id].client = "registered"
  /\ svc.pc \notin {"loop", "close.reap"} => Exists(svc.id)
  /\ svc.pc \in {"start.camera", "start.format", "start.load"} =>
       recorders[svc.id].process # NoProcess /\ recorders[svc.id].client # "null"
  /\ svc.pc \in {"stop.call", "pause.call", "resume.call"} => Active(svc.id)

\* The Process objects that exist, by who owns them, and the children not reaped.
Owners == {id \in RecorderIds : Exists(id) /\ recorders[id].process # NoProcess}
            \cup (IF svc.local = NoProcess THEN {} ELSE {NoId})
Children == {p \in Pids : proc[p] # "none"}

\* wait() takes any child, so the objects and the children only match in number:
\* there is never a child too many, and none is missing unless a fork failed, so
\* that no wait() fails with ECHILD and no zombie outlives the last object.
ProcessBalance ==
  /\ Cardinality(Children) <= Cardinality(Owners)
  /\ "forkFail" \notin Env => Cardinality(Children) = Cardinality(Owners)

\* Two recorders, or a recorder and its snapshot, never talk to one child.
OwnChild ==
  \A id \in RecorderIds : Exists(id) /\ recorders[id].process \in Pids =>
    /\ recorders[id].process # svc.local
    /\ \A other \in RecorderIds \ {id} :
         Exists(other) => recorders[other].process # recorders[id].process

\* Between requests the state of a recorder is that of its pipeline, although it
\* only ever follows replies; for surroundings in which no call is lost.
StateMatchesPipeline ==
  svc.pc = "loop" => \A id \in RecorderIds : Active(id) =>
    proc[recorders[id].process] =
      IF recorders[id].state = "RECORDING" THEN "loaded" ELSE "paused"

\* A recorder that is recording was told so by its own child, however late replies
\* come, whatever fails and whatever dies: that child has handled its start.
RecordingWasStarted ==
  \A id \in RecorderIds : Active(id) => proc[recorders[id].process] # "idle"

\* wait() returns the child of the Process object being destroyed, so that a stop
\* is answered when its own pipeline has ended; for children that end only when
\* they are told to.
ReapsOwn ==
  [][\A p \in Pids : proc[p] = "exited" /\ proc'[p] = "none" => svc.local = p]_vars

\* Every request taken is answered: the one thread of the service is never left
\* in a wait() for a child that does not end.
Answered == svc.pc # "loop" ~> svc.pc = "loop"

\* wait() is called only when the child of the Process object being destroyed ends: it
\* was told to stop and has said so, or it is a snapshot and takes its picture.  What
\* keeps the one thread from hanging; for surroundings in which a start succeeds.
WaitEnds ==
  svc.pc \in ReapPcs =>
    svc.local \in Pids /\ proc[svc.local] \in {"capturing", "quitting", "exited"}

\* A child that ends by itself: its main loop has quit, or it takes a picture or will.
EndsByItself(p) ==
  \/ proc[p] \in {"capturing", "quitting"}
  \/ proc[p] = "idle" /\ inbox[p] # << >> /\ Head(inbox[p]) = "capture"

\* Where WaitEnds fails, whatever the surroundings do, it is for one of these: a recorder
\* is replaced by another of its id; a start failed, or its reply was lost, and its child
\* goes with the recorder or at the next start; stop was answered true by a child that had
\* loaded nothing; a snapshot was not told to start, its subscription refused, or started
\* nothing.  No other handler waits for a child that was not told to end.
WaitHasReason ==
  svc.pc \in ReapPcs /\ Alive(svc.local) /\ ~EndsByItself(svc.local) =>
    \/ svc.pc = "open.reap"
    \/ svc.pc \in {"start.reap", "close.reap"} /\ proc[svc.local] \in {"idle", "empty", "loaded"}
    \/ svc.pc = "stop.reap" /\ proc[svc.local] = "empty"
    \/ /\ svc.pc = "snapshot.reap"
       /\ IF svc.err = "ERR_NONE"
          THEN \/ proc[svc.local] = "empty"
               \/ inbox[svc.local] # << >> /\ Head(inbox[svc.local]) = "empty"
          ELSE proc[svc.local] = "idle" /\ inbox[svc.local] = << >>

\* pause and resume are sent only to a pipeline that has been loaded.
SwitchReachesLoaded ==
  \A p \in Pids : proc[p] \in NotLoaded /\ inbox[p] # << >> =>
    Head(inbox[p]) \notin {"pause", "resume"}

\* A snapshot that was given up is answered with a failure.
GivenUpSnapshotFails ==
  [][svc.pc = "snapshot.stop" /\ svc'.pc = "snapshot.reap" =>
       svc'.err = "ERR_SNAPSHOT_CAPTURE_FAILED"]_vars

-----------------------------------------------------------------------------
\* The service implements RecorderContract, whatever its surroundings do.

Phase == [id \in RecorderIds |-> IF Exists(id) THEN recorders[id].state ELSE "absent"]

Op ==
  CASE svc.pc = "loop" -> "none"
    [] svc.pc = "open.reap" -> "open"
    [] svc.pc = "close.reap" -> "close"
    [] svc.pc \in {"start.reap", "start.client", "start.camera", "start.format",
                   "start.load"} -> "start"
    [] svc.pc \in {"stop.call", "stop.reap"} -> "stop"
    [] svc.pc = "pause.call" -> "pause"
    [] svc.pc = "resume.call" -> "resume"
    [] OTHER -> "takeSnapshot"

Contract == INSTANCE RecorderContract WITH
  phase <- Phase, op <- Op, serving <- svc.id

\* A request is answered true only if it did what it asks for, a failed start,
\* pause, resume or stop leaves the state as it was, and no handler touches a
\* recorder other than its own, across all the blocking parts of the handlers.
ImplementsContract == Contract!Spec
=============================================================================
