------------------------- MODULE RecorderServiceProofs -------------------------
(***************************************************************************)
(* Theorems about RecorderService, for every set of recorder ids and pids  *)
(* and whatever the surroundings do.                                       *)
(***************************************************************************)
EXTENDS RecorderService, FiniteSetTheorems, TLAPS

-----------------------------------------------------------------------------
\* The inductive invariant behind TypeOK and NoNullDereference.

SnapshotPcs == {"snapshot.subscribe", "snapshot.load", "snapshot.eos", "snapshot.stop"}

\* What the handler in progress works on, and when it owns a Process object.
HandlerInv ==
  /\ svc.pc = "loop" => svc = Loop
  /\ svc.pc # "loop" => svc.id \in RecorderIds
  /\ svc.pc \notin {"loop", "close.reap"} => Exists(svc.id)
  /\ svc.local # NoProcess <=> svc.pc \in ReapPcs \cup SnapshotPcs

\* start works on a recorder that is open and has its new Process object, and gets
\* a true reply only over a client with a name, from a child; stop waits when the
\* recorder is open again.
StartPcs == {"start.reap", "start.client", "start.camera", "start.format", "start.load"}
StageInv ==
  /\ svc.pc \in StartPcs =>
       recorders[svc.id].state = "OPEN" /\ recorders[svc.id].process # NoProcess
  /\ svc.pc = "start.load" =>
       /\ recorders[svc.id].client # "registered" => resp = "unparsable"
       /\ recorders[svc.id].process \notin Pids => resp # "true"
  /\ svc.pc = "stop.reap" => recorders[svc.id].state = "OPEN"

IInv == TypeOK /\ HandlerInv /\ StageInv /\ NoNullDereference

\* callSync puts one more call into an inbox, or none.
LEMMA SendType ==
  ASSUME TypeOK, NEW client, NEW h, NEW call \in Calls, Send(client, h, call)
  PROVE  /\ inbox' \in [Pids -> Seq(Calls)]
         /\ resp' = "unparsable" \/ (resp' = "none" /\ client # "unregistered")
<1>1. CASE client = "unregistered"
  BY <1>1 DEF Send, TypeOK
<1>2. CASE client # "unregistered"
  <2>1. ASSUME h \in Pids PROVE Append(inbox[h], call) \in Seq(Calls)
    BY <2>1 DEF TypeOK
  <2>2. /\ resp' = "none"
        /\ inbox' = inbox \/ (h \in Pids /\ inbox' = [inbox EXCEPT ![h] = Append(inbox[h], call)])
    BY <1>2 DEF Send, Alive
  <2>3. inbox \in [Pids -> Seq(Calls)]
    BY DEF TypeOK
  <2>4. QED
    BY <1>2, <2>1, <2>2, <2>3
<1>3. QED
  BY <1>1, <1>2

\* There is no recorder and no handler at work yet.
LEMMA InitIInv == Init => IInv
<1> SUFFICES ASSUME Init PROVE IInv
  OBVIOUS
<1>1. TypeOK
  BY ConstantsAssumption DEF Init, TypeOK, Loop, Service, ProcStates, Handles
<1>2. HandlerInv /\ StageInv /\ NoNullDereference
  BY ConstantsAssumption
  DEF Init, HandlerInv, StageInv, StartPcs, NoNullDereference, Loop, Active, Exists, ReapPcs, SnapshotPcs
<1>3. QED
  BY <1>1, <1>2 DEF IInv

\* The steps of the children, the camera service and the bus leave the recorders
\* and the handler alone.
LEMMA OutsideIInv == IInv /\ (Bus \/ \E p \in Pids : Child(p)) => IInv'
<1> SUFFICES ASSUME IInv, Bus \/ \E p \in Pids : Child(p) PROVE IInv'
  OBVIOUS
<1> USE DEF IInv
<1>1. CASE Bus
  <2>1. /\ UNCHANGED <<recorders, svc, returnValue, proc, inbox>>
        /\ resp = "none" /\ svc.pc \in CallPcs
        /\ resp' \in {"true", "false", "unparsable"}
        /\ svc.pc # "start.camera" => resp' # "true"
    BY <1>1 DEF Bus, CameraReply, BusError, CallTimeout, Waiting
  <2>2. TypeOK'
    BY <2>1 DEF TypeOK
  <2>3. HandlerInv' /\ NoNullDereference'
    BY <2>1 DEF HandlerInv, NoNullDereference, Active, Exists
  <2>4. StageInv'
    BY <2>1 DEF StageInv, StartPcs
  <2>5. QED
    BY <2>2, <2>3, <2>4
<1>2. ASSUME NEW p \in Pids, Child(p) PROVE IInv'
  <2>1. UNCHANGED <<recorders, svc, returnValue>>
    BY <1>2 DEF Child, ChildHandle, ChildEos, ChildExit, ChildCrash, End
  <2>2. /\ \/ resp' = resp
           \/ /\ Callee = p /\ resp = "none" /\ resp' \in {"true", "false"}
        /\ proc' \in [Pids -> ProcStates]
        /\ inbox' \in [Pids -> Seq(Calls)]
    <3>1. CASE ChildHandle(p)
      <4>1. inbox' \in [Pids -> Seq(Calls)]
        BY <3>1 DEF ChildHandle, TypeOK
      <4>2. proc' \in [Pids -> ProcStates]
        BY <3>1 DEF ChildHandle, ChildStart, ChildStop, ChildSwitch, TypeOK, ProcStates, Running, NotLoaded
      <4>3. resp' = resp \/ (Callee = p /\ resp = "none" /\ resp' \in {"true", "false"})
        BY <3>1 DEF ChildHandle, ChildStart, ChildStop, ChildSwitch, Reply
      <4>4. QED
        BY <4>1, <4>2, <4>3
    <3>2. CASE ChildEos(p)
      BY <3>2 DEF ChildEos, TypeOK, ProcStates, Running, NotLoaded
    <3>3. CASE ChildExit(p) \/ ChildCrash(p)
      <4>1. End(p)
        BY <3>3 DEF ChildExit, ChildCrash
      <4>2. proc' \in [Pids -> ProcStates]
        BY <4>1 DEF End, TypeOK, ProcStates
      <4>3. inbox' \in [Pids -> Seq(Calls)]
        <5>1. << >> \in Seq(Calls)
          OBVIOUS
        <5>2. QED
          BY <4>1, <5>1 DEF End, TypeOK
      <4>4. QED
        BY <4>1, <4>2, <4>3 DEF End
    <3>4. QED
      BY <1>2, <3>1, <3>2, <3>3 DEF Child
  <2>3. TypeOK'
    BY <2>1, <2>2 DEF TypeOK
  <2>4. HandlerInv' /\ NoNullDereference'
    BY <2>1 DEF HandlerInv, NoNullDereference, Active, Exists
  <2>5. StageInv'
    <3>1. svc.pc = "start.load" => Callee = recorders[svc.id].process
      BY DEF Callee, CallPcs
    <3>2. QED
      BY <2>1, <2>2, <3>1 DEF StageInv, StartPcs
  <2>6. QED
    BY <2>3, <2>4, <2>5
<1>3. QED
  BY <1>1, <1>2

\* The requests.
LEMMA RequestIInv == IInv /\ Request => IInv'
<1> SUFFICES ASSUME IInv, Request PROVE IInv'
  OBVIOUS
<1> USE DEF IInv
<1>1. svc = Loop
  BY DEF HandlerInv, Request, RejectRequest, HandleOpen, HandleClose, HandleSetOutputFile,
    HandleSetOutputFormat, HandleSetVideoFormat, HandleSetAudioFormat, HandleStart, HandleStop,
    HandlePause, HandleResume, Forward, HandleTakeSnapshot, Serve
<1>2. ASSUME UNCHANGED <<recorders, resp, proc, inbox>>, NEW code, Answer(code)
      PROVE  IInv'
  BY <1>1, <1>2 DEF Answer, Loop, TypeOK, HandlerInv, StageInv, StartPcs, NoNullDereference, Active, Exists,
    ReapPcs, SnapshotPcs
<1>3. CASE RejectRequest
  BY <1>2, <1>3 DEF RejectRequest
<1>a. ASSUME NEW id \in RecorderIds, Exists(id)
      PROVE  recorders[id] \in Recorder
  BY <1>a DEF TypeOK, Exists
<1>4. ASSUME NEW id \in RecorderIds, HandleOpen(id) PROVE IInv'
  <2>1. PICK video \in BOOLEAN, audio \in BOOLEAN :
          IF ~video /\ ~audio
          THEN Answer("ERR_SOURCE_NOT_SPECIFIED") /\ UNCHANGED recorders
          ELSE /\ recorders' = [recorders EXCEPT ![id] = OpenRecorder(video)]
               /\ Destroy("open.reap", id,
                          IF Exists(id) THEN recorders[id].process ELSE NoProcess)
    BY <1>4 DEF HandleOpen
  <2>2. UNCHANGED <<resp, proc, inbox>>
    BY <1>4 DEF HandleOpen
  <2>3. CASE ~video /\ ~audio
    BY <1>2, <2>1, <2>2, <2>3
  <2>4. CASE video \/ audio
    <3>1. /\ OpenRecorder(video) \in Recorder
          /\ OpenRecorder(video).state = "OPEN"
      BY DEF OpenRecorder, Recorder, Handles
    <3> DEFINE old == IF Exists(id) THEN recorders[id].process ELSE NoProcess
    <3>2. old \in Handles
      BY <1>a DEF Recorder, Handles
    <3>3. /\ recorders' = [recorders EXCEPT ![id] = OpenRecorder(video)]
          /\ Destroy("open.reap", id, old)
      BY <2>1, <2>4
    <3>4. /\ svc' = Loop /\ returnValue' = "true"
          \/ /\ old # NoProcess /\ returnValue' = "none"
             /\ svc' = [pc |-> "open.reap", id |-> id, local |-> old, err |-> "ERR_NONE"]
      BY <3>3 DEF Destroy, Answer, Enter
    <3> HIDE DEF old
    <3>5. TypeOK'
      BY <2>2, <3>1, <3>2, <3>3, <3>4 DEF TypeOK, Loop, Service, ReapPcs, Handles
    <3>6. HandlerInv'
      BY <3>1, <3>3, <3>4, ConstantsAssumption
      DEF HandlerInv, TypeOK, Loop, Exists, ReapPcs, SnapshotPcs
    <3>7. StageInv' /\ NoNullDereference'
      BY <3>1, <3>3, <3>4, ConstantsAssumption
      DEF StageInv, StartPcs, NoNullDereference, HandlerInv, TypeOK, Loop, Active, Exists
    <3>8. QED
      BY <3>5, <3>6, <3>7
  <2>5. QED
    BY <2>3, <2>4
<1>5. ASSUME NEW id \in RecorderIds, HandleClose(id) PROVE IInv'
  <2>1. Exists(id) /\ recorders[id] \in Recorder /\ UNCHANGED <<resp, proc, inbox>>
    BY <1>a, <1>5 DEF HandleClose, Serve
  <2>2. CASE ~CloseRecorder(id)
    BY <1>2, <1>5, <2>1, <2>2 DEF HandleClose
  <2>3. CASE CloseRecorder(id)
    <3> DEFINE old == recorders[id].process
    <3>1. old \in Handles
      BY <2>1 DEF Recorder
    <3>2. /\ recorders' = [recorders EXCEPT ![id] = NoRecorder]
          /\ Destroy("close.reap", id, old)
      BY <1>5, <2>3 DEF HandleClose
    <3>3. \/ svc' = Loop /\ returnValue' = "true"
          \/ /\ old # NoProcess /\ returnValue' = "none"
             /\ svc' = [pc |-> "close.reap", id |-> id, local |-> old, err |-> "ERR_NONE"]
      BY <3>2 DEF Destroy, Answer, Enter
    <3> HIDE DEF old
    <3>4. TypeOK'
      BY <2>1, <3>1, <3>2, <3>3 DEF TypeOK, Loop, Service, ReapPcs, Handles
    <3>5. HandlerInv'
      BY <3>2, <3>3 DEF HandlerInv, Loop, ReapPcs, SnapshotPcs
    <3>6. StageInv' /\ NoNullDereference'
      BY <3>2, <3>3 DEF StageInv, StartPcs, NoNullDereference, TypeOK, Loop, Active, Exists
    <3>7. QED
      BY <3>4, <3>5, <3>6
  <2>4. QED
    BY <2>2, <2>3
<1>6. ASSUME NEW id \in RecorderIds, HandleSetOutputFile(id) PROVE IInv'
  BY <1>2, <1>6 DEF HandleSetOutputFile, SetOutputFile, Refuse
<1>7. ASSUME NEW id \in RecorderIds, HandleSetOutputFormat(id) PROVE IInv'
  <2>1. Exists(id) /\ recorders[id] \in Recorder /\ UNCHANGED <<resp, proc, inbox>>
    BY <1>a, <1>7 DEF HandleSetOutputFormat, Serve
  <2>2. CASE UNCHANGED recorders
    BY <1>2, <1>7, <2>1, <2>2 DEF HandleSetOutputFormat, SetOutputFormat, Refuse
  <2>3. ASSUME NEW format \in {"supported", "unsupported", "empty"}, SetOutputFormat(id, format)
        PROVE  IInv'
    <3> DEFINE r == [recorders[id] EXCEPT !.badFormat = (format = "unsupported")]
    <3>1. recorders' = [recorders EXCEPT ![id] = r]
      BY <2>3 DEF SetOutputFormat
    <3>2. /\ r \in Recorder /\ r.state = recorders[id].state
          /\ r.process = recorders[id].process /\ r.client = recorders[id].client
      BY <2>1 DEF Recorder
    <3>3. svc' = Loop /\ returnValue' \in {"true", "false"}
      BY <2>3 DEF SetOutputFormat, Answer
    <3> HIDE DEF r
    <3>4. TypeOK' /\ HandlerInv' /\ StageInv'
      BY <2>1, <3>1, <3>2, <3>3, <1>1 DEF TypeOK, Loop, HandlerInv, StageInv, StartPcs, ReapPcs, SnapshotPcs
    <3>5. NoNullDereference'
      BY <2>1, <3>1, <3>2, <3>3, ConstantsAssumption
      DEF TypeOK, Loop, NoNullDereference, Active, Exists
    <3>6. QED
      BY <3>4, <3>5
  <2>4. QED
    BY <1>7, <2>2, <2>3 DEF HandleSetOutputFormat
<1>8. ASSUME NEW id \in RecorderIds, HandleSetVideoFormat(id) PROVE IInv'
  BY <1>2, <1>8 DEF HandleSetVideoFormat, SetVideoFormat, Refuse
<1>9. ASSUME NEW id \in RecorderIds, HandleSetAudioFormat(id) PROVE IInv'
  BY <1>2, <1>9 DEF HandleSetAudioFormat, SetAudioFormat, Refuse
<1>10. ASSUME NEW id \in RecorderIds, HandleStart(id) PROVE IInv'
  <2>1. Exists(id) /\ recorders[id] \in Recorder /\ UNCHANGED <<resp, inbox>>
    BY <1>a, <1>10 DEF HandleStart, Serve
  <2>2. CASE Refuse(id, {"OPEN"}) /\ UNCHANGED <<recorders, proc>>
    BY <1>2, <2>1, <2>2 DEF Refuse
  <2>3. ASSUME recorders[id].state = "OPEN", NEW h \in Handles, Fork(h),
               recorders' = [recorders EXCEPT ![id].process = h],
               LET old == recorders[id].process
               IN Enter(IF old = NoProcess THEN "start.client" ELSE "start.reap", id, old)
        PROVE  IInv'
    <3> DEFINE r == [recorders[id] EXCEPT !.process = h]
               old == recorders[id].process
    <3>1. recorders' = [recorders EXCEPT ![id] = r]
      BY <2>3
    <3>2. /\ r \in Recorder /\ r.state = "OPEN"
          /\ r.process = h /\ r.client = recorders[id].client
      BY <2>1, <2>3 DEF Recorder
    <3>3. /\ svc' = [pc |-> IF old = NoProcess THEN "start.client" ELSE "start.reap",
                    id |-> id, local |-> old, err |-> "ERR_NONE"]
          /\ returnValue' = "none"
      BY <2>3 DEF Enter
    <3>4. old \in Handles
      BY <2>1 DEF Recorder
    <3>5. proc' \in [Pids -> ProcStates]
      BY <2>3 DEF Fork, FreePids, TypeOK, ProcStates, Running, NotLoaded
    <3>a. h # NoProcess
      BY <2>3, ConstantsAssumption DEF Fork, FreePids
    <3> HIDE DEF r, old
    <3>6. TypeOK'
      BY <2>1, <3>1, <3>2, <3>3, <3>4, <3>5 DEF TypeOK, Service, ReapPcs, OtherPcs, Handles
    <3>7. HandlerInv' /\ StageInv'
      BY <3>1, <3>2, <3>3, <3>a, ConstantsAssumption
      DEF TypeOK, HandlerInv, StageInv, StartPcs, Exists, ReapPcs, SnapshotPcs
    <3>8. NoNullDereference'
      BY <2>1, <3>1, <3>2, <3>3, ConstantsAssumption
      DEF TypeOK, NoNullDereference, Active, Exists
    <3>9. QED
      BY <3>6, <3>7, <3>8
  <2>4. QED
    BY <1>10, <2>2, <2>3 DEF HandleStart
<1>11. ASSUME NEW id \in RecorderIds, HandleStop(id) \/ HandlePause(id) \/ HandleResume(id)
       PROVE  IInv'
  <2>1. PICK states \in SUBSET {"RECORDING", "PAUSE"}, call \in Calls,
             pc \in {"stop.call", "pause.call", "resume.call"} : Forward(id, states, call, pc)
    BY <1>11 DEF HandleStop, HandlePause, HandleResume, Calls
  <2>2. Exists(id) /\ recorders[id] \in Recorder /\ UNCHANGED <<recorders, proc>>
    BY <1>a, <2>1 DEF Forward, Serve
  <2>3. CASE Refuse(id, states) /\ UNCHANGED <<resp, inbox>>
    BY <1>2, <2>2, <2>3 DEF Refuse
  <2>4. CASE /\ recorders[id].state \in states /\ Enter(pc, id, NoProcess)
             /\ Send(recorders[id].client, recorders[id].process, call)
    <3>1. /\ svc' = [pc |-> pc, id |-> id, local |-> NoProcess, err |-> "ERR_NONE"]
          /\ returnValue' = "none" /\ Active(id)
      BY <2>2, <2>4 DEF Enter, Active
    <3>2. inbox' \in [Pids -> Seq(Calls)] /\ resp' \in {"none", "unparsable"}
      BY <2>4, SendType
    <3>3. TypeOK'
      BY <2>2, <3>1, <3>2 DEF TypeOK, Service, CallPcs, Handles
    <3>4. HandlerInv' /\ StageInv' /\ NoNullDereference'
      BY <2>2, <3>1 DEF HandlerInv, StageInv, StartPcs, NoNullDereference, Active, Exists, ReapPcs, SnapshotPcs
    <3>5. QED
      BY <3>3, <3>4
  <2>5. QED
    BY <2>1, <2>3, <2>4 DEF Forward
<1>12. ASSUME NEW id \in RecorderIds, HandleTakeSnapshot(id) PROVE IInv'
  <2>1. Exists(id) /\ UNCHANGED <<recorders, resp, inbox>>
    BY <1>12 DEF HandleTakeSnapshot, Serve
  <2>2. CASE RefuseSnapshot(id) /\ UNCHANGED proc
    BY <1>2, <2>1, <2>2 DEF RefuseSnapshot, Refuse
  <2>3. ASSUME NEW h \in Handles, Fork(h), Enter("snapshot.subscribe", id, h) PROVE IInv'
    <3>1. /\ svc' = [pc |-> "snapshot.subscribe", id |-> id, local |-> h, err |-> "ERR_NONE"]
          /\ returnValue' = "none" /\ h # NoProcess
      BY <2>3, ConstantsAssumption DEF Enter, Fork, FreePids
    <3>2. proc' \in [Pids -> ProcStates]
      BY <2>3 DEF Fork, FreePids, TypeOK, ProcStates, Running, NotLoaded
    <3>3. TypeOK'
      BY <2>1, <3>1, <3>2 DEF TypeOK, Service, OtherPcs
    <3>4. HandlerInv' /\ StageInv' /\ NoNullDereference'
      BY <2>1, <3>1 DEF HandlerInv, StageInv, StartPcs, NoNullDereference, Active, Exists, ReapPcs, SnapshotPcs
    <3>5. QED
      BY <3>3, <3>4
  <2>4. QED
    BY <1>12, <2>2, <2>3 DEF HandleTakeSnapshot
<1>13. QED
  BY <1>3, <1>4, <1>5, <1>6, <1>7, <1>8, <1>9, <1>10, <1>11, <1>12 DEF Request

\* The steps of a handler once a blocking call has returned.
LEMMA ContinueIInv == IInv /\ Continue => IInv'
<1> SUFFICES ASSUME IInv, Continue PROVE IInv'
  OBVIOUS
<1> USE DEF IInv
<1>1. svc.pc # "loop" /\ svc \in Service /\ svc.id \in RecorderIds
  BY DEF HandlerInv, TypeOK, Continue, StartClient, StartCamera, StartFormat, StartLoad, StopCall,
    PauseCall, ResumeCall, Switch, SnapshotSubscribe, SnapshotLoad, SnapshotEos, SnapshotGiveUp,
    SnapshotStop, Reap, ReapNothing, ReapPcs
<1>2. svc.pc # "close.reap" => Exists(svc.id) /\ Here \in Recorder
  BY <1>1 DEF HandlerInv, Exists, Here, TypeOK
<1>3. ASSUME UNCHANGED recorders, svc' = Loop, returnValue' \in {"true", "false"},
             resp' \in {"none", "true", "false", "unparsable"},
             proc' \in [Pids -> ProcStates], inbox' \in [Pids -> Seq(Calls)]
      PROVE  IInv'
  BY <1>3 DEF Loop, TypeOK, HandlerInv, StageInv, StartPcs, NoNullDereference, Active, Exists, Service, Handles,
    ReapPcs, SnapshotPcs
<1>4. ASSUME NEW r \in Recorder, recorders' = [recorders EXCEPT ![svc.id] = r], svc' = Loop,
             r.state # "OPEN" => r.process \in Pids /\ r.client = "registered",
             returnValue' \in {"true", "false"}, UNCHANGED inbox,
             resp' \in {"none", "true", "false", "unparsable"}, proc' \in [Pids -> ProcStates]
      PROVE  IInv'
  BY <1>1, <1>4, ConstantsAssumption
  DEF Loop, TypeOK, HandlerInv, StageInv, StartPcs, NoNullDereference, Active, Exists, Service, Handles,
    ReapPcs, SnapshotPcs
<1>b. \A code : Answer(code) => svc' = Loop /\ returnValue' \in {"true", "false"}
  BY DEF Answer
<1>c. /\ resp \in {"none", "true", "false", "unparsable"}
      /\ proc \in [Pids -> ProcStates] /\ inbox \in [Pids -> Seq(Calls)]
  BY DEF TypeOK
<1>5. CASE StartClient
  <2> DEFINE client == IF Here.client = "registered" THEN "unregistered" ELSE "registered"
             r == [Here EXCEPT !.client = client]
  <2>1. /\ svc.pc = "start.client" /\ Exists(svc.id) /\ Here \in Recorder
        /\ UNCHANGED <<returnValue, proc, inbox>>
        /\ recorders' = [recorders EXCEPT ![svc.id] = r]
    BY <1>2, <1>5 DEF StartClient, Here, Goto, HandlerInv
  <2>2. /\ r \in Recorder /\ r.state = Here.state /\ r.process = Here.process
        /\ r.client = client /\ client \in {"registered", "unregistered"}
    BY <2>1 DEF Recorder
  <2>3. /\ svc' \in {[svc EXCEPT !.pc = "start.camera"], [svc EXCEPT !.pc = "start.format"]}
        /\ resp' \in {"none", "true", "false", "unparsable"}
    BY <1>5, <1>c DEF StartClient, Goto
  <2> HIDE DEF client, r
  <2>4. Here.state = "OPEN" /\ Here.process # NoProcess
    BY <2>1 DEF StageInv, StartPcs, Here
  <2>5. TypeOK'
    BY <1>1, <2>1, <2>2, <2>3 DEF TypeOK, Service, CallPcs, OtherPcs
  <2>6. HandlerInv' /\ StageInv' /\ NoNullDereference'
    BY <1>1, <2>1, <2>2, <2>3, <2>4, ConstantsAssumption
    DEF Here, Service, TypeOK, HandlerInv, StageInv, StartPcs, NoNullDereference, Active, Exists,
      ReapPcs, SnapshotPcs
  <2>7. QED
    BY <2>5, <2>6
<1>6. CASE StartCamera
  <2>1. /\ svc.pc = "start.camera" /\ Exists(svc.id)
        /\ UNCHANGED <<recorders, proc, inbox>> /\ resp' = "none"
    BY <1>2, <1>6 DEF StartCamera
  <2>2. CASE Goto("start.format")
    <3>1. TypeOK'
      BY <1>1, <2>1, <2>2 DEF Goto, TypeOK, Service, OtherPcs
    <3>2. HandlerInv' /\ StageInv' /\ NoNullDereference'
      BY <1>1, <2>1, <2>2 DEF Goto, Service, HandlerInv, StageInv, StartPcs, NoNullDereference,
        Active, Exists, ReapPcs, SnapshotPcs
    <3>3. QED
      BY <3>1, <3>2
  <2>3. CASE \E code : Answer(code)
    BY <1>3, <1>b, <1>c, <2>1, <2>3
  <2>4. QED
    BY <1>6, <2>2, <2>3 DEF StartCamera
<1>7. CASE StartFormat
  <2>1. /\ svc.pc = "start.format" /\ Exists(svc.id) /\ Here \in Recorder
        /\ UNCHANGED <<recorders, proc>>
    BY <1>2, <1>7 DEF StartFormat
  <2>2. CASE Here.badFormat
    BY <1>3, <1>7, <1>b, <1>c, <2>1, <2>2 DEF StartFormat
  <2>3. CASE Goto("start.load") /\ Send(Here.client, Here.process, "load")
    <3>1. /\ inbox' \in [Pids -> Seq(Calls)]
          /\ resp' = "unparsable" \/ (resp' = "none" /\ Here.client # "unregistered")
      BY <2>3, SendType DEF Calls
    <3>2. Here.client # "null"
      BY <2>1 DEF NoNullDereference, Here
    <3>3. TypeOK'
      BY <1>1, <2>1, <2>3, <3>1 DEF Goto, TypeOK, Service, CallPcs
    <3>4. HandlerInv' /\ StageInv' /\ NoNullDereference'
      BY <1>1, <2>1, <2>3, <3>1, <3>2 DEF Goto, Service, HandlerInv, StageInv, StartPcs,
        NoNullDereference, Active, Exists, ReapPcs, SnapshotPcs, Here, Recorder
    <3>5. QED
      BY <3>3, <3>4
  <2>4. QED
    BY <1>7, <2>2, <2>3 DEF StartFormat
<1>8. CASE StartLoad
  <2>1. /\ svc.pc = "start.load" /\ Here \in Recorder
        /\ UNCHANGED <<proc, inbox>> /\ resp' = "none"
    BY <1>2, <1>8 DEF StartLoad
  <2>2. CASE resp # "true"
    BY <1>3, <1>8, <1>b, <1>c, <2>1, <2>2 DEF StartLoad
  <2>3. CASE resp = "true"
    <3> DEFINE r == [Here EXCEPT !.state = "RECORDING"]
    <3>1. /\ recorders' = [recorders EXCEPT ![svc.id] = r]
          /\ svc' = Loop /\ returnValue' \in {"true", "false"}
      BY <1>8, <1>b, <2>3 DEF StartLoad, Here
    <3>2. Here.process \in Pids /\ Here.client = "registered"
      BY <2>1, <2>3 DEF StageInv, Here
    <3>3. r \in Recorder /\ r.process \in Pids /\ r.client = "registered"
      BY <2>1, <3>2 DEF Recorder
    <3> HIDE DEF r
    <3>4. QED
      BY <1>4, <1>c, <2>1, <3>1, <3>3
  <2>4. QED
    BY <2>2, <2>3
<1>9. CASE StopCall
  <2>1. /\ svc.pc = "stop.call" /\ Exists(svc.id) /\ Here \in Recorder /\ Active(svc.id)
        /\ UNCHANGED <<proc, inbox>> /\ resp' = "none"
    BY <1>2, <1>9 DEF StopCall, NoNullDereference
  <2>2. CASE resp # "true"
    BY <1>3, <1>9, <1>b, <1>c, <2>1, <2>2 DEF StopCall
  <2>3. CASE resp = "true"
    <3> DEFINE r == [Here EXCEPT !.state = "OPEN", !.process = NoProcess]
    <3>1. /\ recorders' = [recorders EXCEPT ![svc.id] = r] /\ returnValue' = "none"
          /\ svc' = [pc |-> "stop.reap", id |-> svc.id, local |-> Here.process, err |-> "ERR_NONE"]
      BY <1>9, <2>1, <2>3 DEF StopCall, Here, Enter, TypeOK
    <3>2. Here.process \in Pids
      BY <1>1, <2>1 DEF NoNullDereference, Here
    <3>3. r \in Recorder /\ r.state = "OPEN"
      BY <2>1 DEF Recorder, Handles
    <3> HIDE DEF r
    <3>4. TypeOK'
      BY <1>1, <2>1, <3>1, <3>2, <3>3 DEF TypeOK, Service, ReapPcs, Handles
    <3>5. HandlerInv' /\ StageInv' /\ NoNullDereference'
      BY <1>1, <2>1, <3>1, <3>2, <3>3, ConstantsAssumption
      DEF TypeOK, HandlerInv, StageInv, StartPcs, NoNullDereference, Active, Exists,
        ReapPcs, SnapshotPcs
    <3>6. QED
      BY <3>4, <3>5
  <2>4. QED
    BY <2>2, <2>3
<1>10. ASSUME NEW state \in {"RECORDING", "PAUSE"}, NEW failure,
              NEW pc \in {"pause.call", "resume.call"}, Switch(pc, state, failure)
       PROVE  IInv'
  <2>1.   /\ svc.pc \in {"pause.call", "resume.call"} /\ resp # "none"
          /\ \/ /\ resp = "true"
                /\ recorders' = [recorders EXCEPT ![svc.id].state = state]
                /\ Answer("ERR_NONE")
             \/ resp # "true" /\ Answer(failure) /\ UNCHANGED recorders
          /\ resp' = "none"
          /\ UNCHANGED <<proc, inbox>>
    BY <1>10 DEF Switch
  <2>2. CASE resp # "true"
    BY <1>3, <1>b, <1>c, <2>1, <2>2
  <2>3. CASE resp = "true"
    <3> DEFINE r == [Here EXCEPT !.state = state]
    <3>1. /\ recorders' = [recorders EXCEPT ![svc.id] = r]
          /\ svc' = Loop /\ returnValue' \in {"true", "false"}
      BY <1>b, <2>1, <2>3 DEF Here
    <3>2. Here.process \in Pids /\ Here.client = "registered" /\ Here \in Recorder
      BY <1>1, <1>2, <2>1 DEF NoNullDereference, Here
    <3>3. r \in Recorder /\ r.process \in Pids /\ r.client = "registered"
      BY <3>2 DEF Recorder
    <3> HIDE DEF r
    <3>4. QED
      BY <1>4, <1>c, <2>1, <3>1, <3>3
  <2>4. QED
    BY <2>2, <2>3
<1>11. CASE SnapshotSubscribe
  <2>1. /\ svc.pc = "snapshot.subscribe" /\ Exists(svc.id)
        /\ UNCHANGED <<recorders, returnValue, proc>>
    BY <1>2, <1>11 DEF SnapshotSubscribe
  <2>2. /\ svc' \in Service /\ svc'.id = svc.id /\ svc'.local = svc.local
        /\ svc'.pc \in {"snapshot.reap", "snapshot.load"}
    BY <1>1, <1>11 DEF SnapshotSubscribe, Service, CallPcs, ReapPcs
  <2>3. inbox' \in [Pids -> Seq(Calls)] /\ resp' \in {"none", "true", "false", "unparsable"}
    BY <1>11, <1>c, SendType DEF SnapshotSubscribe, Calls
  <2>4. TypeOK'
    BY <2>1, <2>2, <2>3 DEF TypeOK
  <2>5. HandlerInv' /\ StageInv' /\ NoNullDereference'
    BY <1>1, <2>1, <2>2 DEF HandlerInv, StageInv, StartPcs, NoNullDereference, Active, Exists,
      ReapPcs, SnapshotPcs
  <2>6. QED
    BY <2>4, <2>5
<1>12. CASE SnapshotLoad \/ SnapshotEos \/ SnapshotStop
  <2>1. /\ svc.pc \in {"snapshot.load", "snapshot.eos", "snapshot.stop"} /\ Exists(svc.id)
        /\ UNCHANGED <<recorders, returnValue, proc, inbox>>
        /\ resp' = resp \/ resp' = "none"
    BY <1>2, <1>12 DEF SnapshotLoad, SnapshotEos, SnapshotStop, Goto
  <2>2. /\ svc' \in Service /\ svc'.id = svc.id /\ svc'.local = svc.local
        /\ svc'.pc \in {"snapshot.eos", "snapshot.reap"}
    BY <1>1, <1>12 DEF SnapshotLoad, SnapshotEos, SnapshotStop, Goto, Service, OtherPcs, ReapPcs
  <2>3. TypeOK'
    BY <2>1, <2>2 DEF TypeOK
  <2>4. HandlerInv' /\ StageInv' /\ NoNullDereference'
    BY <1>1, <2>1, <2>2 DEF HandlerInv, StageInv, StartPcs, NoNullDereference, Active, Exists,
      ReapPcs, SnapshotPcs
  <2>5. QED
    BY <2>3, <2>4
<1>13. CASE SnapshotGiveUp
  <2> DEFINE r == [Here EXCEPT !.lateEos = TRUE]
  <2>1. /\ svc.pc = "snapshot.eos" /\ Exists(svc.id) /\ Here \in Recorder
        /\ recorders' = [recorders EXCEPT ![svc.id] = r] /\ UNCHANGED <<returnValue, proc>>
    BY <1>2, <1>13 DEF SnapshotGiveUp, Here, Goto
  <2>2. /\ svc' \in Service /\ svc'.id = svc.id /\ svc'.local = svc.local
        /\ svc'.pc = "snapshot.stop"
    BY <1>1, <1>13 DEF SnapshotGiveUp, Goto, Service, CallPcs
  <2>3. inbox' \in [Pids -> Seq(Calls)] /\ resp' \in {"none", "true", "false", "unparsable"}
    BY <1>13, SendType DEF SnapshotGiveUp, Calls
  <2>4. /\ r \in Recorder /\ r.state = Here.state /\ r.process = Here.process
        /\ r.client = Here.client
    BY <2>1 DEF Recorder
  <2> HIDE DEF r
  <2>5. TypeOK'
    BY <1>1, <2>1, <2>2, <2>3, <2>4 DEF TypeOK
  <2>6. HandlerInv' /\ StageInv' /\ NoNullDereference'
    BY <1>1, <2>1, <2>2, <2>4, ConstantsAssumption
    DEF TypeOK, HandlerInv, StageInv, StartPcs, NoNullDereference, Active, Exists,
      ReapPcs, SnapshotPcs, Here
  <2>7. QED
    BY <2>5, <2>6
<1>14. CASE ReapNothing \/ \E p \in Pids : Reap(p)
  <2>1. /\ AfterWait /\ UNCHANGED <<resp, inbox>>
        /\ proc' \in [Pids -> ProcStates]
    BY <1>14, <1>c DEF ReapNothing, Reap, ProcStates
  <2>2. CASE svc.pc = "start.reap"
    <3>1. /\ svc' \in Service /\ svc'.id = svc.id /\ svc'.local = NoProcess
          /\ svc'.pc = "start.client" /\ UNCHANGED <<recorders, returnValue>>
      BY <1>1, <2>1, <2>2 DEF AfterWait, Service, OtherPcs, Handles
    <3>2. TypeOK'
      BY <2>1, <3>1 DEF TypeOK
    <3>3. HandlerInv' /\ StageInv' /\ NoNullDereference'
      BY <1>1, <2>2, <3>1 DEF HandlerInv, StageInv, StartPcs, NoNullDereference, Active, Exists,
        ReapPcs, SnapshotPcs
    <3>4. QED
      BY <3>2, <3>3
  <2>3. CASE svc.pc = "stop.reap"
    <3> DEFINE r == [Here EXCEPT !.client = "null"]
    <3>1. /\ recorders' = [recorders EXCEPT ![svc.id] = r] /\ Here \in Recorder
          /\ svc' = Loop /\ returnValue' \in {"true", "false"}
      BY <1>2, <1>b, <2>1, <2>3 DEF AfterWait, Here
    <3>2. Here.state = "OPEN"
      BY <2>3 DEF StageInv, StartPcs, Here
    <3>3. r \in Recorder /\ r.state = "OPEN"
      BY <3>1, <3>2 DEF Recorder
    <3> HIDE DEF r
    <3>4. QED
      BY <1>4, <1>c, <2>1, <3>1, <3>3
  <2>4. CASE svc.pc \in {"open.reap", "close.reap", "snapshot.reap"}
    BY <1>3, <1>b, <1>c, <2>1, <2>4 DEF AfterWait
  <2>5. QED
    BY <2>1, <2>2, <2>3, <2>4 DEF AfterWait
<1>15. QED
  BY <1>5, <1>6, <1>7, <1>8, <1>9, <1>10, <1>11, <1>12, <1>13, <1>14
  DEF Continue, PauseCall, ResumeCall

\* The steps of the handlers, the children and the bus together.
LEMMA NextIInv == IInv /\ [Next]_vars => IInv'
<1> SUFFICES ASSUME IInv, [Next]_vars PROVE IInv'
  OBVIOUS
<1>1. CASE UNCHANGED vars
  BY <1>1 DEF vars, IInv, TypeOK, HandlerInv, StageInv, NoNullDereference, Active, Exists
<1>2. CASE Next
  BY <1>2, RequestIInv, ContinueIInv, OutsideIInv DEF Next
<1>3. QED
  BY <1>1, <1>2

\* The invariant holds in every reachable state.
LEMMA SpecIInv == Spec => []IInv
  BY InitIInv, NextIInv, PTL DEF Spec

\* Every variable keeps its type: no handler ever works on an entry of the map
\* that is not there, on a call that was not made or with a code it has not got.
THEOREM TypeCorrect == Spec => []TypeOK
  BY SpecIInv, PTL DEF IInv

\* stop, pause and resume never go through a null record_client, the blocking
\* parts of a handler always find their recorder, and a recorder that records
\* has a child and a client with a bus name, whatever fails around the service.
THEOREM NullSafe == Spec => []NoNullDereference
  BY SpecIInv, PTL DEF IInv

-----------------------------------------------------------------------------
\* The service implements RecorderContract.

\* A handler at work has not answered, and open and close have nothing to report but
\* success.
AnswerInv ==
  /\ svc.pc # "loop" => returnValue = "none"
  /\ svc.pc \in {"open.reap", "close.reap"} => svc.err = "ERR_NONE"

\* The request a program counter stands for.
LEMMA OpIs ==
  /\ svc.pc = "loop" => Op = "none"
  /\ svc.pc = "open.reap" => Op = "open"
  /\ svc.pc = "close.reap" => Op = "close"
  /\ svc.pc \in StartPcs => Op = "start"
  /\ svc.pc \in {"stop.call", "stop.reap"} => Op = "stop"
  /\ svc.pc = "pause.call" => Op = "pause"
  /\ svc.pc = "resume.call" => Op = "resume"
  /\ svc.pc \in SnapshotPcs \cup {"snapshot.reap"} => Op = "takeSnapshot"
BY DEF Op, StartPcs, SnapshotPcs

LEMMA OpWillBe ==
  /\ svc'.pc = "loop" => Op' = "none"
  /\ svc'.pc = "open.reap" => Op' = "open"
  /\ svc'.pc = "close.reap" => Op' = "close"
  /\ svc'.pc \in StartPcs => Op' = "start"
  /\ svc'.pc \in {"stop.call", "stop.reap"} => Op' = "stop"
  /\ svc'.pc = "pause.call" => Op' = "pause"
  /\ svc'.pc = "resume.call" => Op' = "resume"
  /\ svc'.pc \in SnapshotPcs \cup {"snapshot.reap"} => Op' = "takeSnapshot"
BY DEF Op, StartPcs, SnapshotPcs

\* An entry that is replaced changes only its own phase.
LEMMA PhaseReplaced ==
  ASSUME TypeOK, NEW id \in RecorderIds, NEW r, r \in Recorder \/ r = NoRecorder,
         recorders' = [recorders EXCEPT ![id] = r]
  PROVE  Phase' = [Phase EXCEPT ![id] = IF r = NoRecorder THEN "absent" ELSE r.state]
BY DEF TypeOK, Phase, Exists

LEMMA PhaseKept ==
  ASSUME TypeOK, NEW id \in RecorderIds, Exists(id), NEW r \in Recorder,
         recorders' = [recorders EXCEPT ![id] = r], r.state = recorders[id].state
  PROVE  Phase' = Phase
BY ConstantsAssumption DEF TypeOK, Phase, Exists

LEMMA PhaseOf ==
  ASSUME TypeOK, NEW id \in RecorderIds, Exists(id)
  PROVE  Phase[id] = recorders[id].state
BY DEF TypeOK, Phase

\* An answer of the service is one of the contract.
LEMMA AnswerMaps ==
  ASSUME NEW code, Answer(code)
  PROVE  /\ code = "ERR_NONE" => Contract!Answer("true")
         /\ code # "ERR_NONE" => Contract!Answer("false")
         /\ AnswerInv'
BY OpWillBe DEF Answer, Loop, Contract!Answer, AnswerInv

\* The steps of the children, the camera service and the bus are not seen.
LEMMA OutsideMaps ==
  ASSUME AnswerInv, Bus \/ \E p \in Pids : Child(p)
  PROVE  AnswerInv' /\ UNCHANGED Contract!vars
<1>1. UNCHANGED <<recorders, svc, returnValue>>
  BY DEF Bus, CameraReply, BusError, CallTimeout, Child, ChildHandle, ChildEos, ChildExit, ChildCrash, End
<1>2. Phase' = Phase
  BY <1>1 DEF Phase, Exists
<1>3. Op' = Op
  BY <1>1 DEF Op
<1> QED
  BY <1>1, <1>2, <1>3 DEF AnswerInv, Contract!vars

\* The requests are settled or taken up.
LEMMA RequestMaps ==
  ASSUME IInv, AnswerInv, Request
  PROVE  AnswerInv' /\ Contract!Next
<1>1. svc = Loop
  BY DEF IInv, HandlerInv, Request, RejectRequest, HandleOpen, HandleClose, HandleSetOutputFile,
    HandleSetOutputFormat, HandleSetVideoFormat, HandleSetAudioFormat, HandleStart, HandleStop,
    HandlePause, HandleResume, Forward, HandleTakeSnapshot, Serve
<1>2. TypeOK /\ Op = "none"
  BY <1>1, OpIs DEF IInv, Loop
<1>3. ASSUME Phase' = Phase, NEW code, Answer(code)
      PROVE  AnswerInv' /\ Contract!Next
  BY <1>2, <1>3, AnswerMaps DEF Contract!Next, Contract!Settle
<1>4. ASSUME UNCHANGED recorders
      PROVE  Phase' = Phase
  BY <1>4 DEF Phase, Exists
<1>5. ASSUME NEW id \in RecorderIds, Serve(id)
      PROVE  Exists(id) /\ recorders[id] \in Recorder /\ Phase[id] = recorders[id].state
  BY <1>2, <1>5, PhaseOf DEF Serve, TypeOK, Exists
<1>6. ASSUME NEW pc, NEW id \in RecorderIds, NEW h, Enter(pc, id, h)
      PROVE  AnswerInv' /\ svc'.pc = pc /\ svc'.id = id /\ returnValue' = "none"
  BY <1>6 DEF Enter, AnswerInv
<1>7. CASE RejectRequest
  BY <1>3, <1>4, <1>7 DEF RejectRequest
<1>8. ASSUME NEW id \in RecorderIds, HandleOpen(id)
      PROVE  AnswerInv' /\ Contract!Next
  <2>1. CASE UNCHANGED recorders /\ \E code : Answer(code)
    BY <1>3, <1>4, <2>1
  <2>2. ASSUME NEW video \in BOOLEAN, NEW h,
               recorders' = [recorders EXCEPT ![id] = OpenRecorder(video)],
               Destroy("open.reap", id, h)
        PROVE  AnswerInv' /\ Contract!Next
    <3>1. OpenRecorder(video) \in Recorder /\ OpenRecorder(video).state = "OPEN"
      BY DEF OpenRecorder, Recorder, Handles
    <3>2. Phase' = [Phase EXCEPT ![id] = "OPEN"]
      BY <1>2, <2>2, <3>1, PhaseReplaced, ConstantsAssumption
    <3>3. AnswerInv' /\ (Contract!Answer("true") \/ Contract!Begin("open", id))
      BY <1>6, <2>2, AnswerMaps, OpWillBe DEF Destroy, Contract!Begin
    <3> QED
      BY <1>2, <3>2, <3>3 DEF Contract!Next, Contract!Open
  <2> QED
    BY <1>8, <2>1, <2>2 DEF HandleOpen
<1>9. ASSUME NEW id \in RecorderIds, HandleClose(id)
      PROVE  AnswerInv' /\ Contract!Next
  <2>1. CASE UNCHANGED recorders /\ \E code : Answer(code)
    BY <1>3, <1>4, <2>1
  <2>2. CASE /\ CloseRecorder(id) /\ recorders' = [recorders EXCEPT ![id] = NoRecorder]
             /\ Destroy("close.reap", id, recorders[id].process)
    <3>1. Phase[id] = "OPEN"
      BY <1>5, <1>9, <2>2 DEF HandleClose, CloseRecorder
    <3>2. Phase' = [Phase EXCEPT ![id] = "absent"]
      BY <1>2, <2>2, PhaseReplaced
    <3>3. AnswerInv' /\ (Contract!Answer("true") \/ Contract!Begin("close", id))
      BY <1>6, <2>2, AnswerMaps, OpWillBe DEF Destroy, Contract!Begin
    <3> QED
      BY <1>2, <3>1, <3>2, <3>3 DEF Contract!Next, Contract!Close
  <2> QED
    BY <1>9, <2>1, <2>2 DEF HandleClose
<1>10. ASSUME NEW id \in RecorderIds,
              HandleSetOutputFile(id) \/ HandleSetVideoFormat(id) \/ HandleSetAudioFormat(id)
       PROVE  AnswerInv' /\ Contract!Next
  BY <1>3, <1>4, <1>10 DEF HandleSetOutputFile, SetOutputFile, HandleSetVideoFormat, SetVideoFormat,
    HandleSetAudioFormat, SetAudioFormat, Refuse
<1>11. ASSUME NEW id \in RecorderIds, HandleSetOutputFormat(id)
       PROVE  AnswerInv' /\ Contract!Next
  <2>1. CASE UNCHANGED recorders /\ \E code : Answer(code)
    BY <1>3, <1>4, <2>1
  <2>2. ASSUME NEW b \in BOOLEAN, recorders' = [recorders EXCEPT ![id].badFormat = b],
               NEW code, Answer(code)
        PROVE  AnswerInv' /\ Contract!Next
    <3> DEFINE r == [recorders[id] EXCEPT !.badFormat = b]
    <3>1. recorders' = [recorders EXCEPT ![id] = r]
      BY <2>2
    <3>2. Exists(id) /\ r \in Recorder /\ r.state = recorders[id].state
      BY <1>5, <1>11 DEF HandleSetOutputFormat, Recorder
    <3> HIDE DEF r
    <3>3. Phase' = Phase
      BY <1>2, <3>1, <3>2, PhaseKept
    <3> QED
      BY <1>3, <2>2, <3>3
  <2> QED
    BY <1>11, <2>1, <2>2 DEF HandleSetOutputFormat, SetOutputFormat, Refuse
<1>12. ASSUME NEW id \in RecorderIds, NEW request \in {"start", "stop", "takeSnapshot", "pause", "resume"},
              Phase[id] \in Contract!Needs[request], Phase' = Phase, NEW pc, NEW h, Enter(pc, id, h),
              svc'.pc = pc => Op' = request
       PROVE  AnswerInv' /\ Contract!Next
  <2>1. AnswerInv' /\ Contract!Begin(request, id)
    BY <1>6, <1>12 DEF Contract!Begin
  <2>2. request \in DOMAIN Contract!Needs
    BY DEF Contract!Needs
  <2> QED
    BY <1>2, <1>12, <2>1, <2>2 DEF Contract!Next, Contract!TakeUp
<1>13. ASSUME NEW id \in RecorderIds, HandleStart(id)
       PROVE  AnswerInv' /\ Contract!Next
  <2>1. CASE UNCHANGED recorders /\ \E code : Answer(code)
    BY <1>3, <1>4, <2>1
  <2>2. ASSUME recorders[id].state = "OPEN", NEW h \in Handles,
               recorders' = [recorders EXCEPT ![id].process = h],
               NEW pc \in {"start.client", "start.reap"}, NEW old, Enter(pc, id, old)
        PROVE  AnswerInv' /\ Contract!Next
    <3> DEFINE r == [recorders[id] EXCEPT !.process = h]
    <3>1. recorders' = [recorders EXCEPT ![id] = r]
      BY <2>2
    <3>2. Exists(id) /\ r \in Recorder /\ r.state = recorders[id].state
      BY <1>5, <1>13 DEF HandleStart, Recorder
    <3> HIDE DEF r
    <3>3. Phase' = Phase
      BY <1>2, <3>1, <3>2, PhaseKept
    <3>4. Phase[id] \in Contract!Needs["start"]
      BY <1>5, <1>13, <2>2 DEF HandleStart, Contract!Needs
    <3>5. svc'.pc = pc => Op' = "start"
      BY OpWillBe DEF StartPcs
    <3> QED
      BY <1>12, <2>2, <3>3, <3>4, <3>5
  <2> QED
    BY <1>13, <2>1, <2>2 DEF HandleStart, Refuse
<1>14. ASSUME NEW id \in RecorderIds, NEW request \in {"stop", "pause", "resume"}, NEW states, NEW call,
              NEW pc, Forward(id, states, call, pc), states = Contract!Needs[request],
              svc'.pc = pc => Op' = request
       PROVE  AnswerInv' /\ Contract!Next
  <2>1. Phase' = Phase /\ Phase[id] = recorders[id].state
    BY <1>4, <1>5, <1>14 DEF Forward
  <2>2. CASE \E code : Answer(code)
    BY <1>3, <2>1, <2>2
  <2>3. CASE recorders[id].state \in states /\ Enter(pc, id, NoProcess)
    BY <1>12, <1>14, <2>1, <2>3
  <2> QED
    BY <1>14, <2>2, <2>3 DEF Forward, Refuse
<1>15. ASSUME NEW id \in RecorderIds, HandleStop(id) \/ HandlePause(id) \/ HandleResume(id)
       PROVE  AnswerInv' /\ Contract!Next
  <2>1. /\ Contract!Needs["stop"] = {"RECORDING", "PAUSE"}
        /\ Contract!Needs["pause"] = {"RECORDING"} /\ Contract!Needs["resume"] = {"PAUSE"}
    BY DEF Contract!Needs
  <2> QED
    BY <1>14, <1>15, <2>1, OpWillBe DEF HandleStop, HandlePause, HandleResume
<1>16. ASSUME NEW id \in RecorderIds, HandleTakeSnapshot(id)
       PROVE  AnswerInv' /\ Contract!Next
  <2>1. Phase' = Phase /\ Phase[id] = recorders[id].state
    BY <1>4, <1>5, <1>16 DEF HandleTakeSnapshot
  <2>2. CASE RefuseSnapshot(id)
    BY <1>3, <2>1, <2>2 DEF RefuseSnapshot, Refuse
  <2>3. ASSUME recorders[id].state = "RECORDING", NEW h, Enter("snapshot.subscribe", id, h)
        PROVE  AnswerInv' /\ Contract!Next
    <3>1. Phase[id] \in Contract!Needs["takeSnapshot"]
      BY <2>1, <2>3 DEF Contract!Needs
    <3>2. svc'.pc = "snapshot.subscribe" => Op' = "takeSnapshot"
      BY OpWillBe DEF SnapshotPcs
    <3> QED
      BY <1>12, <2>1, <2>3, <3>1, <3>2
  <2> QED
    BY <1>16, <2>2, <2>3 DEF HandleTakeSnapshot
<1> QED
  BY <1>7, <1>8, <1>9, <1>10, <1>11, <1>13, <1>15, <1>16 DEF Request

\* The steps of a handler after a blocking call has returned: unseen, or what ends the
\* request.
LEMMA ContinueMaps ==
  ASSUME IInv, AnswerInv, Continue
  PROVE  AnswerInv' /\ (Contract!Next \/ UNCHANGED Contract!vars)
<1>1. svc.pc # "loop" /\ svc \in Service /\ svc.id \in RecorderIds /\ TypeOK
  BY DEF IInv, HandlerInv, TypeOK, Continue, StartClient, StartCamera, StartFormat, StartLoad, StopCall,
    PauseCall, ResumeCall, Switch, SnapshotSubscribe, SnapshotLoad, SnapshotEos, SnapshotGiveUp,
    SnapshotStop, Reap, ReapNothing, ReapPcs
<1>2. svc.pc # "close.reap" => Exists(svc.id) /\ Here \in Recorder /\ Phase[svc.id] = Here.state
  BY <1>1, PhaseOf DEF IInv, HandlerInv, Exists, Here, TypeOK
<1>3. UNCHANGED recorders => Phase' = Phase
  BY DEF Phase, Exists
<1>4. ASSUME Phase' = Phase, Op' = Op, svc'.id = svc.id, UNCHANGED returnValue,
             svc'.pc \notin {"loop", "open.reap", "close.reap"}
      PROVE  AnswerInv' /\ UNCHANGED Contract!vars
  BY <1>1, <1>4 DEF AnswerInv, Contract!vars
<1>5. \A pc : Goto(pc) => svc'.pc = pc /\ svc'.id = svc.id /\ UNCHANGED returnValue
  BY <1>1 DEF Goto, Service
<1>6. ASSUME Phase' = Phase, Op \in {"start", "pause", "resume", "takeSnapshot"},
             NEW code, code # "ERR_NONE", Answer(code)
      PROVE  AnswerInv' /\ Contract!Next
  BY <1>6, AnswerMaps DEF Contract!Next, Contract!Fail
<1>7. ASSUME NEW request \in {"start", "pause", "resume"}, Op = request,
             NEW state, state = Contract!Goal[request], NEW r \in Recorder, r.state = state,
             recorders' = [recorders EXCEPT ![svc.id] = r], Answer("ERR_NONE")
      PROVE  AnswerInv' /\ Contract!Next
  <2>1. Phase' = [Phase EXCEPT ![svc.id] = Contract!Goal[Op]]
    BY <1>1, <1>7, PhaseReplaced, ConstantsAssumption
  <2>2. Op \in DOMAIN Contract!Goal
    BY <1>7 DEF Contract!Goal
  <2> QED
    BY <1>7, <2>1, <2>2, AnswerMaps DEF Contract!Next, Contract!Reach
<1>8. CASE StartClient
  <2> DEFINE r == [Here EXCEPT !.client = IF Here.client = "registered" THEN "unregistered" ELSE "registered"]
  <2>1. /\ recorders' = [recorders EXCEPT ![svc.id] = r] /\ svc.pc = "start.client"
        /\ Goto("start.camera") \/ Goto("start.format")
    BY <1>8 DEF StartClient, Here
  <2>2. r \in Recorder /\ r.state = Here.state
    BY <1>2, <2>1 DEF Recorder
  <2> HIDE DEF r
  <2>3. Phase' = Phase
    BY <1>1, <1>2, <2>1, <2>2, PhaseKept DEF Here
  <2>4. Op' = Op
    BY <1>5, <2>1, OpIs, OpWillBe DEF StartPcs
  <2> QED
    BY <1>4, <1>5, <2>1, <2>3, <2>4
<1>9. CASE StartCamera \/ StartFormat
  <2>1. svc.pc \in StartPcs /\ Phase' = Phase /\ Op = "start"
    BY <1>3, <1>9, OpIs DEF StartCamera, StartFormat, StartPcs
  <2>2. CASE Goto("start.format") \/ Goto("start.load")
    <3>1. Op' = Op
      BY <1>5, <2>1, <2>2, OpWillBe DEF StartPcs
    <3> QED
      BY <1>4, <1>5, <2>1, <2>2, <3>1
  <2>3. CASE \E code : code # "ERR_NONE" /\ Answer(code)
    BY <1>6, <2>1, <2>3
  <2> QED
    BY <1>9, <2>2, <2>3 DEF StartCamera, StartFormat
<1>10. CASE StartLoad
  <2>1. Op = "start" /\ Here \in Recorder
    BY <1>2, <1>10, OpIs DEF StartLoad, StartPcs
  <2>2. CASE resp # "true"
    BY <1>3, <1>6, <1>10, <2>1, <2>2 DEF StartLoad
  <2>3. CASE resp = "true"
    <3> DEFINE r == [Here EXCEPT !.state = "RECORDING"]
    <3>1. recorders' = [recorders EXCEPT ![svc.id] = r] /\ Answer("ERR_NONE")
      BY <1>10, <2>3 DEF StartLoad, Here
    <3>2. r \in Recorder /\ r.state = "RECORDING"
      BY <2>1 DEF Recorder
    <3>3. Contract!Goal["start"] = "RECORDING"
      BY DEF Contract!Goal
    <3> HIDE DEF r
    <3> QED
      BY <1>7, <2>1, <3>1, <3>2, <3>3
  <2> QED
    BY <2>2, <2>3
<1>11. ASSUME NEW request \in {"pause", "resume"}, NEW state \in {"RECORDING", "PAUSE"}, NEW failure,
              NEW pc, Switch(pc, state, failure), pc \in {"pause.call", "resume.call"},
              svc.pc = pc => Op = request, state = Contract!Goal[request], failure # "ERR_NONE"
       PROVE  AnswerInv' /\ Contract!Next
  <2>1. Op = request /\ Here \in Recorder
    BY <1>2, <1>11 DEF Switch
  <2>2. CASE resp # "true"
    BY <1>3, <1>6, <1>11, <2>1, <2>2 DEF Switch
  <2>3. CASE resp = "true"
    <3> DEFINE r == [Here EXCEPT !.state = state]
    <3>1. recorders' = [recorders EXCEPT ![svc.id] = r] /\ Answer("ERR_NONE")
      BY <1>11, <2>3 DEF Switch, Here
    <3>2. r \in Recorder /\ r.state = state
      BY <2>1, <1>11 DEF Recorder
    <3> HIDE DEF r
    <3> QED
      BY <1>7, <1>11, <2>1, <3>1, <3>2
  <2> QED
    BY <2>2, <2>3
<1>12. CASE PauseCall \/ ResumeCall
  <2>1. Contract!Goal["pause"] = "PAUSE" /\ Contract!Goal["resume"] = "RECORDING"
    BY DEF Contract!Goal
  <2>2. CASE PauseCall
    BY <1>11, <2>1, <2>2, OpIs DEF PauseCall
  <2>3. CASE ResumeCall
    BY <1>11, <2>1, <2>3, OpIs DEF ResumeCall
  <2> QED
    BY <1>12, <2>2, <2>3
<1>13. CASE StopCall
  <2>1. /\ svc.pc = "stop.call" /\ Op = "stop" /\ Here \in Recorder
        /\ Phase[svc.id] \in {"RECORDING", "PAUSE"}
    BY <1>2, <1>13, OpIs DEF StopCall, IInv, NoNullDereference, Active, Here
  <2>2. CASE resp # "true"
    <3>1. Phase' = Phase /\ Contract!Answer("false") /\ AnswerInv'
      BY <1>3, <1>13, <2>2, AnswerMaps DEF StopCall
    <3> QED
      BY <2>1, <3>1 DEF Contract!Next, Contract!Fail
  <2>3. CASE resp = "true"
    <3> DEFINE r == [Here EXCEPT !.state = "OPEN", !.process = NoProcess]
    <3>1. recorders' = [recorders EXCEPT ![svc.id] = r]
      <4>1. recorders' = [recorders EXCEPT ![svc.id].state = "OPEN",
                                           ![svc.id].process = NoProcess]
        BY <1>13, <2>3 DEF StopCall
      <4> QED
        BY <1>1, <4>1 DEF Here, TypeOK
    <3>2. r \in Recorder /\ r.state = "OPEN"
      BY <2>1 DEF Recorder, Handles
    <3> HIDE DEF r
    <3>3. Phase' = [Phase EXCEPT ![svc.id] = "OPEN"]
      BY <1>1, <3>1, <3>2, PhaseReplaced, ConstantsAssumption
    <3>4. svc'.pc = "stop.reap" /\ svc'.id = svc.id /\ returnValue' = "none" /\ returnValue = "none"
      BY <1>1, <1>13, <2>3 DEF StopCall, Enter, AnswerInv
    <3>5. Op' = "stop" /\ AnswerInv'
      BY <3>4, OpWillBe DEF AnswerInv
    <3>6. Phase[svc.id] \in Contract!Needs.stop
      BY <2>1 DEF Contract!Needs
    <3> QED
      BY <2>1, <3>3, <3>4, <3>5, <3>6 DEF Contract!Next, Contract!StopRecording
  <2> QED
    BY <2>2, <2>3
<1>14. ASSUME Phase' = Phase, svc.pc \in SnapshotPcs, svc'.pc \in SnapshotPcs \cup {"snapshot.reap"},
              svc'.id = svc.id, UNCHANGED returnValue
       PROVE  AnswerInv' /\ UNCHANGED Contract!vars
  <2>1. Op' = Op
    BY <1>14, OpIs, OpWillBe
  <2> QED
    BY <1>4, <1>14, <2>1 DEF SnapshotPcs
<1>15. CASE SnapshotSubscribe \/ SnapshotLoad \/ SnapshotEos \/ SnapshotStop
  <2>1. UNCHANGED <<recorders, returnValue>> /\ svc.pc \in SnapshotPcs
    BY <1>5, <1>15 DEF SnapshotSubscribe, SnapshotLoad, SnapshotEos, SnapshotStop, SnapshotPcs
  <2>2. svc'.pc \in SnapshotPcs \cup {"snapshot.reap"} /\ svc'.id = svc.id
    BY <1>1, <1>5, <1>15
    DEF SnapshotSubscribe, SnapshotLoad, SnapshotEos, SnapshotStop, SnapshotPcs, Service
  <2> QED
    BY <1>3, <1>14, <2>1, <2>2
<1>16. CASE SnapshotGiveUp
  <2> DEFINE r == [Here EXCEPT !.lateEos = TRUE]
  <2>1. /\ recorders' = [recorders EXCEPT ![svc.id] = r] /\ svc.pc = "snapshot.eos"
        /\ svc'.pc = "snapshot.stop" /\ svc'.id = svc.id /\ UNCHANGED returnValue
    BY <1>5, <1>16 DEF SnapshotGiveUp, Here
  <2>2. r \in Recorder /\ r.state = Here.state
    BY <1>2, <2>1 DEF Recorder
  <2> HIDE DEF r
  <2>3. Phase' = Phase
    BY <1>1, <1>2, <2>1, <2>2, PhaseKept DEF Here
  <2> QED
    BY <1>14, <2>1, <2>3 DEF SnapshotPcs
<1>17. CASE ReapNothing \/ \E p \in Pids : Reap(p)
  <2>1. AfterWait
    BY <1>17 DEF ReapNothing, Reap
  <2>2. CASE svc.pc = "start.reap"
    <3>1. svc'.pc = "start.client" /\ svc'.id = svc.id /\ UNCHANGED <<recorders, returnValue>>
      BY <1>1, <2>1, <2>2 DEF AfterWait, Service
    <3>2. Op' = Op
      BY <2>2, <3>1, OpIs, OpWillBe DEF StartPcs
    <3> QED
      BY <1>3, <1>4, <3>1, <3>2
  <2>3. CASE svc.pc = "stop.reap"
    <3> DEFINE r == [Here EXCEPT !.client = "null"]
    <3>1. recorders' = [recorders EXCEPT ![svc.id] = r] /\ Answer("ERR_NONE")
      BY <2>1, <2>3 DEF AfterWait, Here
    <3>2. r \in Recorder /\ r.state = Here.state
      BY <1>2, <2>3 DEF Recorder
    <3>3. Here.state = "OPEN"
      BY <2>3 DEF IInv, StageInv, Here
    <3> HIDE DEF r
    <3>4. Phase' = Phase /\ Phase[svc.id] = "OPEN" /\ Op = "stop"
      BY <1>1, <1>2, <2>3, <3>1, <3>2, <3>3, PhaseKept, OpIs DEF Here
    <3> QED
      BY <3>1, <3>4, AnswerMaps DEF Contract!Next, Contract!Finish
  <2>4. CASE svc.pc \in {"open.reap", "close.reap", "snapshot.reap"}
    <3>1. UNCHANGED recorders /\ Answer(svc.err)
      BY <2>1, <2>4 DEF AfterWait
    <3>2. /\ Op \in {"open", "close", "takeSnapshot"}
          /\ svc.err # "ERR_NONE" => Op = "takeSnapshot"
      BY <2>4, OpIs DEF AnswerInv
    <3> QED
      BY <1>3, <3>1, <3>2, AnswerMaps DEF Contract!Next, Contract!Finish, Contract!Fail
  <2> QED
    BY <2>1, <2>2, <2>3, <2>4 DEF AfterWait
<1> QED
  BY <1>8, <1>9, <1>10, <1>12, <1>13, <1>15, <1>16, <1>17 DEF Continue

\* The service implements RecorderContract: a request is answered true exactly when it did
\* what it asks for, and changes no recorder but its own, across all its blocking calls and
\* waits, and whatever its children, the camera service and the bus do.
THEOREM Implements == Spec => ImplementsContract
<1>1. Init => AnswerInv /\ Contract!Init
  <2> SUFFICES ASSUME Init PROVE AnswerInv /\ Contract!Init
    OBVIOUS
  <2>1. Phase = [id \in RecorderIds |-> "absent"] /\ svc.pc = "loop"
    BY DEF Init, Phase, Exists, Loop
  <2>2. Op = "none"
    BY <2>1, OpIs
  <2> QED
    BY <2>1, <2>2 DEF Init, Loop, AnswerInv, Contract!Init
<1>2. IInv /\ AnswerInv /\ [Next]_vars => AnswerInv' /\ [Contract!Next]_(Contract!vars)
  <2> SUFFICES ASSUME IInv, AnswerInv, [Next]_vars
               PROVE  AnswerInv' /\ [Contract!Next]_(Contract!vars)
    OBVIOUS
  <2>1. CASE UNCHANGED vars
    <3>1. Phase' = Phase
      BY <2>1 DEF vars, Phase, Exists
    <3>2. Op' = Op
      BY <2>1 DEF vars, Op
    <3> QED
      BY <2>1, <3>1, <3>2 DEF vars, AnswerInv, Contract!vars
  <2>2. CASE Next
    BY <2>2, RequestMaps, ContinueMaps, OutsideMaps DEF Next
  <2> QED
    BY <2>1, <2>2
<1> QED
  BY <1>1, <1>2, SpecIInv, PTL DEF Spec, ImplementsContract, Contract!Spec
=============================================================================
