------------------------ MODULE RecorderChildrenProofs ------------------------
(***************************************************************************)
(* Theorems about the Process objects of RecorderService and the children  *)
(* they stand for, for every set of recorder ids and pids and whatever the *)
(* surroundings do.                                                        *)
(***************************************************************************)
EXTENDS RecorderServiceProofs, RecorderSystem, SequenceTheorems

-----------------------------------------------------------------------------
\* Who holds which Process object.

Holders == [id \in RecorderIds |-> IF Exists(id) THEN recorders[id].process ELSE NoProcess]

\* What a step may do to the Process objects: nothing; the handler's own is destroyed;
\* that of a recorder becomes the handler's; a recorder gets a new one, and the handler
\* the one it had; the handler gets a new one.
Kept ==
  /\ Holders' = Holders /\ svc'.local = svc.local
  /\ \A p \in Pids : proc'[p] = "none" <=> proc[p] = "none"
LetGo ==
  /\ svc.local # NoProcess /\ svc'.local = NoProcess /\ Holders' = Holders
  /\ \/ \E p \in Pids : proc[p] = "exited" /\ proc' = [proc EXCEPT ![p] = "none"]
     \/ (\A p \in Pids : proc[p] = "none") /\ proc' = proc
TakeOut(id) ==
  /\ svc.local = NoProcess /\ svc'.local = Holders[id]
  /\ Holders' = [Holders EXCEPT ![id] = NoProcess] /\ proc' = proc
ForkFor(id, h) ==
  /\ svc.local = NoProcess /\ svc'.local = Holders[id]
  /\ Holders' = [Holders EXCEPT ![id] = h] /\ Fork(h)
ForkLocal(h) ==
  /\ svc.local = NoProcess /\ svc'.local = h /\ Holders' = Holders /\ Fork(h)

Moved ==
  \/ Kept \/ LetGo
  \/ \E id \in RecorderIds : TakeOut(id) \/ \E h \in Handles : ForkFor(id, h)
  \/ \E h \in Handles : ForkLocal(h)

\* An entry that is replaced moves only its own Process object.
LEMMA Replaced ==
  ASSUME TypeOK, NEW id \in RecorderIds, NEW r,
         r \in Recorder \/ r = NoRecorder, recorders' = [recorders EXCEPT ![id] = r]
  PROVE  Holders' = [Holders EXCEPT ![id] = IF r = NoRecorder THEN NoProcess ELSE r.process]
BY DEF TypeOK, Holders, Exists

LEMMA ReplacedAlike ==
  ASSUME TypeOK, NEW id \in RecorderIds, NEW r \in Recorder, Exists(id),
         recorders' = [recorders EXCEPT ![id] = r], r.process = recorders[id].process
  PROVE  Holders' = Holders
BY ConstantsAssumption DEF TypeOK, Holders, Exists

LEMMA HoldersType ==
  ASSUME TypeOK
  PROVE  Holders \in [RecorderIds -> Handles]
BY DEF TypeOK, Holders, Exists, Recorder, Handles

\* The children, the camera service and the bus.
LEMMA OutsideMoved == IInv /\ (Bus \/ \E p \in Pids : Child(p)) => Kept
<1> SUFFICES ASSUME IInv, Bus \/ \E p \in Pids : Child(p) PROVE Kept
  OBVIOUS
<1>1. UNCHANGED <<recorders, svc>>
  BY DEF Bus, CameraReply, BusError, CallTimeout, Child, ChildHandle, ChildEos, ChildExit, ChildCrash, End
<1>2. Holders' = Holders
  BY <1>1 DEF Holders, Exists
<1>3. CASE Bus
  BY <1>1, <1>2, <1>3 DEF Bus, CameraReply, BusError, CallTimeout, Kept
<1>4. ASSUME NEW p \in Pids, Child(p) PROVE Kept
  <2>1. proc[p] # "none"
    BY <1>4 DEF Child, ChildHandle, ChildEos, ChildExit, ChildCrash, Running, NotLoaded
  <2>2. \E s \in ProcStates \ {"none"} : proc' = [proc EXCEPT ![p] = s]
    <3>1. CASE ChildHandle(p)
      <4>1. proc' = proc \/ \E s \in ProcStates \ {"none"} : proc' = [proc EXCEPT ![p] = s]
        BY <3>1 DEF ChildHandle, ChildStart, ChildStop, ChildSwitch, ProcStates, Running, NotLoaded
      <4>2. proc' = proc => proc' = [proc EXCEPT ![p] = proc[p]] /\ proc[p] \in ProcStates
        BY DEF IInv, TypeOK
      <4> QED
        BY <2>1, <4>1, <4>2
    <3>2. CASE ChildEos(p)
      BY <3>2 DEF ChildEos, ProcStates, Running
    <3>3. CASE ChildExit(p) \/ ChildCrash(p)
      BY <3>3 DEF ChildExit, ChildCrash, End, ProcStates
    <3> QED
      BY <1>4, <3>1, <3>2, <3>3 DEF Child
  <2> QED
    BY <1>1, <1>2, <2>1, <2>2 DEF Kept, IInv, TypeOK
<1> QED
  BY <1>3, <1>4

\* The requests.
LEMMA RequestMoved == IInv /\ Request => Moved
<1> SUFFICES ASSUME IInv, Request PROVE Moved
  OBVIOUS
<1>1. svc.pc = "loop"
  BY DEF Request, RejectRequest, HandleOpen, HandleClose, HandleSetOutputFile,
    HandleSetOutputFormat, HandleSetVideoFormat, HandleSetAudioFormat, HandleStart, HandleStop,
    HandlePause, HandleResume, Forward, HandleTakeSnapshot, Serve
<1>2. svc = Loop /\ svc.local = NoProcess
  BY <1>1 DEF IInv, HandlerInv, Loop
<1>a. TypeOK
  BY DEF IInv
<1>3. ASSUME UNCHANGED <<recorders, proc>>, svc'.local = NoProcess PROVE Moved
  BY <1>2, <1>3 DEF Moved, Kept, Holders, Exists
<1>b. \A code : Answer(code) => svc'.local = NoProcess
  BY DEF Answer, Loop
<1>4. CASE RejectRequest
  BY <1>3, <1>4, <1>b DEF RejectRequest
<1>5. ASSUME NEW id \in RecorderIds, Destroy("open.reap", id, Holders[id]) \/ Destroy("close.reap", id, Holders[id])
      PROVE  svc'.local = Holders[id]
  BY <1>5, <1>b DEF Destroy, Enter
<1>6. ASSUME NEW id \in RecorderIds, HandleOpen(id) PROVE Moved
  <2>1. CASE UNCHANGED recorders /\ \E code : Answer(code)
    BY <1>3, <1>6, <1>b, <2>1 DEF HandleOpen
  <2>2. ASSUME NEW video \in BOOLEAN,
               recorders' = [recorders EXCEPT ![id] = OpenRecorder(video)],
               Destroy("open.reap", id, IF Exists(id) THEN recorders[id].process ELSE NoProcess)
        PROVE  Moved
    <3>1. OpenRecorder(video) \in Recorder /\ OpenRecorder(video).process = NoProcess
      BY DEF OpenRecorder, Recorder, Handles
    <3>2. Holders' = [Holders EXCEPT ![id] = NoProcess]
      BY <1>a, <2>2, <3>1, Replaced
    <3>3. svc'.local = Holders[id]
      BY <1>5, <2>2 DEF Holders
    <3> QED
      BY <1>2, <1>6, <3>2, <3>3 DEF HandleOpen, Moved, TakeOut
  <2> QED
    BY <1>6, <2>1, <2>2 DEF HandleOpen
<1>7. ASSUME NEW id \in RecorderIds, HandleClose(id) PROVE Moved
  <2>1. CASE UNCHANGED recorders /\ \E code : Answer(code)
    BY <1>3, <1>7, <1>b, <2>1 DEF HandleClose
  <2>2. CASE /\ recorders' = [recorders EXCEPT ![id] = NoRecorder]
             /\ Destroy("close.reap", id, recorders[id].process)
    <3>1. Exists(id) /\ Holders[id] = recorders[id].process
      BY <1>7 DEF HandleClose, Serve, Holders
    <3>2. Holders' = [Holders EXCEPT ![id] = NoProcess]
      BY <1>a, <2>2, Replaced
    <3>3. svc'.local = Holders[id]
      BY <1>5, <2>2, <3>1
    <3> QED
      BY <1>2, <1>7, <3>2, <3>3 DEF HandleClose, Moved, TakeOut
  <2> QED
    BY <1>7, <2>1, <2>2 DEF HandleClose
<1>8. ASSUME NEW id \in RecorderIds, HandleSetOutputFormat(id) PROVE Moved
  <2>1. Exists(id) /\ recorders[id] \in Recorder /\ UNCHANGED proc
    BY <1>8, <1>a DEF HandleSetOutputFormat, Serve, Exists, TypeOK
  <2>2. CASE UNCHANGED recorders
    BY <1>3, <1>8, <1>b, <2>1, <2>2 DEF HandleSetOutputFormat, SetOutputFormat, Refuse
  <2>3. ASSUME NEW format, SetOutputFormat(id, format) PROVE Moved
    <3> DEFINE r == [recorders[id] EXCEPT !.badFormat = (format = "unsupported")]
    <3>1. recorders' = [recorders EXCEPT ![id] = r] /\ svc'.local = NoProcess
      BY <2>3, <1>b DEF SetOutputFormat
    <3>2. r \in Recorder /\ r.process = recorders[id].process
      BY <2>1 DEF Recorder
    <3> HIDE DEF r
    <3>3. Holders' = Holders
      BY <1>a, <2>1, <3>1, <3>2, ReplacedAlike
    <3> QED
      BY <1>2, <2>1, <3>1, <3>3 DEF Moved, Kept
  <2> QED
    BY <1>8, <2>2, <2>3 DEF HandleSetOutputFormat
<1>9. ASSUME NEW id \in RecorderIds,
             HandleSetOutputFile(id) \/ HandleSetVideoFormat(id) \/ HandleSetAudioFormat(id)
      PROVE  Moved
  BY <1>3, <1>9, <1>b DEF HandleSetOutputFile, SetOutputFile, HandleSetVideoFormat, SetVideoFormat,
    HandleSetAudioFormat, SetAudioFormat, Refuse
<1>10. ASSUME NEW id \in RecorderIds, HandleStart(id) PROVE Moved
  <2>1. CASE Refuse(id, {"OPEN"}) /\ UNCHANGED <<recorders, proc>>
    BY <1>3, <1>b, <2>1 DEF Refuse
  <2>2. ASSUME NEW h \in Handles, Fork(h), recorders' = [recorders EXCEPT ![id].process = h],
               LET old == recorders[id].process
               IN Enter(IF old = NoProcess THEN "start.client" ELSE "start.reap", id, old)
        PROVE  Moved
    <3> DEFINE r == [recorders[id] EXCEPT !.process = h]
    <3>1. Exists(id) /\ recorders[id] \in Recorder
      BY <1>10, <1>a DEF HandleStart, Serve, Exists, TypeOK
    <3>2. recorders' = [recorders EXCEPT ![id] = r]
      BY <2>2
    <3>3. r \in Recorder /\ r.process = h
      BY <3>1, <2>2 DEF Recorder
    <3>4. svc'.local = Holders[id]
      BY <2>2, <3>1 DEF Enter, Holders
    <3> HIDE DEF r
    <3>5. Holders' = [Holders EXCEPT ![id] = h]
      BY <1>a, <3>2, <3>3, ConstantsAssumption, Replaced
    <3> QED
      BY <1>2, <2>2, <3>4, <3>5 DEF Moved, ForkFor
  <2> QED
    BY <1>10, <2>1, <2>2 DEF HandleStart
<1>11. ASSUME NEW id \in RecorderIds, HandleStop(id) \/ HandlePause(id) \/ HandleResume(id)
       PROVE  Moved
  BY <1>3, <1>11, <1>b DEF HandleStop, HandlePause, HandleResume, Forward, Refuse, Enter
<1>12. ASSUME NEW id \in RecorderIds, HandleTakeSnapshot(id) PROVE Moved
  <2>1. CASE RefuseSnapshot(id) /\ UNCHANGED proc
    BY <1>3, <1>12, <1>b, <2>1 DEF HandleTakeSnapshot, RefuseSnapshot, Refuse
  <2>2. ASSUME NEW h \in Handles, Fork(h), Enter("snapshot.subscribe", id, h) PROVE Moved
    <3>1. Holders' = Holders /\ svc'.local = h
      BY <1>12, <2>2 DEF HandleTakeSnapshot, Enter, Holders, Exists
    <3> QED
      BY <1>2, <2>2, <3>1 DEF Moved, ForkLocal
  <2> QED
    BY <1>12, <2>1, <2>2 DEF HandleTakeSnapshot
<1> QED
  BY <1>4, <1>6, <1>7, <1>8, <1>9, <1>10, <1>11, <1>12 DEF Request

\* The steps of a handler after a blocking call has returned.
LEMMA ContinueMoved == IInv /\ Continue => Moved
<1> SUFFICES ASSUME IInv, Continue PROVE Moved
  OBVIOUS
<1>1. svc.pc # "loop" /\ svc \in Service /\ svc.id \in RecorderIds /\ TypeOK
  BY DEF IInv, HandlerInv, TypeOK, Continue, StartClient, StartCamera, StartFormat, StartLoad, StopCall,
    PauseCall, ResumeCall, Switch, SnapshotSubscribe, SnapshotLoad, SnapshotEos, SnapshotGiveUp,
    SnapshotStop, Reap, ReapNothing, ReapPcs
<1>2. svc.pc # "close.reap" => Exists(svc.id) /\ Here \in Recorder
  BY <1>1 DEF IInv, HandlerInv, Exists, Here, TypeOK
<1>3. svc.local # NoProcess <=> svc.pc \in ReapPcs \cup SnapshotPcs
  BY DEF IInv, HandlerInv
<1>4. ASSUME UNCHANGED <<recorders, proc>>, svc'.local = svc.local PROVE Kept
  BY <1>4 DEF Kept, Holders, Exists
<1>5. ASSUME NEW r \in Recorder, recorders' = [recorders EXCEPT ![svc.id] = r],
             r.process = Here.process, svc.pc # "close.reap"
      PROVE  Holders' = Holders
  BY <1>1, <1>2, <1>5, ReplacedAlike DEF Here
<1>b. \A code : Answer(code) => svc'.local = NoProcess
  BY DEF Answer, Loop
<1>c. \A pc : Goto(pc) => svc'.local = svc.local
  BY <1>1 DEF Goto, Service
<1>6. CASE StartClient
  <2> DEFINE r == [Here EXCEPT !.client = IF Here.client = "registered" THEN "unregistered" ELSE "registered"]
  <2>1. recorders' = [recorders EXCEPT ![svc.id] = r] /\ svc'.local = svc.local /\ UNCHANGED proc
    BY <1>6, <1>c DEF StartClient, Here
  <2>2. r \in Recorder /\ r.process = Here.process /\ svc.pc # "close.reap"
    BY <1>2, <1>6 DEF StartClient, Recorder
  <2> HIDE DEF r
  <2> QED
    BY <1>5, <2>1, <2>2 DEF Moved, Kept
<1>7. CASE StartCamera \/ StartFormat
  <2>1. UNCHANGED <<recorders, proc>> /\ svc.local = NoProcess /\ svc'.local = NoProcess
    BY <1>3, <1>7, <1>b, <1>c DEF StartCamera, StartFormat, ReapPcs, SnapshotPcs
  <2> QED
    BY <1>4, <2>1 DEF Moved
<1>8. ASSUME NEW state \in {"RECORDING", "PAUSE"}, Here \in Recorder,
             recorders' = [recorders EXCEPT ![svc.id].state = state], svc.pc # "close.reap"
      PROVE  Holders' = Holders
  <2> DEFINE r == [Here EXCEPT !.state = state]
  <2>1. recorders' = [recorders EXCEPT ![svc.id] = r]
    BY <1>8 DEF Here
  <2>2. r \in Recorder /\ r.process = Here.process
    BY <1>8 DEF Recorder
  <2> HIDE DEF r
  <2> QED
    BY <1>5, <1>8, <2>1, <2>2
<1>9. CASE StartLoad
  <2>1. svc.local = NoProcess /\ svc'.local = NoProcess /\ UNCHANGED proc
    BY <1>3, <1>9, <1>b DEF StartLoad, ReapPcs, SnapshotPcs
  <2>2. Holders' = Holders
    BY <1>2, <1>8, <1>9 DEF StartLoad, Holders, Exists
  <2> QED
    BY <2>1, <2>2 DEF Moved, Kept
<1>10. ASSUME NEW state \in {"RECORDING", "PAUSE"}, NEW failure,
              NEW pc \in {"pause.call", "resume.call"}, Switch(pc, state, failure)
       PROVE  Moved
  <2>1. svc.local = NoProcess /\ svc'.local = NoProcess /\ UNCHANGED proc
    BY <1>3, <1>10, <1>b DEF Switch, ReapPcs, SnapshotPcs
  <2>2. Holders' = Holders
    BY <1>2, <1>8, <1>10 DEF Switch, Holders, Exists
  <2> QED
    BY <2>1, <2>2 DEF Moved, Kept
<1>11. CASE StopCall
  <2>1. svc.local = NoProcess /\ UNCHANGED proc /\ Exists(svc.id) /\ Here \in Recorder
    BY <1>2, <1>3, <1>11 DEF StopCall, ReapPcs, SnapshotPcs
  <2>2. CASE resp # "true"
    BY <1>4, <1>11, <1>b, <2>1, <2>2 DEF StopCall, Moved
  <2>3. CASE resp = "true"
    <3> DEFINE r == [Here EXCEPT !.state = "OPEN", !.process = NoProcess]
    <3>1. recorders' = [recorders EXCEPT ![svc.id] = r] /\ svc'.local = Here.process
      <4>1. /\ recorders' = [recorders EXCEPT ![svc.id].state = "OPEN",
                                             ![svc.id].process = NoProcess]
            /\ Enter("stop.reap", svc.id, Here.process)
        BY <1>11, <2>3 DEF StopCall
      <4>2. recorders' = [recorders EXCEPT ![svc.id] = r]
        BY <1>1, <4>1 DEF Here, TypeOK
      <4> QED
        BY <4>1, <4>2 DEF Enter
    <3>2. r \in Recorder /\ r.process = NoProcess
      BY <2>1 DEF Recorder, Handles
    <3> HIDE DEF r
    <3>3. Holders' = [Holders EXCEPT ![svc.id] = NoProcess]
      BY <1>1, <3>1, <3>2, Replaced, ConstantsAssumption
    <3>4. svc'.local = Holders[svc.id]
      BY <1>1, <2>1, <3>1 DEF Holders, Here
    <3> QED
      BY <1>1, <2>1, <3>3, <3>4 DEF Moved, TakeOut
  <2> QED
    BY <2>2, <2>3
<1>12. CASE SnapshotSubscribe \/ SnapshotLoad \/ SnapshotEos \/ SnapshotStop
  <2>1. UNCHANGED <<recorders, proc>> /\ svc'.local = svc.local
    BY <1>1, <1>12, <1>c DEF SnapshotSubscribe, SnapshotLoad, SnapshotEos, SnapshotStop, Service
  <2> QED
    BY <1>4, <2>1 DEF Moved
<1>13. CASE SnapshotGiveUp
  <2> DEFINE r == [Here EXCEPT !.lateEos = TRUE]
  <2>1. recorders' = [recorders EXCEPT ![svc.id] = r] /\ svc'.local = svc.local /\ UNCHANGED proc
    BY <1>13, <1>c DEF SnapshotGiveUp, Here
  <2>2. r \in Recorder /\ r.process = Here.process /\ svc.pc # "close.reap"
    BY <1>2, <1>13 DEF SnapshotGiveUp, Recorder
  <2> HIDE DEF r
  <2> QED
    BY <1>5, <2>1, <2>2 DEF Moved, Kept
<1>14. CASE ReapNothing \/ \E p \in Pids : Reap(p)
  <2>1. svc.pc \in ReapPcs /\ AfterWait
    BY <1>14 DEF ReapNothing, Reap
  <2>2. svc.local # NoProcess /\ svc'.local = NoProcess
    BY <1>1, <1>3, <1>b, <2>1 DEF AfterWait, Service
  <2>3. Holders' = Holders
    <3>1. CASE UNCHANGED recorders
      BY <3>1 DEF Holders, Exists
    <3>2. CASE svc.pc = "stop.reap" /\ recorders' = [recorders EXCEPT ![svc.id].client = "null"]
      <4> DEFINE r == [Here EXCEPT !.client = "null"]
      <4>1. recorders' = [recorders EXCEPT ![svc.id] = r]
        BY <3>2 DEF Here
      <4>2. r \in Recorder /\ r.process = Here.process
        BY <1>2, <3>2 DEF Recorder
      <4> HIDE DEF r
      <4> QED
        BY <1>5, <3>2, <4>1, <4>2
    <3> QED
      BY <2>1, <3>1, <3>2 DEF AfterWait
  <2>4. \/ \E p \in Pids : proc[p] = "exited" /\ proc' = [proc EXCEPT ![p] = "none"]
        \/ (\A p \in Pids : proc[p] = "none") /\ proc' = proc
    BY <1>14 DEF ReapNothing, Reap
  <2> QED
    BY <2>2, <2>3, <2>4 DEF Moved, LetGo
<1> QED
  BY <1>6, <1>7, <1>9, <1>10, <1>11, <1>12, <1>13, <1>14 DEF Continue, PauseCall, ResumeCall

\* Every step is one of these moves.
LEMMA NextMoved == IInv /\ [Next]_vars => Moved
<1> SUFFICES ASSUME IInv, [Next]_vars PROVE Moved
  OBVIOUS
<1>1. CASE UNCHANGED vars
  BY <1>1 DEF vars, Moved, Kept, Holders, Exists
<1>2. CASE Next
  BY <1>2, RequestMoved, ContinueMoved, OutsideMoved DEF Next, Moved
<1> QED
  BY <1>1, <1>2

-----------------------------------------------------------------------------
\* A child has one Process object at most.

OwnHolder ==
  \A id \in RecorderIds : Holders[id] \in Pids =>
    /\ Holders[id] # svc.local
    /\ \A other \in RecorderIds \ {id} : Holders[other] # Holders[id]

LEMMA FreeIsNotHeld ==
  ASSUME NEW h \in FreePids
  PROVE  h \in Pids /\ proc[h] = "none" /\ \A id \in RecorderIds : Holders[id] # h
BY ConstantsAssumption DEF FreePids, Holders, Exists

LEMMA OwnHolderIsOwnChild == OwnHolder => OwnChild
BY ConstantsAssumption DEF OwnHolder, OwnChild, Holders

LEMMA NextOwnHolder == TypeOK /\ OwnHolder /\ Moved => OwnHolder'
<1> SUFFICES ASSUME TypeOK, OwnHolder, Moved PROVE OwnHolder'
  OBVIOUS
<1>0. Holders \in [RecorderIds -> Handles]
  BY HoldersType
<1>1. CASE Kept
  BY <1>1 DEF Kept, OwnHolder
<1>2. CASE LetGo
  BY <1>2, ConstantsAssumption DEF LetGo, OwnHolder
<1>3. ASSUME NEW id \in RecorderIds, TakeOut(id) PROVE OwnHolder'
  BY <1>0, <1>3, ConstantsAssumption DEF TakeOut, OwnHolder
<1>4. ASSUME NEW h \in Handles, Fork(h)
      PROVE  h \in Pids => \A id \in RecorderIds : Holders[id] # h
  BY <1>4, FreeIsNotHeld, ConstantsAssumption DEF Fork
<1>5. ASSUME NEW id \in RecorderIds, NEW h \in Handles, ForkFor(id, h) PROVE OwnHolder'
  <2>1. h \in Pids => \A other \in RecorderIds : Holders[other] # h
    BY <1>4, <1>5 DEF ForkFor
  <2> QED
    BY <1>0, <1>5, <2>1 DEF ForkFor, OwnHolder
<1>6. ASSUME NEW h \in Handles, ForkLocal(h) PROVE OwnHolder'
  <2>1. h \in Pids => \A other \in RecorderIds : Holders[other] # h
    BY <1>4, <1>6 DEF ForkLocal
  <2> QED
    BY <1>6, <2>1 DEF ForkLocal, OwnHolder
<1> QED
  BY <1>1, <1>2, <1>3, <1>5, <1>6 DEF Moved

\* Two recorders, or a recorder and its snapshot, never talk to one child, whatever failed
\* on the way to the state, the process and the client that a recorder has.
THEOREM ChildrenAreOwn == Spec => []OwnChild
<1>1. Init => OwnHolder
  BY ConstantsAssumption DEF Init, OwnHolder, Holders, Exists
<1>2. IInv /\ OwnHolder /\ [Next]_vars => OwnHolder'
  BY NextMoved, NextOwnHolder DEF IInv
<1> QED
  BY <1>1, <1>2, SpecIInv, OwnHolderIsOwnChild, PTL DEF Spec

-----------------------------------------------------------------------------
\* The objects and the children match in number.

LEMMA OwnersAre ==
  /\ Owners = {id \in RecorderIds : Holders[id] # NoProcess}
                \cup (IF svc.local = NoProcess THEN {} ELSE {NoId})
  /\ IsFiniteSet(Owners) /\ IsFiniteSet(Children)
  /\ NoId \in Owners <=> svc.local # NoProcess
<1>1. Owners = {id \in RecorderIds : Holders[id] # NoProcess}
                 \cup (IF svc.local = NoProcess THEN {} ELSE {NoId})
  BY DEF Owners, Holders
<1>2. IsFiniteSet({id \in RecorderIds : Holders[id] # NoProcess}) /\ IsFiniteSet(Children)
  BY ConstantsAssumption, FS_Subset DEF Children
<1>3. IsFiniteSet(Owners)
  BY <1>1, <1>2, FS_AddElement
<1> QED
  BY <1>1, <1>2, <1>3, ConstantsAssumption

\* Putting one element in the place of another.
LEMMA Exchanged ==
  ASSUME NEW S, IsFiniteSet(S), NEW o \in S, NEW p, p \notin S
  PROVE  Cardinality((S \ {o}) \cup {p}) = Cardinality(S)
<1>1. IsFiniteSet(S \ {o}) /\ Cardinality(S \ {o}) = Cardinality(S) - 1
  BY FS_RemoveElement
<1>2. Cardinality((S \ {o}) \cup {p}) = Cardinality(S \ {o}) + 1
  BY <1>1, FS_AddElement
<1>3. Cardinality(S) \in Nat
  BY FS_CardinalityType
<1> QED
  BY <1>1, <1>2, <1>3

\* Each move keeps the balance: only a fork that failed makes an object without a child.
LEMMA NextBalance == TypeOK /\ ProcessBalance /\ Moved => ProcessBalance'
<1> SUFFICES ASSUME TypeOK, ProcessBalance, Moved PROVE ProcessBalance'
  OBVIOUS
<1>0. Holders \in [RecorderIds -> Handles] /\ proc \in [Pids -> ProcStates]
  BY HoldersType DEF TypeOK
<1>1. /\ IsFiniteSet(Owners) /\ IsFiniteSet(Children)
      /\ Cardinality(Owners) \in Nat /\ Cardinality(Children) \in Nat
      /\ Cardinality(Children) <= Cardinality(Owners)
      /\ "forkFail" \notin Env => Cardinality(Children) = Cardinality(Owners)
  BY OwnersAre, FS_CardinalityType DEF ProcessBalance
<1> DEFINE O == {id \in RecorderIds : Holders[id] # NoProcess}
<1>2. /\ Owners = O \cup (IF svc.local = NoProcess THEN {} ELSE {NoId})
      /\ NoId \notin O /\ (NoId \in Owners <=> svc.local # NoProcess)
  BY OwnersAre, ConstantsAssumption
<1>3. Owners' = {id \in RecorderIds : Holders'[id] # NoProcess}
                  \cup (IF svc'.local = NoProcess THEN {} ELSE {NoId})
  BY DEF Owners, Holders
<1>4. Children = {p \in Pids : proc[p] # "none"} /\ Children' = {p \in Pids : proc'[p] # "none"}
  BY DEF Children
<1>5. CASE Kept
  <2>1. Owners' = Owners /\ Children' = Children
    BY <1>2, <1>3, <1>4, <1>5 DEF Kept
  <2> QED
    BY <1>1, <2>1 DEF ProcessBalance
<1>6. CASE LetGo
  <2>1. NoId \in Owners /\ Owners' = Owners \ {NoId}
    BY <1>2, <1>3, <1>6 DEF LetGo
  <2>2. ASSUME NEW p \in Pids, proc[p] = "exited", proc' = [proc EXCEPT ![p] = "none"]
        PROVE  ProcessBalance'
    <3>1. p \in Children /\ Children' = Children \ {p}
      BY <1>0, <1>4, <2>2
    <3>2. /\ Cardinality(Owners') = Cardinality(Owners) - 1
          /\ Cardinality(Children') = Cardinality(Children) - 1
      BY <1>1, <2>1, <3>1, FS_RemoveElement
    <3> QED
      BY <1>1, <3>2 DEF ProcessBalance
  <2>3. CASE (\A p \in Pids : proc[p] = "none") /\ proc' = proc
    <3>1. Children = {} /\ Children' = {}
      BY <1>4, <2>3
    <3>2. Cardinality(Children) = 0 /\ Cardinality(Children') = 0
      BY <3>1, FS_EmptySet
    <3>3. Cardinality(Owners) # 0
      BY <1>1, <2>1, FS_EmptySet
    <3>4. IsFiniteSet(Owners') /\ Cardinality(Owners') = Cardinality(Owners) - 1
      BY <1>1, <2>1, FS_RemoveElement
    <3> QED
      BY <1>1, <3>2, <3>3, <3>4 DEF ProcessBalance
  <2> QED
    BY <1>6, <2>2, <2>3 DEF LetGo
<1>7. ASSUME NEW id \in RecorderIds, TakeOut(id) PROVE ProcessBalance'
  <2>1. Children' = Children
    BY <1>4, <1>7 DEF TakeOut
  <2>2. CASE Holders[id] = NoProcess
    <3>1. Owners' = Owners
      BY <1>0, <1>2, <1>3, <1>7, <2>2 DEF TakeOut
    <3> QED
      BY <1>1, <2>1, <3>1 DEF ProcessBalance
  <2>3. CASE Holders[id] # NoProcess
    <3>1. id \in Owners /\ NoId \notin Owners /\ Owners' = (Owners \ {id}) \cup {NoId}
      BY <1>0, <1>2, <1>3, <1>7, <2>3 DEF TakeOut
    <3>2. Cardinality(Owners') = Cardinality(Owners)
      BY <1>1, <3>1, Exchanged
    <3> QED
      BY <1>1, <2>1, <3>2 DEF ProcessBalance
  <2> QED
    BY <2>2, <2>3
<1>8. ASSUME NEW o, o \notin Owners, Owners' = Owners \cup {o}, NEW h \in Handles, Fork(h)
      PROVE  ProcessBalance'
  <2>1. Cardinality(Owners') = Cardinality(Owners) + 1
    BY <1>1, <1>8, FS_AddElement
  <2>2. CASE h \in FreePids /\ proc' = [proc EXCEPT ![h] = "idle"]
    <3>1. h \notin Children /\ Children' = Children \cup {h}
      BY <1>0, <1>4, <2>2, FreeIsNotHeld
    <3>2. Cardinality(Children') = Cardinality(Children) + 1
      BY <1>1, <3>1, FS_AddElement
    <3> QED
      BY <1>1, <2>1, <3>2 DEF ProcessBalance
  <2>3. CASE "forkFail" \in Env /\ UNCHANGED proc
    <3>1. Children' = Children
      BY <1>4, <2>3
    <3> QED
      BY <1>1, <2>1, <2>3, <3>1 DEF ProcessBalance
  <2> QED
    BY <1>8, <2>2, <2>3 DEF Fork
<1>9. ASSUME NEW h \in Handles, Fork(h) PROVE h # NoProcess
  BY <1>9, ConstantsAssumption DEF Fork, FreePids
<1>10. ASSUME NEW id \in RecorderIds, NEW h \in Handles, ForkFor(id, h) PROVE ProcessBalance'
  <2>1. h # NoProcess
    BY <1>9, <1>10 DEF ForkFor
  <2>2. CASE Holders[id] = NoProcess
    <3>1. id \notin Owners /\ Owners' = Owners \cup {id}
      BY <1>0, <1>2, <1>3, <1>10, <2>1, <2>2, ConstantsAssumption DEF ForkFor
    <3> QED
      BY <1>8, <1>10, <3>1 DEF ForkFor
  <2>3. CASE Holders[id] # NoProcess
    <3>1. NoId \notin Owners /\ Owners' = Owners \cup {NoId}
      BY <1>0, <1>2, <1>3, <1>10, <2>1, <2>3 DEF ForkFor
    <3> QED
      BY <1>8, <1>10, <3>1 DEF ForkFor
  <2> QED
    BY <2>2, <2>3
<1>11. ASSUME NEW h \in Handles, ForkLocal(h) PROVE ProcessBalance'
  <2>1. NoId \notin Owners /\ Owners' = Owners \cup {NoId}
    BY <1>2, <1>3, <1>9, <1>11 DEF ForkLocal
  <2> QED
    BY <1>8, <1>11, <2>1 DEF ForkLocal
<1> QED
  BY <1>5, <1>6, <1>7, <1>10, <1>11 DEF Moved

\* wait() takes any child, and still there is never a child without an object to wait for
\* it, nor, unless a fork failed, an object whose wait() finds no child.
THEOREM ChildrenBalance == Spec => []ProcessBalance
<1>1. Init => ProcessBalance
  <2> SUFFICES ASSUME Init PROVE ProcessBalance
    OBVIOUS
  <2>1. Owners = {} /\ Children = {}
    BY DEF Init, Owners, Children, Exists, Loop
  <2> QED
    BY <2>1, FS_EmptySet DEF ProcessBalance
<1>2. IInv /\ ProcessBalance /\ [Next]_vars => ProcessBalance'
  BY NextMoved, NextBalance DEF IInv
<1> QED
  BY <1>1, <1>2, SpecIInv, PTL DEF Spec

-----------------------------------------------------------------------------
\* A recorder that records was told so by a child that has handled its start.

StartCalls == {"load", "capture", "empty"}

\* A child that does not run has no calls; the first call of one that has not been told
\* anything is its start; and a snapshot's child has been sent its start before its stop.
InboxInv ==
  /\ \A p \in Pids : proc[p] \in {"none", "exited"} => inbox[p] = << >>
  /\ \A p \in Pids : proc[p] = "idle" /\ inbox[p] # << >> => Head(inbox[p]) \in StartCalls
  /\ svc.pc \in {"snapshot.load", "snapshot.eos"} /\ svc.local \in Pids =>
       (proc[svc.local] = "idle" => inbox[svc.local] # << >>)

\* A true reply to start comes from a child that has handled it.
LoadInv ==
  svc.pc = "start.load" /\ resp = "true" => proc[recorders[svc.id].process] # "idle"

StartedInv == InboxInv /\ LoadInv /\ RecordingWasStarted

\* callSync puts its call behind those that are there.
LEMMA SendInbox ==
  ASSUME TypeOK, NEW client, NEW h, NEW call \in Calls, Send(client, h, call)
  PROVE  /\ \A p \in Pids :
              \/ inbox'[p] = inbox[p]
              \/ /\ p = h /\ proc[h] \in Running /\ inbox'[p] # << >>
                 /\ Head(inbox'[p]) = IF inbox[p] = << >> THEN call ELSE Head(inbox[p])
         /\ client # "unregistered" /\ h \in Pids /\ proc[h] \in Running => inbox'[h] # << >>
<1>1. CASE inbox' = inbox /\ (client = "unregistered" \/ ~Alive(h))
  BY <1>1 DEF Alive
<1>2. CASE Alive(h) /\ inbox' = [inbox EXCEPT ![h] = Append(inbox[h], call)]
  <2>1. h \in Pids /\ proc[h] \in Running /\ inbox[h] \in Seq(Calls)
    BY <1>2 DEF Alive, TypeOK
  <2>2. /\ Append(inbox[h], call) # << >>
        /\ Head(Append(inbox[h], call)) = IF inbox[h] = << >> THEN call ELSE Head(inbox[h])
    BY <2>1, AppendProperties, HeadTailAppend
  <2>3. inbox'[h] = Append(inbox[h], call) /\ \A p \in Pids \ {h} : inbox'[p] = inbox[p]
    BY <1>2, <2>1 DEF TypeOK
  <2> QED
    BY <2>1, <2>2, <2>3
<1> QED
  BY <1>1, <1>2 DEF Send

\* What the steps of the handlers have in common: a child that is forked is free, a call
\* is sent to one that runs, and what a recorder has told to go on was started.
WasStarted(p) == p \in Pids /\ p \notin FreePids /\ proc[p] # "idle"

LEMMA HandlerStarted ==
  ASSUME TypeOK, InboxInv,
         \A id \in RecorderIds : Active(id)' => WasStarted(recorders'[id].process),
         \A p \in Pids :
           \/ proc'[p] = proc[p]
           \/ p \in FreePids /\ proc'[p] = "idle"
           \/ proc[p] = "exited" /\ proc'[p] = "none",
         \A p \in Pids :
           \/ inbox'[p] = inbox[p]
           \/ /\ proc[p] \in Running /\ proc'[p] = proc[p] /\ inbox'[p] # << >>
              /\ proc[p] = "idle" => Head(inbox'[p]) \in StartCalls,
         svc'.pc \in {"snapshot.load", "snapshot.eos"} /\ svc'.local \in Pids =>
           (proc'[svc'.local] = "idle" => inbox'[svc'.local] # << >>)
  PROVE  InboxInv' /\ RecordingWasStarted'
<1>1. \A p \in Pids : proc'[p] \in {"none", "exited"} => inbox'[p] = << >>
  BY DEF InboxInv, FreePids, Running, NotLoaded
<1>2. \A p \in Pids : proc'[p] = "idle" /\ inbox'[p] # << >> => Head(inbox'[p]) \in StartCalls
  BY DEF InboxInv, FreePids
<1>3. RecordingWasStarted'
  BY DEF RecordingWasStarted, WasStarted
<1> QED
  BY <1>1, <1>2, <1>3 DEF InboxInv

\* An active recorder has a child that was started.
LEMMA ActiveStarted ==
  ASSUME IInv, RecordingWasStarted, NEW id \in RecorderIds, Active(id)
  PROVE  WasStarted(recorders[id].process)
BY DEF IInv, NoNullDereference, RecordingWasStarted, WasStarted, FreePids, Active

\* The children, the camera service and the bus.
LEMMA OutsideStarted == IInv /\ StartedInv /\ (Bus \/ \E p \in Pids : Child(p)) => StartedInv'
<1> SUFFICES ASSUME IInv, StartedInv, Bus \/ \E p \in Pids : Child(p) PROVE StartedInv'
  OBVIOUS
<1>0. TypeOK /\ NoNullDereference /\ InboxInv /\ LoadInv /\ RecordingWasStarted
  BY DEF IInv, StartedInv
<1>1. UNCHANGED <<recorders, svc>>
  BY DEF Bus, CameraReply, BusError, CallTimeout, Child, ChildHandle, ChildEos, ChildExit, ChildCrash, End
<1>2. CASE Bus
  <2>1. UNCHANGED <<proc, inbox>> /\ (svc.pc # "start.camera" => resp' # "true")
    BY <1>2 DEF Bus, CameraReply, BusError, CallTimeout
  <2> QED
    BY <1>0, <1>1, <2>1 DEF StartedInv, InboxInv, LoadInv, RecordingWasStarted, Active, Exists
<1>3. ASSUME NEW p \in Pids, Child(p) PROVE StartedInv'
  <2>1. /\ \A q \in Pids \ {p} : proc'[q] = proc[q] /\ inbox'[q] = inbox[q]
        /\ proc'[p] # "idle" /\ (proc'[p] \in {"none", "exited"} => inbox'[p] = << >>)
        /\ resp' = resp \/ Callee = p
    <3>1. CASE ChildHandle(p)
      <4>1. proc[p] \in Running \ {"quitting"} /\ inbox[p] # << >>
        BY <3>1 DEF ChildHandle
      <4>2. proc[p] = "idle" => Head(inbox[p]) \in StartCalls
        BY <1>0, <4>1 DEF InboxInv
      <4>3. CASE ChildStart(p)
        BY <1>0, <3>1, <4>3 DEF ChildStart, ChildHandle, Reply, TypeOK
      <4>4. CASE ChildStop(p)
        BY <1>0, <3>1, <4>1, <4>2, <4>4
        DEF ChildStop, ChildHandle, Reply, TypeOK, StartCalls, Running, NotLoaded
      <4>5. CASE ChildSwitch(p, "pause", "paused") \/ ChildSwitch(p, "resume", "loaded")
        BY <1>0, <3>1, <4>1, <4>2, <4>5
        DEF ChildSwitch, ChildHandle, Reply, TypeOK, StartCalls, Running, NotLoaded
      <4> QED
        BY <3>1, <4>3, <4>4, <4>5 DEF ChildHandle
    <3>2. CASE ChildEos(p)
      BY <1>0, <3>2 DEF ChildEos, TypeOK
    <3>3. CASE ChildExit(p) \/ ChildCrash(p)
      BY <1>0, <3>3 DEF ChildExit, ChildCrash, End, TypeOK
    <3> QED
      BY <1>3, <3>1, <3>2, <3>3 DEF Child
  <2>2. InboxInv'
    BY <1>0, <1>1, <2>1 DEF InboxInv
  <2>3. LoadInv'
    <3>1. svc.pc = "start.load" => Callee = recorders[svc.id].process
      BY DEF Callee, CallPcs
    <3>2. svc.pc = "start.load" /\ resp = "true" => recorders[svc.id].process \in Pids
      BY DEF IInv, StageInv
    <3> QED
      BY <1>0, <1>1, <2>1, <3>1, <3>2 DEF LoadInv
  <2>4. RecordingWasStarted'
    BY <1>0, <1>1, <2>1 DEF RecordingWasStarted, NoNullDereference, Active, Exists
  <2> QED
    BY <2>2, <2>3, <2>4 DEF StartedInv
<1> QED
  BY <1>2, <1>3

\* A request leaves a recorder that records as it is, and forks a free child if any.
LEMMA RequestKeepsActive ==
  ASSUME TypeOK, Request, NEW id \in RecorderIds, Active(id)'
  PROVE  Active(id) /\ recorders'[id] = recorders[id]
<1>1. CASE UNCHANGED recorders
  BY <1>1 DEF Active, Exists
<1>2. ASSUME NEW other \in RecorderIds, NEW r, recorders' = [recorders EXCEPT ![other] = r],
             r = NoRecorder \/ r.state = "OPEN"
      PROVE  Active(id) /\ recorders'[id] = recorders[id]
  BY <1>2 DEF Active, Exists, TypeOK
<1>3. ASSUME NEW other \in RecorderIds, HandleOpen(other), ~UNCHANGED recorders
      PROVE  Active(id) /\ recorders'[id] = recorders[id]
  <2>1. PICK video \in BOOLEAN : recorders' = [recorders EXCEPT ![other] = OpenRecorder(video)]
    BY <1>3 DEF HandleOpen
  <2>2. OpenRecorder(video).state = "OPEN"
    BY DEF OpenRecorder
  <2> QED
    BY <1>2, <2>1, <2>2
<1>4. ASSUME NEW other \in RecorderIds, HandleClose(other), ~UNCHANGED recorders
      PROVE  Active(id) /\ recorders'[id] = recorders[id]
  BY <1>2, <1>4 DEF HandleClose
<1>5. ASSUME NEW other \in RecorderIds, Serve(other)
      PROVE  recorders[other] \in Recorder
  BY <1>5 DEF TypeOK, Serve, Exists
<1>6. ASSUME NEW other \in RecorderIds, HandleSetOutputFormat(other), ~UNCHANGED recorders
      PROVE  Active(id) /\ recorders'[id] = recorders[id]
  <2>1. PICK b \in BOOLEAN :
          recorders[other].state = "OPEN" /\ recorders' = [recorders EXCEPT ![other].badFormat = b]
    BY <1>6 DEF HandleSetOutputFormat, SetOutputFormat
  <2> DEFINE r == [recorders[other] EXCEPT !.badFormat = b]
  <2>2. recorders' = [recorders EXCEPT ![other] = r]
    BY <2>1
  <2>3. r.state = "OPEN"
    BY <1>5, <1>6, <2>1 DEF HandleSetOutputFormat, Recorder
  <2> HIDE DEF r
  <2> QED
    BY <1>2, <2>2, <2>3
<1>7. ASSUME NEW other \in RecorderIds, HandleStart(other), ~UNCHANGED recorders
      PROVE  Active(id) /\ recorders'[id] = recorders[id]
  <2>1. PICK h \in Handles :
          recorders[other].state = "OPEN" /\ recorders' = [recorders EXCEPT ![other].process = h]
    BY <1>7 DEF HandleStart
  <2> DEFINE r == [recorders[other] EXCEPT !.process = h]
  <2>2. recorders' = [recorders EXCEPT ![other] = r]
    BY <2>1
  <2>3. r.state = "OPEN"
    BY <1>5, <1>7, <2>1 DEF HandleStart, Recorder
  <2> HIDE DEF r
  <2> QED
    BY <1>2, <2>2, <2>3
<1> QED
  BY <1>1, <1>3, <1>4, <1>6, <1>7
  DEF Request, RejectRequest, HandleSetOutputFile, HandleSetVideoFormat, HandleSetAudioFormat,
    HandleStop, HandlePause, HandleResume, Forward, HandleTakeSnapshot

LEMMA RequestForks ==
  ASSUME TypeOK, Request, NEW p \in Pids
  PROVE  proc'[p] = proc[p] \/ (p \in FreePids /\ proc'[p] = "idle")
<1>1. proc' = proc \/ \E h \in Handles : Fork(h)
  BY DEF Request, RejectRequest, HandleOpen, HandleClose, HandleSetOutputFile,
    HandleSetOutputFormat, HandleSetVideoFormat, HandleSetAudioFormat, HandleStart, HandleStop,
    HandlePause, HandleResume, Forward, HandleTakeSnapshot
<1> QED
  BY <1>1 DEF Fork, TypeOK

\* The requests.
LEMMA RequestStarted == IInv /\ StartedInv /\ Request => StartedInv'
<1> SUFFICES ASSUME IInv, StartedInv, Request PROVE StartedInv'
  OBVIOUS
<1>0. TypeOK /\ InboxInv /\ RecordingWasStarted
  BY DEF IInv, StartedInv
<1>1. svc'.pc \notin {"snapshot.load", "snapshot.eos", "start.load"}
  <2>1. \A code : Answer(code) => svc'.pc = "loop"
    BY DEF Answer, Loop
  <2>2. \A pc, id, h : Enter(pc, id, h) => svc'.pc = pc
    BY DEF Enter
  <2> QED
    BY <2>1, <2>2
    DEF Request, RejectRequest, HandleOpen, HandleClose, HandleSetOutputFile, SetOutputFile,
      HandleSetOutputFormat, SetOutputFormat, HandleSetVideoFormat, SetVideoFormat,
      HandleSetAudioFormat, SetAudioFormat, HandleStart, HandleStop, HandlePause, HandleResume,
      Forward, HandleTakeSnapshot, RefuseSnapshot, Refuse, Destroy
<1>2. LoadInv'
  BY <1>1 DEF LoadInv
<1>3. \A id \in RecorderIds : Active(id)' =>
        Active(id) /\ recorders'[id].process = recorders[id].process
  BY <1>0, RequestKeepsActive
<1>4. \A id \in RecorderIds : Active(id)' => WasStarted(recorders'[id].process)
  BY <1>0, <1>3, ActiveStarted
<1>6. \A p \in Pids : proc'[p] = proc[p] \/ (p \in FreePids /\ proc'[p] = "idle")
  BY <1>0, RequestForks
<1>7. \A p \in Pids :
        \/ inbox'[p] = inbox[p]
        \/ /\ proc[p] \in Running /\ proc'[p] = proc[p] /\ inbox'[p] # << >>
           /\ proc[p] = "idle" => Head(inbox'[p]) \in StartCalls
  <2>1. CASE UNCHANGED inbox
    BY <2>1
  <2>2. ASSUME NEW id \in RecorderIds, HandleStop(id) \/ HandlePause(id) \/ HandleResume(id)
        PROVE  \A p \in Pids :
                 \/ inbox'[p] = inbox[p]
                 \/ /\ proc[p] \in Running /\ proc'[p] = proc[p] /\ inbox'[p] # << >>
                    /\ proc[p] = "idle" => Head(inbox'[p]) \in StartCalls
    <3>1. PICK states, call, pc :
            /\ states \subseteq {"RECORDING", "PAUSE"} /\ call \in Calls
            /\ Forward(id, states, call, pc)
      BY <2>2 DEF HandleStop, HandlePause, HandleResume, Calls
    <3>2. CASE UNCHANGED inbox
      BY <3>2
    <3>3. CASE recorders[id].state \in states /\ Send(recorders[id].client, recorders[id].process, call)
      <4>1. Active(id) /\ UNCHANGED proc
        BY <3>1, <3>3 DEF Forward, Serve, Active
      <4>2. proc[recorders[id].process] # "idle"
        BY <1>0, <4>1, ActiveStarted DEF WasStarted
      <4> QED
        BY <1>0, <3>1, <3>3, <4>1, <4>2, SendInbox
    <3> QED
      BY <3>1, <3>2, <3>3 DEF Forward
  <2> QED
    BY <2>1, <2>2
    DEF Request, RejectRequest, HandleOpen, HandleClose, HandleSetOutputFile,
      HandleSetOutputFormat, HandleSetVideoFormat, HandleSetAudioFormat, HandleStart,
      HandleTakeSnapshot
<1>8. InboxInv' /\ RecordingWasStarted'
  BY <1>0, <1>1, <1>4, <1>6, <1>7, HandlerStarted
<1> QED
  BY <1>2, <1>8 DEF StartedInv

\* The steps of a handler after a blocking call has returned.
LEMMA ContinueStarted == IInv /\ StartedInv /\ Continue => StartedInv'
<1> SUFFICES ASSUME IInv, StartedInv, Continue PROVE StartedInv'
  OBVIOUS
<1>0. TypeOK /\ InboxInv /\ LoadInv /\ RecordingWasStarted /\ NoNullDereference /\ StageInv
  BY DEF IInv, StartedInv
<1>1. svc.pc # "loop" /\ svc \in Service /\ svc.id \in RecorderIds
  BY DEF IInv, HandlerInv, TypeOK, Continue, StartClient, StartCamera, StartFormat, StartLoad, StopCall,
    PauseCall, ResumeCall, Switch, SnapshotSubscribe, SnapshotLoad, SnapshotEos, SnapshotGiveUp,
    SnapshotStop, Reap, ReapNothing, ReapPcs
<1>2. svc.pc # "close.reap" => Exists(svc.id) /\ Here \in Recorder
  BY <1>1 DEF IInv, HandlerInv, Exists, Here, TypeOK
<1>a. \A code : Answer(code) => svc'.pc = "loop"
  BY DEF Answer, Loop
<1>b. \A pc : Goto(pc) => svc'.pc = pc /\ svc'.local = svc.local
  BY <1>1 DEF Goto, Service
<1>3. ASSUME UNCHANGED recorders
      PROVE  \A id \in RecorderIds : Active(id)' => WasStarted(recorders'[id].process)
  BY <1>0, <1>3, ActiveStarted DEF Active, Exists
<1>4. ASSUME NEW r, recorders' = [recorders EXCEPT ![svc.id] = r],
             r.state \in {"RECORDING", "PAUSE"} => WasStarted(r.process)
      PROVE  \A id \in RecorderIds : Active(id)' => WasStarted(recorders'[id].process)
  <2>1. \A id \in RecorderIds : Active(id) => WasStarted(recorders[id].process)
    BY <1>0, ActiveStarted
  <2>2. \A id \in RecorderIds \ {svc.id} : recorders'[id] = recorders[id]
    BY <1>0, <1>1, <1>4 DEF TypeOK
  <2>3. recorders'[svc.id] = r
    BY <1>0, <1>1, <1>4 DEF TypeOK
  <2> QED
    BY <1>4, <2>1, <2>2, <2>3 DEF Active, Exists
<1>5. ASSUME \A id \in RecorderIds : Active(id)' => WasStarted(recorders'[id].process),
             UNCHANGED <<proc, inbox>>,
             svc'.pc \notin {"snapshot.load", "start.load"},
             svc'.pc = "snapshot.eos" => svc.pc = "snapshot.load" /\ svc'.local = svc.local
      PROVE  StartedInv'
  <2>1. LoadInv'
    BY <1>5 DEF LoadInv
  <2>2. svc'.pc \in {"snapshot.load", "snapshot.eos"} /\ svc'.local \in Pids =>
          (proc'[svc'.local] = "idle" => inbox'[svc'.local] # << >>)
    BY <1>0, <1>5 DEF InboxInv
  <2>3. InboxInv' /\ RecordingWasStarted'
    BY <1>0, <1>5, <2>2, HandlerStarted
  <2> QED
    BY <2>1, <2>3 DEF StartedInv
<1>6. CASE StartClient
  <2> DEFINE r == [Here EXCEPT !.client = IF Here.client = "registered" THEN "unregistered" ELSE "registered"]
  <2>1. recorders' = [recorders EXCEPT ![svc.id] = r] /\ UNCHANGED <<proc, inbox>>
        /\ svc'.pc \in {"start.camera", "start.format"}
    BY <1>6, <1>b DEF StartClient, Here
  <2>2. r.state = Here.state /\ Here.state = "OPEN"
    BY <1>0, <1>2, <1>6 DEF StartClient, Recorder, StageInv, StartPcs, Here
  <2> HIDE DEF r
  <2> QED
    BY <1>4, <1>5, <2>1, <2>2
<1>7. CASE StartCamera \/ SnapshotLoad \/ SnapshotEos \/ SnapshotStop
  <2>1. /\ UNCHANGED <<recorders, proc, inbox>>
        /\ svc'.pc \notin {"snapshot.load", "start.load"}
        /\ svc'.pc = "snapshot.eos" => svc.pc = "snapshot.load" /\ svc'.local = svc.local
    BY <1>7, <1>a, <1>b DEF StartCamera, SnapshotLoad, SnapshotEos, SnapshotStop
  <2> QED
    BY <1>3, <1>5, <2>1
<1>8. CASE StartFormat
  <2>1. UNCHANGED <<recorders, proc>>
    BY <1>8 DEF StartFormat
  <2>2. CASE UNCHANGED inbox /\ \E code : Answer(code)
    BY <1>3, <1>5, <1>a, <2>1, <2>2
  <2>3. CASE Goto("start.load") /\ Send(Here.client, Here.process, "load")
    <3>1. svc'.pc = "start.load" /\ resp' # "true"
      BY <1>0, <1>b, <2>3, SendType DEF Calls
    <3>2. \A p \in Pids :
            \/ inbox'[p] = inbox[p]
            \/ /\ proc[p] \in Running /\ proc'[p] = proc[p] /\ inbox'[p] # << >>
               /\ proc[p] = "idle" => Head(inbox'[p]) \in StartCalls
      BY <1>0, <2>1, <2>3, SendInbox DEF Calls, StartCalls, InboxInv
    <3>3. InboxInv' /\ RecordingWasStarted'
      BY <1>0, <1>3, <2>1, <3>1, <3>2, HandlerStarted
    <3> QED
      BY <3>1, <3>3 DEF StartedInv, LoadInv
  <2> QED
    BY <1>8, <2>2, <2>3 DEF StartFormat
<1>9. CASE StartLoad
  <2>1. svc.pc = "start.load" /\ UNCHANGED <<proc, inbox>> /\ svc'.pc = "loop"
    BY <1>9, <1>a DEF StartLoad
  <2>2. CASE resp # "true"
    BY <1>3, <1>5, <1>9, <2>1, <2>2 DEF StartLoad
  <2>3. CASE resp = "true"
    <3> DEFINE r == [Here EXCEPT !.state = "RECORDING"]
    <3>1. recorders' = [recorders EXCEPT ![svc.id] = r]
      BY <1>9, <2>3 DEF StartLoad, Here
    <3>2. WasStarted(Here.process)
      BY <1>0, <1>1, <1>2, <2>1, <2>3 DEF LoadInv, StageInv, WasStarted, FreePids, Here
    <3>3. r.process = Here.process
      BY <1>2, <2>1 DEF Recorder
    <3> HIDE DEF r
    <3> QED
      BY <1>4, <1>5, <2>1, <3>1, <3>2, <3>3
  <2> QED
    BY <2>2, <2>3
<1>10. ASSUME NEW state \in {"RECORDING", "PAUSE"}, NEW failure,
              NEW pc \in {"pause.call", "resume.call"}, Switch(pc, state, failure)
       PROVE  StartedInv'
  <2>1. svc.pc \in {"pause.call", "resume.call"} /\ UNCHANGED <<proc, inbox>> /\ svc'.pc = "loop"
    BY <1>10, <1>a DEF Switch
  <2>2. CASE resp # "true"
    BY <1>3, <1>5, <1>10, <2>1, <2>2 DEF Switch
  <2>3. CASE resp = "true"
    <3> DEFINE r == [Here EXCEPT !.state = state]
    <3>1. recorders' = [recorders EXCEPT ![svc.id] = r]
      BY <1>10, <2>3 DEF Switch, Here
    <3>2. WasStarted(Here.process)
      BY <1>0, <1>1, <2>1, ActiveStarted DEF NoNullDereference, Here
    <3>3. r.process = Here.process
      BY <1>2, <2>1 DEF Recorder
    <3> HIDE DEF r
    <3> QED
      BY <1>4, <1>5, <2>1, <3>1, <3>2, <3>3
  <2> QED
    BY <2>2, <2>3
<1>11. CASE StopCall
  <2>1. svc.pc = "stop.call" /\ UNCHANGED <<proc, inbox>> /\ svc'.pc \in {"loop", "stop.reap"}
    BY <1>11, <1>a DEF StopCall, Enter
  <2>2. CASE resp # "true"
    BY <1>3, <1>5, <1>11, <2>1, <2>2 DEF StopCall
  <2>3. CASE resp = "true"
    <3> DEFINE r == [Here EXCEPT !.state = "OPEN", !.process = NoProcess]
    <3>1. recorders' = [recorders EXCEPT ![svc.id] = r]
      <4>1. recorders' = [recorders EXCEPT ![svc.id].state = "OPEN",
                                           ![svc.id].process = NoProcess]
        BY <1>11, <2>3 DEF StopCall
      <4> QED
        BY <1>0, <1>1, <4>1 DEF Here, TypeOK
    <3>2. r.state = "OPEN"
      BY <1>2, <2>1 DEF Recorder
    <3> HIDE DEF r
    <3> QED
      BY <1>4, <1>5, <2>1, <3>1, <3>2
  <2> QED
    BY <2>2, <2>3
<1>12. CASE SnapshotSubscribe
  <2>1. UNCHANGED <<recorders, proc>>
    BY <1>12 DEF SnapshotSubscribe
  <2>2. CASE svc' = [svc EXCEPT !.pc = "snapshot.reap", !.err = "ERR_SNAPSHOT_CAPTURE_FAILED"]
             /\ UNCHANGED inbox
    <3>1. svc'.pc = "snapshot.reap"
      BY <1>1, <2>2 DEF Service
    <3> QED
      BY <1>3, <1>5, <2>1, <2>2, <3>1
  <2>3. ASSUME NEW call \in {"capture", "empty"}, svc' = [svc EXCEPT !.pc = "snapshot.load"],
               Send("registered", svc.local, call)
        PROVE  StartedInv'
    <3>1. svc'.pc = "snapshot.load" /\ svc'.local = svc.local
      BY <1>1, <2>3 DEF Service
    <3>2. call \in Calls /\ call \in StartCalls
      BY DEF Calls, StartCalls
    <3>3. \A p \in Pids :
            \/ inbox'[p] = inbox[p]
            \/ /\ proc[p] \in Running /\ proc'[p] = proc[p] /\ inbox'[p] # << >>
               /\ proc[p] = "idle" => Head(inbox'[p]) \in StartCalls
      BY <1>0, <2>1, <2>3, <3>2, SendInbox DEF InboxInv
    <3>4. svc'.local \in Pids => (proc'[svc'.local] = "idle" => inbox'[svc'.local] # << >>)
      BY <1>0, <2>1, <2>3, <3>1, <3>2, SendInbox DEF Running, NotLoaded
    <3>5. InboxInv' /\ RecordingWasStarted'
      BY <1>0, <1>3, <2>1, <3>3, <3>4, HandlerStarted
    <3> QED
      BY <3>1, <3>5 DEF StartedInv, LoadInv
  <2> QED
    BY <1>12, <2>2, <2>3 DEF SnapshotSubscribe
<1>13. CASE SnapshotGiveUp
  <2> DEFINE r == [Here EXCEPT !.lateEos = TRUE]
  <2>1. /\ svc.pc = "snapshot.eos" /\ recorders' = [recorders EXCEPT ![svc.id] = r]
        /\ UNCHANGED proc /\ svc'.pc = "snapshot.stop" /\ Send("registered", svc.local, "stop")
    BY <1>13, <1>b DEF SnapshotGiveUp, Here
  <2>2. r.process = Here.process /\ r.state = Here.state
    BY <1>2, <2>1 DEF Recorder
  <2>3. Here.state \in {"RECORDING", "PAUSE"} => WasStarted(Here.process)
    BY <1>0, <1>1, <1>2, <2>1, ActiveStarted DEF Active, Here
  <2> HIDE DEF r
  <2>4. \A id \in RecorderIds : Active(id)' => WasStarted(recorders'[id].process)
    BY <1>4, <2>1, <2>2, <2>3
  <2>5. \A p \in Pids :
          \/ inbox'[p] = inbox[p]
          \/ /\ proc[p] \in Running /\ proc'[p] = proc[p] /\ inbox'[p] # << >>
             /\ proc[p] = "idle" => Head(inbox'[p]) \in StartCalls
    BY <1>0, <2>1, SendInbox DEF Calls, InboxInv
  <2>6. InboxInv' /\ RecordingWasStarted'
    BY <1>0, <2>1, <2>4, <2>5, HandlerStarted
  <2> QED
    BY <2>1, <2>6 DEF StartedInv, LoadInv
<1>14. CASE ReapNothing \/ \E p \in Pids : Reap(p)
  <2>1. svc.pc \in ReapPcs /\ AfterWait /\ UNCHANGED inbox
    BY <1>14 DEF ReapNothing, Reap
  <2>2. svc'.pc \in {"start.client", "loop"}
    BY <1>1, <1>a, <2>1 DEF AfterWait, Service
  <2>3. \A p \in Pids : proc'[p] = proc[p] \/ (proc[p] = "exited" /\ proc'[p] = "none")
    BY <1>0, <1>14 DEF ReapNothing, Reap, TypeOK
  <2>4. \A id \in RecorderIds : Active(id)' => WasStarted(recorders'[id].process)
    <3>1. CASE UNCHANGED recorders
      BY <1>3, <3>1
    <3>2. CASE svc.pc = "stop.reap" /\ recorders' = [recorders EXCEPT ![svc.id].client = "null"]
      <4> DEFINE r == [Here EXCEPT !.client = "null"]
      <4>1. recorders' = [recorders EXCEPT ![svc.id] = r]
        BY <3>2 DEF Here
      <4>2. r.state = "OPEN"
        BY <1>0, <1>2, <3>2 DEF Recorder, StageInv, Here
      <4> HIDE DEF r
      <4> QED
        BY <1>4, <4>1, <4>2
    <3> QED
      BY <2>1, <3>1, <3>2 DEF AfterWait
  <2>5. InboxInv' /\ RecordingWasStarted'
    BY <1>0, <2>1, <2>2, <2>3, <2>4, HandlerStarted
  <2> QED
    BY <2>2, <2>5 DEF StartedInv, LoadInv
<1> QED
  BY <1>6, <1>7, <1>8, <1>9, <1>10, <1>11, <1>12, <1>13, <1>14 DEF Continue, PauseCall, ResumeCall

\* A recorder that is recording or paused was told so by its own child, however late the
\* replies come, whatever fails and whichever child dies or is waited for.
THEOREM RecorderWasStarted == Spec => []RecordingWasStarted
<1>1. Init => StartedInv
  BY DEF Init, StartedInv, InboxInv, LoadInv, RecordingWasStarted, Active, Exists, Loop
<1>2. IInv /\ StartedInv /\ [Next]_vars => StartedInv'
  <2> SUFFICES ASSUME IInv, StartedInv, [Next]_vars PROVE StartedInv'
    OBVIOUS
  <2>1. CASE UNCHANGED vars
    BY <2>1 DEF vars, StartedInv, InboxInv, LoadInv, RecordingWasStarted, Active, Exists
  <2>2. CASE Next
    BY <2>2, RequestStarted, ContinueStarted, OutsideStarted DEF Next
  <2> QED
    BY <2>1, <2>2
<1>3. StartedInv => RecordingWasStarted
  BY DEF StartedInv
<1> QED
  BY <1>1, <1>2, <1>3, SpecIInv, PTL DEF Spec

-----------------------------------------------------------------------------
\* What is known of any state, whatever the surroundings do.
KnownInv == IInv /\ StartedInv /\ OwnHolder

LEMMA NextKnownInv == KnownInv /\ [Next]_vars => KnownInv'
<1> SUFFICES ASSUME KnownInv, [Next]_vars PROVE KnownInv'
  OBVIOUS
<1>1. IInv'
  BY NextIInv DEF KnownInv
<1>2. OwnHolder'
  BY NextMoved, NextOwnHolder DEF KnownInv, IInv
<1>3. CASE UNCHANGED vars
  BY <1>1, <1>2, <1>3
  DEF vars, KnownInv, StartedInv, InboxInv, LoadInv, RecordingWasStarted, Active, Exists
<1>4. CASE Next
  BY <1>1, <1>2, <1>4, RequestStarted, ContinueStarted, OutsideStarted DEF Next, KnownInv
<1> QED
  BY <1>3, <1>4

LEMMA SpecKnownInv == Spec => []KnownInv
<1>1. Init => StartedInv /\ OwnHolder
  BY ConstantsAssumption DEF Init, StartedInv, InboxInv, LoadInv, RecordingWasStarted, Active, Exists, Loop,
    OwnHolder, Holders
<1> QED
  BY <1>1, InitIInv, NextKnownInv, PTL DEF Spec, KnownInv

\* A recorder's child is not that of another, nor the handler's.
LEMMA ActiveOwn ==
  ASSUME KnownInv, NEW id \in RecorderIds, Active(id)
  PROVE  /\ recorders[id].process \in Pids /\ recorders[id].process # svc.local
         /\ \A other \in RecorderIds \ {id} :
              Exists(other) => recorders[other].process # recorders[id].process
BY OwnHolderIsOwnChild DEF KnownInv, IInv, NoNullDereference, OwnChild, Active

-----------------------------------------------------------------------------
\* A child is told to start once and before anything else, although starts fail, time out
\* and are retried: what RecordPipeline, which handles one start, takes for granted.
StartedOnce ==
  \A p \in Pids : \A i \in DOMAIN inbox[p] :
    inbox[p][i] \in StartCalls <=> i = 1 /\ proc[p] = "idle"

\* The calls in an inbox, and what the child they are for is doing.
Once(calls, state) ==
  \A i \in DOMAIN calls : calls[i] \in StartCalls <=> i = 1 /\ state = "idle"

LEMMA OnceAppend ==
  ASSUME NEW calls \in Seq(Calls), NEW call \in Calls, NEW state, Once(calls, state),
         call \in StartCalls <=> calls = << >> /\ state = "idle"
  PROVE  Once(Append(calls, call), state)
<1>1. /\ DOMAIN Append(calls, call) = 1..(Len(calls) + 1) /\ Len(calls) \in Nat
      /\ \A i \in 1..Len(calls) : Append(calls, call)[i] = calls[i]
      /\ Append(calls, call)[Len(calls) + 1] = call
  BY AppendProperties
<1>2. DOMAIN calls = 1..Len(calls) /\ (calls = << >> <=> Len(calls) = 0)
  BY EmptySeq
<1> QED
  BY <1>1, <1>2 DEF Once

LEMMA OnceTail ==
  ASSUME NEW calls \in Seq(Calls), calls # << >>, NEW state, NEW next, Once(calls, state),
         next # "idle"
  PROVE  Once(Tail(calls), next)
<1>1. /\ DOMAIN Tail(calls) = 1..(Len(calls) - 1) /\ Len(calls) \in Nat
      /\ \A i \in 1..(Len(calls) - 1) : Tail(calls)[i] = calls[i + 1]
  BY HeadTailProperties
<1>2. DOMAIN calls = 1..Len(calls)
  OBVIOUS
<1> QED
  BY <1>1, <1>2 DEF Once

LEMMA SendAppends ==
  ASSUME TypeOK, NEW client, NEW h, NEW call \in Calls, Send(client, h, call)
  PROVE  \A p \in Pids :
           \/ inbox'[p] = inbox[p]
           \/ p = h /\ proc[p] \in Running /\ inbox'[p] = Append(inbox[p], call)
BY DEF Send, Alive, TypeOK

\* What the child of a start or of a snapshot is before it is told to start.
Fresh(h) == h \in Pids => proc[h] \in {"idle", "exited", "none"} /\ inbox[h] = << >>
FreshInv ==
  /\ svc.pc \in StartPcs \ {"start.load"} => Fresh(recorders[svc.id].process)
  /\ svc.pc = "snapshot.subscribe" => Fresh(svc.local)

\* The steps of the handlers: they fork, wait, and send a start only to a fresh child.
LEMMA HandlerOnce ==
  ASSUME TypeOK, InboxInv, StartedOnce,
         \A p \in Pids :
           \/ proc'[p] = proc[p]
           \/ p \in FreePids /\ proc'[p] = "idle"
           \/ proc[p] = "exited" /\ proc'[p] = "none",
         \A p \in Pids :
           \/ inbox'[p] = inbox[p]
           \/ \E call \in Calls :
                /\ proc'[p] = proc[p] /\ inbox'[p] = Append(inbox[p], call)
                /\ call \in StartCalls <=> inbox[p] = << >> /\ proc[p] = "idle"
  PROVE  StartedOnce'
<1> SUFFICES ASSUME NEW p \in Pids PROVE Once(inbox'[p], proc'[p])
  BY DEF StartedOnce, Once, StartCalls
<1>1. inbox[p] \in Seq(Calls) /\ Once(inbox[p], proc[p])
  BY DEF StartedOnce, Once, StartCalls, TypeOK
<1>2. CASE inbox'[p] = inbox[p]
  <2>1. proc'[p] # proc[p] => inbox[p] = << >>
    BY DEF InboxInv, FreePids
  <2> QED
    BY <1>1, <1>2, <2>1, EmptySeq DEF Once
<1>3. ASSUME NEW call \in Calls, proc'[p] = proc[p], inbox'[p] = Append(inbox[p], call),
             call \in StartCalls <=> inbox[p] = << >> /\ proc[p] = "idle"
      PROVE  Once(inbox'[p], proc'[p])
  BY <1>1, <1>3, OnceAppend
<1> QED
  BY <1>2, <1>3

\* The children, the camera service and the bus.
LEMMA OutsideOnce ==
  ASSUME KnownInv, StartedOnce, FreshInv, Bus \/ \E p \in Pids : Child(p)
  PROVE  StartedOnce' /\ FreshInv'
<1>0. TypeOK /\ InboxInv
  BY DEF KnownInv, IInv, StartedInv
<1>1. UNCHANGED <<recorders, svc>>
  BY DEF Bus, CameraReply, BusError, CallTimeout, Child, ChildHandle, ChildEos, ChildExit, ChildCrash, End
<1>2. CASE Bus
  BY <1>1, <1>2 DEF Bus, CameraReply, BusError, CallTimeout, StartedOnce, FreshInv, Fresh
<1>3. ASSUME NEW p \in Pids, Child(p)
      PROVE  StartedOnce' /\ FreshInv'
  <2>1. /\ \A q \in Pids \ {p} : proc'[q] = proc[q] /\ inbox'[q] = inbox[q]
        /\ Once(inbox'[p], proc'[p])
        /\ proc[p] \in {"idle", "exited", "none"} /\ inbox[p] = << >> =>
             proc'[p] = "exited" /\ inbox'[p] = << >>
    <3>1. inbox[p] \in Seq(Calls) /\ Once(inbox[p], proc[p])
      BY <1>0 DEF StartedOnce, Once, StartCalls, TypeOK
    <3>2. CASE ChildHandle(p)
      <4>1. inbox[p] # << >> /\ inbox'[p] = Tail(inbox[p]) /\ proc[p] \in Running \ {"quitting"}
        BY <1>0, <3>2 DEF ChildHandle, TypeOK
      <4>2. proc'[p] # "idle" /\ \A q \in Pids \ {p} : proc'[q] = proc[q] /\ inbox'[q] = inbox[q]
        <5>1. proc[p] = "idle" => Head(inbox[p]) \in StartCalls
          BY <1>0, <4>1 DEF InboxInv
        <5> QED
          BY <1>0, <3>2, <4>1, <5>1
          DEF ChildHandle, ChildStart, ChildStop, ChildSwitch, TypeOK, StartCalls, NotLoaded
      <4>3. Once(Tail(inbox[p]), proc'[p])
        BY <3>1, <4>1, <4>2, OnceTail
      <4> QED
        BY <4>1, <4>2, <4>3
    <3>3. CASE ChildEos(p)
      BY <1>0, <3>1, <3>3 DEF ChildEos, TypeOK, Once
    <3>4. CASE ChildExit(p) \/ ChildCrash(p)
      <4>1. /\ \A q \in Pids \ {p} : proc'[q] = proc[q] /\ inbox'[q] = inbox[q]
            /\ proc'[p] = "exited" /\ inbox'[p] = << >>
        BY <1>0, <3>4 DEF ChildExit, ChildCrash, End, TypeOK
      <4> QED
        BY <4>1, EmptySeq DEF Once
    <3> QED
      BY <1>3, <3>2, <3>3, <3>4 DEF Child
  <2>2. StartedOnce'
    <3> SUFFICES ASSUME NEW q \in Pids PROVE Once(inbox'[q], proc'[q])
      BY DEF StartedOnce, Once, StartCalls
    <3> QED
      BY <2>1 DEF StartedOnce, Once, StartCalls
  <2>3. \A h : Fresh(h) => Fresh(h)'
    BY <2>1 DEF Fresh
  <2> QED
    BY <1>1, <2>2, <2>3 DEF FreshInv
<1> QED
  BY <1>2, <1>3

\* The requests.
LEMMA RequestOnce ==
  ASSUME KnownInv, StartedOnce, Request
  PROVE  StartedOnce' /\ FreshInv'
<1>0. TypeOK /\ InboxInv /\ RecordingWasStarted /\ IInv
  BY DEF KnownInv, IInv, StartedInv
<1>a. \A code : Answer(code) => svc'.pc = "loop"
  BY DEF Answer, Loop
<1>b. \A pc, id, h : Enter(pc, id, h) => svc'.pc = pc /\ svc'.id = id /\ svc'.local = h
  BY DEF Enter
<1>1. \A p \in Pids : proc'[p] = proc[p] \/ (p \in FreePids /\ proc'[p] = "idle")
  BY <1>0, RequestForks
<1>2. ASSUME NEW id \in RecorderIds, HandleStop(id) \/ HandlePause(id) \/ HandleResume(id)
      PROVE  /\ \A p \in Pids :
                  \/ inbox'[p] = inbox[p]
                  \/ \E call \in Calls :
                       /\ proc'[p] = proc[p] /\ inbox'[p] = Append(inbox[p], call)
                       /\ call \in StartCalls <=> inbox[p] = << >> /\ proc[p] = "idle"
             /\ svc'.pc \in {"loop", "stop.call", "pause.call", "resume.call"}
  <2>1. PICK states, call, pc :
          /\ states \subseteq {"RECORDING", "PAUSE"} /\ call \in {"stop", "pause", "resume"}
          /\ pc \in {"stop.call", "pause.call", "resume.call"} /\ Forward(id, states, call, pc)
    BY <1>2 DEF HandleStop, HandlePause, HandleResume
  <2>2. CASE Refuse(id, states) /\ UNCHANGED inbox
    BY <1>a, <2>2 DEF Refuse
  <2>3. CASE /\ recorders[id].state \in states /\ Enter(pc, id, NoProcess)
             /\ Send(recorders[id].client, recorders[id].process, call)
    <3>1. Active(id) /\ UNCHANGED proc
      BY <2>1, <2>3 DEF Forward, Serve, Active
    <3>2. proc[recorders[id].process] # "idle"
      BY <1>0, <3>1, ActiveStarted DEF WasStarted
    <3>3. call \in Calls /\ call \notin StartCalls
      BY <2>1 DEF Calls, StartCalls
    <3> QED
      BY <1>0, <1>b, <2>1, <2>3, <3>1, <3>2, <3>3, SendAppends
  <2> QED
    BY <2>1, <2>2, <2>3 DEF Forward
<1>3. ASSUME UNCHANGED inbox PROVE StartedOnce'
  BY <1>0, <1>1, <1>3, HandlerOnce
<1>4. ASSUME NEW h \in Handles, Fork(h), UNCHANGED inbox
      PROVE  Fresh(h)'
  BY <1>0, <1>4, ConstantsAssumption DEF Fork, Fresh, FreePids, InboxInv, TypeOK
<1>5. ASSUME NEW id \in RecorderIds, HandleStart(id)
      PROVE  StartedOnce' /\ FreshInv'
  <2>1. CASE \E code : Answer(code)
    BY <1>3, <1>5, <1>a, <2>1 DEF HandleStart, FreshInv, StartPcs
  <2>2. ASSUME NEW h \in Handles, Fork(h), recorders' = [recorders EXCEPT ![id].process = h],
               svc'.pc \in {"start.client", "start.reap"}, svc'.id = id
        PROVE  StartedOnce' /\ FreshInv'
    <3> DEFINE r == [recorders[id] EXCEPT !.process = h]
    <3>1. recorders' = [recorders EXCEPT ![id] = r]
      BY <2>2
    <3>2. r.process = h
      BY <1>0, <1>5 DEF HandleStart, Serve, Exists, TypeOK, Recorder
    <3> HIDE DEF r
    <3>3. recorders'[svc'.id].process = h
      BY <1>0, <2>2, <3>1, <3>2 DEF TypeOK
    <3>4. UNCHANGED inbox
      BY <1>5 DEF HandleStart
    <3>5. Fresh(h)'
      BY <1>4, <2>2, <3>4
    <3> QED
      BY <1>3, <2>2, <3>3, <3>4, <3>5 DEF FreshInv
  <2> QED
    <3>1. ASSUME NEW h \in Handles, Fork(h), recorders' = [recorders EXCEPT ![id].process = h],
                 NEW pc \in {"start.client", "start.reap"}, Enter(pc, id, recorders[id].process)
          PROVE  StartedOnce' /\ FreshInv'
      BY <1>b, <2>2, <3>1
    <3> QED
      BY <1>5, <2>1, <3>1 DEF HandleStart, Refuse
<1>6. ASSUME NEW id \in RecorderIds, HandleTakeSnapshot(id)
      PROVE  StartedOnce' /\ FreshInv'
  <2>1. UNCHANGED inbox
    BY <1>6 DEF HandleTakeSnapshot
  <2>2. CASE RefuseSnapshot(id)
    BY <1>3, <1>a, <2>1, <2>2 DEF RefuseSnapshot, Refuse, FreshInv, StartPcs
  <2>3. ASSUME NEW h \in Handles, Fork(h), Enter("snapshot.subscribe", id, h)
        PROVE  StartedOnce' /\ FreshInv'
    BY <1>3, <1>4, <1>b, <2>1, <2>3 DEF FreshInv, StartPcs
  <2> QED
    BY <1>6, <2>2, <2>3 DEF HandleTakeSnapshot
<1>7. ASSUME UNCHANGED inbox, svc'.pc \in {"loop", "open.reap", "close.reap"}
      PROVE  StartedOnce' /\ FreshInv'
  BY <1>3, <1>7 DEF FreshInv, StartPcs
<1>8. CASE RejectRequest
  BY <1>7, <1>8, <1>a DEF RejectRequest
<1>9. ASSUME NEW id \in RecorderIds,
             \/ HandleOpen(id) \/ HandleClose(id)
             \/ HandleSetOutputFile(id) \/ HandleSetOutputFormat(id)
             \/ HandleSetVideoFormat(id) \/ HandleSetAudioFormat(id)
      PROVE  StartedOnce' /\ FreshInv'
  BY <1>7, <1>9, <1>a, <1>b
  DEF HandleOpen, HandleClose, Destroy, HandleSetOutputFile, SetOutputFile, HandleSetOutputFormat,
    SetOutputFormat, HandleSetVideoFormat, SetVideoFormat, HandleSetAudioFormat, SetAudioFormat, Refuse
<1>10. ASSUME NEW id \in RecorderIds, HandleStop(id) \/ HandlePause(id) \/ HandleResume(id)
       PROVE  StartedOnce' /\ FreshInv'
  <2>1. StartedOnce'
    BY <1>0, <1>1, <1>2, <1>10, HandlerOnce
  <2>2. svc'.pc \in {"loop", "stop.call", "pause.call", "resume.call"}
    BY <1>2, <1>10
  <2> QED
    BY <2>1, <2>2 DEF FreshInv, StartPcs
<1> QED
  BY <1>5, <1>6, <1>8, <1>9, <1>10 DEF Request

\* The steps of a handler after a blocking call has returned.
LEMMA ContinueOnce ==
  ASSUME KnownInv, StartedOnce, FreshInv, Continue
  PROVE  StartedOnce' /\ FreshInv'
<1>0. TypeOK /\ InboxInv /\ HandlerInv
  BY DEF KnownInv, IInv, StartedInv
<1>1. svc.pc # "loop" /\ svc \in Service /\ svc.id \in RecorderIds
  BY <1>0 DEF HandlerInv, TypeOK, Continue, StartClient, StartCamera, StartFormat, StartLoad, StopCall,
    PauseCall, ResumeCall, Switch, SnapshotSubscribe, SnapshotLoad, SnapshotEos, SnapshotGiveUp,
    SnapshotStop, Reap, ReapNothing, ReapPcs
<1>m. PICK me \in RecorderIds : svc.id = me
  BY <1>1
<1>2. svc.pc # "close.reap" => Exists(svc.id) /\ Here \in Recorder
  BY <1>0, <1>1 DEF HandlerInv, Exists, Here, TypeOK
<1>a. \A code : Answer(code) => svc'.pc = "loop"
  BY DEF Answer, Loop
<1>b. \A pc : Goto(pc) => svc'.pc = pc /\ svc'.id = me
  BY <1>1, <1>m DEF Goto, Service
\* A call is sent.
<1>3. ASSUME UNCHANGED proc, NEW client, NEW h, NEW call \in Calls, Send(client, h, call),
             IF call \in StartCalls THEN Fresh(h) ELSE ~(h \in Pids /\ Fresh(h) /\ proc[h] = "idle")
      PROVE  StartedOnce'
  <2>1. ASSUME NEW p \in Pids, p = h, proc[p] \in Running, inbox'[p] = Append(inbox[p], call)
        PROVE  call \in StartCalls <=> inbox[p] = << >> /\ proc[p] = "idle"
    BY <1>3, <2>1 DEF Fresh, Running, NotLoaded
  <2>2. \A p \in Pids :
          \/ inbox'[p] = inbox[p]
          \/ \E c \in Calls :
               /\ proc'[p] = proc[p] /\ inbox'[p] = Append(inbox[p], c)
               /\ c \in StartCalls <=> inbox[p] = << >> /\ proc[p] = "idle"
    BY <1>0, <1>3, <2>1, SendAppends
  <2> QED
    BY <1>0, <1>3, <2>2, HandlerOnce
<1>4. ASSUME UNCHANGED <<proc, inbox>> PROVE StartedOnce'
  BY <1>0, <1>4, HandlerOnce
<1>5. ASSUME svc'.pc \notin StartPcs \ {"start.load"}, svc'.pc # "snapshot.subscribe" PROVE FreshInv'
  BY <1>5 DEF FreshInv
<1>6. CASE StartClient
  <2> DEFINE client == IF Here.client = "registered" THEN "unregistered" ELSE "registered"
  <2> DEFINE r == [Here EXCEPT !.client = client]
  <2>1. /\ recorders' = [recorders EXCEPT ![svc.id] = r] /\ UNCHANGED <<proc, inbox>>
        /\ svc'.pc \in {"start.camera", "start.format"} /\ svc'.id = me /\ svc.pc = "start.client"
    BY <1>6, <1>b DEF StartClient, Here
  <2>2. r.process = Here.process
    BY <1>2, <2>1 DEF Recorder
  <2> HIDE DEF r
  <2>3. recorders'[me].process = recorders[me].process
    BY <1>0, <1>m, <2>1, <2>2 DEF TypeOK, Here
  <2>4. Fresh(recorders[me].process)
    BY <1>m, <2>1 DEF FreshInv, StartPcs
  <2>5. FreshInv'
    BY <2>1, <2>3, <2>4 DEF FreshInv, Fresh
  <2> QED
    BY <1>4, <2>1, <2>5
<1>7. CASE StartCamera
  <2>1. UNCHANGED <<recorders, proc, inbox>> /\ svc.pc = "start.camera"
        /\ (svc'.pc = "loop" \/ (svc'.pc = "start.format" /\ svc'.id = me))
    BY <1>7, <1>a, <1>b DEF StartCamera
  <2>2. Fresh(recorders[me].process)
    BY <1>m, <2>1 DEF FreshInv, StartPcs
  <2>3. FreshInv'
    BY <2>1, <2>2 DEF FreshInv, Fresh, StartPcs
  <2> QED
    BY <1>4, <2>1, <2>3
<1>8. CASE StartFormat
  <2>1. UNCHANGED <<recorders, proc>> /\ svc.pc = "start.format" /\ svc'.pc \in {"loop", "start.load"}
    BY <1>8, <1>a, <1>b DEF StartFormat
  <2>2. FreshInv'
    BY <1>5, <2>1 DEF StartPcs
  <2>3. Fresh(Here.process)
    BY <2>1 DEF FreshInv, StartPcs, Here
  <2>4. "load" \in Calls /\ "load" \in StartCalls
    BY DEF Calls, StartCalls
  <2>5. StartedOnce'
    BY <1>3, <1>4, <1>8, <2>1, <2>3, <2>4 DEF StartFormat
  <2> QED
    BY <2>2, <2>5
<1>9. CASE SnapshotSubscribe
  <2>1. UNCHANGED proc /\ svc.pc = "snapshot.subscribe" /\ svc'.pc \in {"snapshot.reap", "snapshot.load"}
    BY <1>1, <1>9 DEF SnapshotSubscribe, Service
  <2>2. FreshInv'
    BY <1>5, <2>1 DEF StartPcs
  <2>3. Fresh(svc.local)
    BY <2>1 DEF FreshInv
  <2>4. {"capture", "empty"} \subseteq Calls /\ {"capture", "empty"} \subseteq StartCalls
    BY DEF Calls, StartCalls
  <2>5. UNCHANGED inbox \/ \E call \in {"capture", "empty"} : Send("registered", svc.local, call)
    BY <1>9 DEF SnapshotSubscribe
  <2>6. StartedOnce'
    BY <1>3, <1>4, <2>1, <2>3, <2>4, <2>5
  <2> QED
    BY <2>2, <2>6
<1>10. CASE SnapshotGiveUp
  <2>1. UNCHANGED proc /\ svc.pc = "snapshot.eos" /\ svc'.pc = "snapshot.stop"
        /\ Send("registered", svc.local, "stop")
    BY <1>10, <1>b DEF SnapshotGiveUp
  <2>2. FreshInv'
    BY <1>5, <2>1 DEF StartPcs
  <2>3. ~(svc.local \in Pids /\ Fresh(svc.local) /\ proc[svc.local] = "idle")
    BY <1>0, <2>1 DEF InboxInv, Fresh
  <2>4. "stop" \in Calls /\ "stop" \notin StartCalls
    BY DEF Calls, StartCalls
  <2> QED
    BY <1>3, <2>1, <2>2, <2>3, <2>4
<1>11. CASE StartLoad \/ StopCall \/ PauseCall \/ ResumeCall \/ SnapshotLoad \/ SnapshotEos \/ SnapshotStop
  <2>1. /\ UNCHANGED <<proc, inbox>>
        /\ svc'.pc \in {"loop", "stop.reap", "snapshot.eos", "snapshot.reap"}
    BY <1>11, <1>a, <1>b
    DEF StartLoad, StopCall, PauseCall, ResumeCall, Switch, SnapshotLoad, SnapshotEos, SnapshotStop, Enter
  <2> QED
    BY <1>4, <1>5, <2>1 DEF StartPcs
<1>12. CASE ReapNothing \/ \E p \in Pids : Reap(p)
  <2>1. svc.pc \in ReapPcs /\ AfterWait /\ UNCHANGED inbox
    BY <1>12 DEF ReapNothing, Reap
  <2>2. \A p \in Pids : proc'[p] = proc[p] \/ (proc[p] = "exited" /\ proc'[p] = "none")
    BY <1>0, <1>12 DEF ReapNothing, Reap, TypeOK
  <2>3. StartedOnce'
    BY <1>0, <2>1, <2>2, HandlerOnce
  <2>4. CASE svc'.pc = "loop"
    BY <1>5, <2>3, <2>4 DEF StartPcs
  <2>5. CASE svc.pc = "start.reap" /\ svc' = [svc EXCEPT !.pc = "start.client", !.local = NoProcess]
             /\ UNCHANGED recorders
    <3>1. svc'.pc = "start.client" /\ svc'.id = me
      BY <1>1, <1>m, <2>5 DEF Service
    <3>2. Fresh(recorders[me].process)
      BY <1>m, <2>5 DEF FreshInv, StartPcs
    <3>3. Fresh(recorders[me].process)'
      BY <2>1, <2>2, <2>5, <3>2 DEF Fresh
    <3>4. FreshInv'
      BY <2>5, <3>1, <3>3 DEF FreshInv
    <3> QED
      BY <2>3, <3>4
  <2> QED
    BY <1>a, <2>1, <2>4, <2>5 DEF AfterWait
<1> QED
  BY <1>6, <1>7, <1>8, <1>9, <1>10, <1>11, <1>12 DEF Continue

LEMMA SpecOnce == Spec => [](StartedOnce /\ FreshInv)
<1>1. Init => StartedOnce /\ FreshInv
  BY ConstantsAssumption DEF Init, StartedOnce, FreshInv, StartPcs, Loop
<1>2. KnownInv /\ StartedOnce /\ FreshInv /\ [Next]_vars => StartedOnce' /\ FreshInv'
  <2> SUFFICES ASSUME KnownInv, StartedOnce, FreshInv, [Next]_vars PROVE StartedOnce' /\ FreshInv'
    OBVIOUS
  <2>1. CASE UNCHANGED vars
    BY <2>1 DEF vars, StartedOnce, FreshInv, Fresh
  <2>2. CASE Next
    BY <2>2, OutsideOnce, RequestOnce, ContinueOnce DEF Next
  <2> QED
    BY <2>1, <2>2
<1> QED
  BY <1>1, <1>2, SpecKnownInv, PTL DEF Spec

\* Each child of the service handles one start at most, and no call before it, through any
\* failures, timeouts and retries: RecordPipeline may take that for granted.
THEOREM OneStart == Spec => []StartedOnce
  BY SpecOnce, PTL

-----------------------------------------------------------------------------
\* What a handler may wait for, whatever the surroundings do.

\* The child of a recorder that is open: of a start under way, or of one that failed.
Half(h) == h \in Pids =>
  \/ proc[h] \in {"none", "exited", "quitting"}
  \/ proc[h] = "idle" /\ (inbox[h] # << >> => Len(inbox[h]) = 1 /\ Head(inbox[h]) = "load")
  \/ proc[h] \in {"empty", "loaded"} /\ inbox[h] = << >>

\* That of a snapshot which was told to start.
SnapshotCalls == {"capture", "empty", "stop"}
Taken(h) == h \in Pids =>
  /\ proc[h] \in {"none", "exited", "quitting", "capturing", "empty", "idle"}
  /\ proc[h] = "idle" => inbox[h] # << >>
  /\ inbox[h] \in Seq(SnapshotCalls)

\* That of a recorder which was told to stop, and has said so.
Stopped(h) == h \in Pids =>
  \/ proc[h] \in {"none", "exited", "quitting"}
  \/ proc[h] = "empty" /\ inbox[h] = << >>

\* One that has not come to its stop yet: that is its last call.
StopLast(h) == h \in Pids /\ inbox[h] # << >> => inbox[h][Len(inbox[h])] = "stop"

HalfInv ==
  \A id \in RecorderIds :
    Exists(id) /\ recorders[id].state = "OPEN" => Half(recorders[id].process)

WaitInv ==
  /\ svc.pc # "snapshot.reap" => svc.err = "ERR_NONE"
  /\ svc.pc \in {"start.reap", "close.reap"} => Half(svc.local)
  /\ svc.pc = "stop.call" =>
       /\ resp = "none" => StopLast(recorders[svc.id].process)
       /\ resp = "true" => Stopped(recorders[svc.id].process)
  /\ svc.pc = "stop.reap" => Stopped(svc.local)
  /\ svc.pc \in {"snapshot.load", "snapshot.eos", "snapshot.stop", "snapshot.reap"} =>
       IF svc.err = "ERR_NONE" THEN Taken(svc.local) ELSE Fresh(svc.local)

\* A fresh child is that of a start which has not told it anything.
LEMMA FreshIsHalf == ASSUME NEW h, Fresh(h) PROVE Half(h)
BY DEF Fresh, Half

\* After the only call there is none.
LEMMA TailOfOne ==
  ASSUME NEW calls \in Seq(Calls), Len(calls) = 1
  PROVE  Tail(calls) = << >> /\ Head(calls) = calls[1]
<1>1. calls # << >>
  BY EmptySeq
<1>2. Tail(calls) \in Seq(Calls) /\ Len(Tail(calls)) = 0
  BY <1>1, HeadTailProperties
<1>3. Tail(calls) = << >>
  BY <1>2, EmptySeq
<1> QED
  BY <1>3

\* What a handled call makes of the child.
LEMMA HandlesCall ==
  ASSUME TypeOK, NEW p \in Pids, ChildHandle(p)
  PROVE  /\ proc[p] \in Running \ {"quitting"} /\ inbox[p] # << >>
         /\ inbox'[p] = Tail(inbox[p])
         /\ \/ Head(inbox[p]) = "load" /\ proc'[p] \in {"loaded", "empty", "quitting"}
            \/ Head(inbox[p]) = "capture" /\ proc'[p] \in {"capturing", "empty", "quitting"}
            \/ Head(inbox[p]) = "empty" /\ proc'[p] = "empty"
            \/ /\ Head(inbox[p]) = "stop"
               /\ \/ proc'[p] = IF proc[p] \in NotLoaded THEN proc[p] ELSE "quitting"
                  \/ proc'[p] = proc[p] /\ proc[p] = "capturing" /\ Reply(p, "false")
            \/ Head(inbox[p]) \in {"pause", "resume"}
<1>1. /\ proc[p] \in Running \ {"quitting"} /\ inbox[p] # << >>
      /\ inbox'[p] = Tail(inbox[p])
  BY DEF ChildHandle, TypeOK
<1>2. CASE ChildStart(p)
  BY <1>1, <1>2 DEF ChildStart, TypeOK
<1>3. CASE ChildStop(p)
  BY <1>1, <1>3 DEF ChildStop, TypeOK
<1>4. CASE ChildSwitch(p, "pause", "paused") \/ ChildSwitch(p, "resume", "loaded")
  BY <1>1, <1>4 DEF ChildSwitch
<1> QED
  BY <1>1, <1>2, <1>3, <1>4 DEF ChildHandle

\* A step of a child touches no other.
LEMMA OthersKept ==
  ASSUME TypeOK, NEW p \in Pids, Child(p)
  PROVE  \A q \in Pids \ {p} : proc'[q] = proc[q] /\ inbox'[q] = inbox[q]
<1>1. CASE ChildHandle(p)
  BY <1>1 DEF ChildHandle, ChildStart, ChildStop, ChildSwitch, TypeOK
<1>2. CASE ChildEos(p) \/ ChildExit(p) \/ ChildCrash(p)
  BY <1>2 DEF ChildEos, ChildExit, ChildCrash, End, TypeOK
<1> QED
  BY <1>1, <1>2 DEF Child

\* The steps of the children leave each what it is.
LEMMA ChildKeeps ==
  ASSUME TypeOK, InboxInv, NEW p \in Pids, Child(p), NEW h
  PROVE  /\ Half(h) => Half(h)'
         /\ Taken(h) => Taken(h)'
         /\ Stopped(h) => Stopped(h)'
         /\ Fresh(h) => Fresh(h)'
<1>1. CASE h \notin Pids \/ h # p
  BY <1>1, OthersKept DEF Half, Taken, Stopped, Fresh
<1>2. CASE h = p /\ ChildEos(p)
  BY <1>2 DEF ChildEos, Half, Taken, Stopped, Fresh, TypeOK
<1>3. CASE h = p /\ (ChildExit(p) \/ ChildCrash(p))
  <2>1. proc'[p] = "exited" /\ inbox'[p] = << >>
    BY <1>3 DEF ChildExit, ChildCrash, End, TypeOK
  <2>2. << >> \in Seq(SnapshotCalls)
    OBVIOUS
  <2> QED
    BY <1>3, <2>1, <2>2 DEF Half, Taken, Stopped, Fresh
<1>4. CASE h = p /\ ChildHandle(p)
  <2>0. /\ proc[p] \in Running \ {"quitting"} /\ inbox[p] # << >>
        /\ inbox'[p] = Tail(inbox[p]) /\ inbox[p] \in Seq(Calls)
    BY <1>4, HandlesCall DEF TypeOK
  <2>1. Half(h) => Half(h)'
    <3> SUFFICES ASSUME Half(p) PROVE Half(p)'
      BY <1>4
    <3>1. proc[p] = "idle" /\ Len(inbox[p]) = 1 /\ Head(inbox[p]) = "load"
      BY <2>0 DEF Half, Running, NotLoaded
    <3>2. proc'[p] \in {"loaded", "empty", "quitting"}
      BY <1>4, <3>1, HandlesCall
    <3>3. inbox'[p] = << >>
      BY <2>0, <3>1, TailOfOne
    <3> QED
      BY <3>2, <3>3 DEF Half
  <2>2. Taken(h) => Taken(h)'
    <3> SUFFICES ASSUME Taken(p) PROVE Taken(p)'
      BY <1>4
    <3>1. inbox[p] \in Seq(SnapshotCalls)
      BY DEF Taken
    <3>2. Head(inbox[p]) \in SnapshotCalls /\ Tail(inbox[p]) \in Seq(SnapshotCalls)
      BY <2>0, <3>1, HeadTailProperties
    <3>3. proc[p] = "idle" => Head(inbox[p]) \in StartCalls
      BY <2>0 DEF InboxInv
    <3>4. proc'[p] \in {"capturing", "empty", "quitting"}
      BY <1>4, <2>0, <3>2, <3>3, HandlesCall DEF SnapshotCalls, StartCalls, NotLoaded
    <3> QED
      BY <2>0, <3>2, <3>4 DEF Taken
  <2>3. Stopped(h) => Stopped(h)' /\ (Fresh(h) => Fresh(h)')
    BY <1>4, <2>0 DEF Stopped, Fresh, Running, NotLoaded
  <2>4. Fresh(h) => Fresh(h)'
    BY <1>4, <2>0 DEF Fresh, Running, NotLoaded
  <2> QED
    BY <2>1, <2>2, <2>3, <2>4
<1> QED
  BY <1>1, <1>2, <1>3, <1>4 DEF Child

\* A true reply to stop is that of a child which is left with nothing to do.
LEMMA StopAnswered ==
  ASSUME KnownInv, WaitInv, NEW p \in Pids, Child(p), svc.pc = "stop.call"
  PROVE  /\ resp' = "none" => StopLast(recorders[svc.id].process)'
         /\ resp' = "true" => Stopped(recorders[svc.id].process)'
<1>0. /\ TypeOK /\ InboxInv /\ RecordingWasStarted /\ Active(svc.id) /\ svc.id \in RecorderIds
      /\ UNCHANGED <<recorders, svc>>
  BY DEF KnownInv, IInv, StartedInv, NoNullDereference, HandlerInv, Child, ChildHandle, ChildEos,
    ChildExit, ChildCrash, End
<1> DEFINE h == recorders[svc.id].process
<1>1. h \in Pids /\ proc[h] # "idle" /\ Callee = h
  BY <1>0 DEF RecordingWasStarted, NoNullDereference, KnownInv, IInv, Callee, CallPcs
<1> HIDE DEF h
<1>2. resp' = resp \/ (resp = "none" /\ p = h /\ Len(inbox[p]) = 1 /\ ChildHandle(p))
  BY <1>1 DEF Child, ChildHandle, ChildEos, ChildExit, ChildCrash, End, ChildStart, ChildStop,
    ChildSwitch, Reply
<1>3. CASE resp = "none"
  <2>0. StopLast(h)
    BY <1>3 DEF WaitInv, h
  <2>1. CASE p # h
    BY <1>0, <1>1, <1>2, <1>3, <2>0, <2>1, OthersKept DEF StopLast, h
  <2>2. CASE p = h /\ ~ChildHandle(p)
    <3>1. inbox'[p] = inbox[p] \/ inbox'[p] = << >>
      BY <1>0, <2>2 DEF Child, ChildEos, ChildExit, ChildCrash, End, TypeOK
    <3> QED
      BY <1>0, <1>2, <1>3, <2>0, <2>2, <3>1 DEF StopLast, h
  <2>3. CASE p = h /\ ChildHandle(p)
    <3>1. /\ inbox[p] # << >> /\ inbox'[p] = Tail(inbox[p]) /\ inbox[p] \in Seq(Calls)
          /\ inbox[p][Len(inbox[p])] = "stop"
      BY <1>0, <1>1, <2>0, <2>3, HandlesCall DEF TypeOK, StopLast
    <3>2. CASE Len(inbox[p]) = 1
      <4>1. Head(inbox[p]) = "stop" /\ inbox'[p] = << >>
        BY <3>1, <3>2, TailOfOne
      <4>2. resp' = "true" => proc'[p] \in {"empty", "quitting"}
        BY <1>0, <1>1, <1>3, <2>3, <3>2, <4>1, HandlesCall DEF Reply, NotLoaded
      <4> QED
        BY <1>0, <2>3, <4>1, <4>2 DEF StopLast, Stopped, h
    <3>3. CASE Len(inbox[p]) # 1
      <4>1. StopLast(p)'
        <5>1. /\ Len(inbox[p]) \in Nat \ {0} /\ Len(Tail(inbox[p])) = Len(inbox[p]) - 1
              /\ \A i \in 1..(Len(inbox[p]) - 1) : Tail(inbox[p])[i] = inbox[p][i + 1]
          BY <3>1, HeadTailProperties, EmptySeq
        <5> QED
          BY <3>1, <3>3, <5>1 DEF StopLast
      <4> QED
        BY <1>0, <1>2, <1>3, <2>3, <3>3, <4>1 DEF h
    <3> QED
      BY <3>2, <3>3
  <2> QED
    BY <1>1, <2>1, <2>2, <2>3
<1>4. CASE resp = "true"
  BY <1>0, <1>2, <1>4, ChildKeeps DEF WaitInv
<1>5. CASE resp \notin {"none", "true"}
  BY <1>2, <1>5
<1> QED
  BY <1>3, <1>4, <1>5

\* The children, the camera service and the bus.
LEMMA OutsideWaits ==
  ASSUME KnownInv, HalfInv, WaitInv, Bus \/ \E p \in Pids : Child(p)
  PROVE  HalfInv' /\ WaitInv'
<1>0. TypeOK /\ InboxInv
  BY DEF KnownInv, IInv, StartedInv
<1>1. UNCHANGED <<recorders, svc>>
  BY DEF Bus, CameraReply, BusError, CallTimeout, Child, ChildHandle, ChildEos, ChildExit, ChildCrash, End
<1>2. CASE Bus
  <2>1. /\ UNCHANGED <<proc, inbox>> /\ resp = "none" /\ resp' # "none"
        /\ svc.pc # "start.camera" => resp' # "true"
    BY <1>2 DEF Bus, CameraReply, BusError, CallTimeout, Waiting
  <2>2. HalfInv'
    BY <1>1, <2>1 DEF HalfInv, Half, Exists
  <2>3. WaitInv'
    BY <1>1, <2>1 DEF WaitInv, Half, StopLast, Stopped, Taken, Fresh
  <2> QED
    BY <2>2, <2>3
<1>3. ASSUME NEW p \in Pids, Child(p)
      PROVE  HalfInv' /\ WaitInv'
  <2>1. \A h : /\ Half(h) => Half(h)'
               /\ Taken(h) => Taken(h)'
               /\ Stopped(h) => Stopped(h)'
               /\ Fresh(h) => Fresh(h)'
    BY <1>0, <1>3, ChildKeeps
  <2>2. HalfInv'
    BY <1>1, <2>1 DEF HalfInv, Exists
  <2>3. svc.pc = "stop.call" =>
          /\ resp' = "none" => StopLast(recorders[svc.id].process)'
          /\ resp' = "true" => Stopped(recorders[svc.id].process)'
    BY <1>3, StopAnswered
  <2>4. WaitInv'
    BY <1>1, <2>1, <2>3 DEF WaitInv
  <2> QED
    BY <2>2, <2>4
<1> QED
  BY <1>2, <1>3

\* What a step leaves as it is, or only reaps.
Still(h) == h \in Pids =>
  inbox'[h] = inbox[h] /\ (proc'[h] = proc[h] \/ (proc[h] = "exited" /\ proc'[h] = "none"))

LEMMA StillKeeps ==
  ASSUME NEW h, Still(h)
  PROVE  /\ Half(h) => Half(h)'
         /\ Taken(h) => Taken(h)'
         /\ Stopped(h) => Stopped(h)'
         /\ Fresh(h) => Fresh(h)'
<1>1. CASE h \notin Pids
  BY <1>1 DEF Half, Taken, Stopped, Fresh
<1>2. CASE h \in Pids
  BY <1>2 DEF Still, Half, Taken, Stopped, Fresh
<1> QED
  BY <1>1, <1>2

\* A step that replaces one recorder, or none, and disturbs no child of another.
LEMMA HalfKept ==
  ASSUME TypeOK, HalfInv, NEW me \in RecorderIds,
         \A id \in RecorderIds \ {me} : Exists(id) => Still(recorders[id].process),
         \A id \in RecorderIds \ {me} : recorders'[id] = recorders[id],
         (Exists(me) /\ recorders[me].state = "OPEN" => Half(recorders[me].process))'
  PROVE  HalfInv'
<1> SUFFICES ASSUME NEW id \in RecorderIds, Exists(id)', recorders'[id].state = "OPEN"
             PROVE  Half(recorders[id].process)'
  BY DEF HalfInv
<1>1. CASE id = me
  BY <1>1
<1>2. CASE id # me
  <2>1. Exists(id) /\ recorders[id].state = "OPEN" /\ recorders'[id].process = recorders[id].process
    BY <1>2 DEF Exists
  <2>2. PICK h : h = recorders[id].process
    OBVIOUS
  <2>3. Half(h) /\ Still(h)
    BY <1>2, <2>1, <2>2 DEF HalfInv
  <2>4. Half(h)'
    BY <2>3, StillKeeps
  <2> QED
    BY <2>1, <2>2, <2>4 DEF Half
<1> QED
  BY <1>1, <1>2

\* The requests.
LEMMA RequestWaits ==
  ASSUME KnownInv, HalfInv, Request
  PROVE  HalfInv' /\ WaitInv'
<1>0. TypeOK /\ InboxInv /\ IInv
  BY DEF KnownInv, IInv, StartedInv
<1>a. \A code : Answer(code) => svc' = Loop
  BY DEF Answer
<1>b. \A pc, id, h : Enter(pc, id, h) =>
        svc'.pc = pc /\ svc'.id = id /\ svc'.local = h /\ svc'.err = "ERR_NONE"
  BY DEF Enter
<1>c. svc' = Loop => WaitInv'
  BY DEF WaitInv, Loop
<1>d. svc'.pc \in {"open.reap", "start.client", "snapshot.subscribe", "pause.call", "resume.call"}
        /\ svc'.err = "ERR_NONE" => WaitInv'
  BY DEF WaitInv
<1>1. ASSUME UNCHANGED inbox, NEW id \in RecorderIds, Exists(id)
      PROVE  Still(recorders[id].process)
  <2>1. recorders[id].process \notin FreePids
    BY <1>1 DEF FreePids
  <2> QED
    BY <1>0, <1>1, <2>1, RequestForks DEF Still
<1>2. ASSUME UNCHANGED inbox, NEW me \in RecorderIds, NEW r, recorders' = [recorders EXCEPT ![me] = r],
             NEW h, r # NoRecorder /\ r.state = "OPEN" => r.process = h /\ Half(h)'
      PROVE  HalfInv'
  <2>1. recorders'[me] = r /\ \A id \in RecorderIds \ {me} : recorders'[id] = recorders[id]
    BY <1>0, <1>2 DEF TypeOK
  <2>2. (Exists(me) /\ recorders[me].state = "OPEN" => Half(recorders[me].process))'
    BY <1>2, <2>1 DEF Exists, Half
  <2> QED
    BY <1>0, <1>1, <1>2, <2>1, <2>2, HalfKept
<1>3. ASSUME UNCHANGED <<recorders, inbox>>
      PROVE  HalfInv'
  <2> SUFFICES ASSUME NEW id \in RecorderIds, Exists(id)', recorders'[id].state = "OPEN"
               PROVE  Half(recorders[id].process)'
    BY DEF HalfInv
  <2>1. PICK h : h = recorders[id].process
    OBVIOUS
  <2>2. Half(h) /\ Still(h)
    BY <1>1, <1>3, <2>1 DEF HalfInv, Exists
  <2>3. Half(h)'
    BY <2>2, StillKeeps
  <2> QED
    BY <1>3, <2>1, <2>3 DEF Half
<1>4. ASSUME NEW h \in Handles, Fork(h), UNCHANGED inbox
      PROVE  Half(h)'
  <2>1. Fresh(h)'
    BY <1>0, <1>4, ConstantsAssumption DEF Fork, Fresh, FreePids, InboxInv, TypeOK
  <2> QED
    BY <2>1 DEF Fresh, Half
<1>5. ASSUME NEW id \in RecorderIds, HandleStart(id)
      PROVE  HalfInv' /\ WaitInv'
  <2>1. CASE Refuse(id, {"OPEN"}) /\ UNCHANGED recorders
    BY <1>3, <1>5, <1>a, <1>c, <2>1 DEF HandleStart, Refuse
  <2>2. ASSUME NEW h \in Handles, Fork(h), recorders' = [recorders EXCEPT ![id].process = h],
               recorders[id].state = "OPEN",
               Enter(IF recorders[id].process = NoProcess THEN "start.client" ELSE "start.reap",
                     id, recorders[id].process)
        PROVE  HalfInv' /\ WaitInv'
    <3>1. PICK r : r = [recorders[id] EXCEPT !.process = h]
      OBVIOUS
    <3>2. r.process = h /\ recorders' = [recorders EXCEPT ![id] = r]
      BY <1>0, <1>5, <2>2, <3>1 DEF HandleStart, Serve, Exists, TypeOK, Recorder
    <3>3. UNCHANGED inbox /\ Exists(id)
      BY <1>5 DEF HandleStart, Serve
    <3>4. HalfInv'
      <4>1. Half(h)'
        BY <1>4, <2>2, <3>3
      <4> QED
        BY <1>2, <3>2, <3>3, <4>1
    <3>5. PICK old : old = recorders[id].process
      OBVIOUS
    <3>6. Half(old) /\ Still(old)
      BY <1>1, <2>2, <3>3, <3>5 DEF HalfInv
    <3>7. Half(old)'
      BY <3>6, StillKeeps
    <3>8. /\ svc'.local = old /\ svc'.err = "ERR_NONE"
          /\ svc'.pc \in {"start.client", "start.reap"}
      BY <1>b, <2>2, <3>5
    <3>9. Half(svc.local)'
      BY <3>7, <3>8 DEF Half
    <3> QED
      BY <3>4, <3>8, <3>9 DEF WaitInv
  <2> QED
    BY <1>5, <2>1, <2>2 DEF HandleStart
<1>6. ASSUME NEW id \in RecorderIds, HandleTakeSnapshot(id)
      PROVE  HalfInv' /\ WaitInv'
  <2>1. UNCHANGED <<recorders, inbox>>
    BY <1>6 DEF HandleTakeSnapshot
  <2>2. CASE RefuseSnapshot(id)
    BY <1>3, <1>a, <1>c, <2>1, <2>2 DEF RefuseSnapshot, Refuse
  <2>3. ASSUME NEW h \in Handles, Enter("snapshot.subscribe", id, h)
        PROVE  HalfInv' /\ WaitInv'
    BY <1>3, <1>b, <1>d, <2>1, <2>3
  <2> QED
    BY <1>6, <2>2, <2>3 DEF HandleTakeSnapshot
<1>7. ASSUME NEW id \in RecorderIds, HandleOpen(id)
      PROVE  HalfInv' /\ WaitInv'
  <2>1. UNCHANGED inbox
    BY <1>7 DEF HandleOpen
  <2>2. CASE Answer("ERR_SOURCE_NOT_SPECIFIED") /\ UNCHANGED recorders
    BY <1>3, <1>a, <1>c, <2>1, <2>2
  <2>3. ASSUME NEW video \in BOOLEAN, recorders' = [recorders EXCEPT ![id] = OpenRecorder(video)],
               NEW h, Destroy("open.reap", id, h)
        PROVE  HalfInv' /\ WaitInv'
    <3>1. OpenRecorder(video).process = NoProcess
      BY DEF OpenRecorder
    <3>2. HalfInv'
      <4>1. Half(NoProcess)'
        BY ConstantsAssumption DEF Half
      <4> QED
        BY <1>2, <2>1, <2>3, <3>1, <4>1
    <3>3. WaitInv'
      BY <1>a, <1>b, <1>c, <1>d, <2>3 DEF Destroy
    <3> QED
      BY <3>2, <3>3
  <2> QED
    BY <1>7, <2>2, <2>3 DEF HandleOpen
<1>8. ASSUME NEW id \in RecorderIds, HandleClose(id)
      PROVE  HalfInv' /\ WaitInv'
  <2>1. UNCHANGED inbox /\ Exists(id)
    BY <1>8 DEF HandleClose, Serve
  <2>2. CASE Answer("ERR_INVALID_STATE") /\ UNCHANGED recorders
    BY <1>3, <1>a, <1>c, <2>1, <2>2
  <2>3. CASE /\ CloseRecorder(id) /\ recorders' = [recorders EXCEPT ![id] = NoRecorder]
             /\ Destroy("close.reap", id, recorders[id].process)
    <3>1. HalfInv'
      BY <1>2, <2>1, <2>3
    <3>2. PICK old : old = recorders[id].process
      OBVIOUS
    <3>3. Half(old) /\ Still(old)
      BY <1>1, <2>1, <2>3, <3>2 DEF HalfInv, CloseRecorder
    <3>4. Half(old)'
      BY <3>3, StillKeeps
    <3>5. CASE svc' = Loop
      BY <1>c, <3>1, <3>5
    <3>6. CASE svc'.pc = "close.reap" /\ svc'.local = old /\ svc'.err = "ERR_NONE"
      <4>1. Half(svc.local)'
        BY <3>4, <3>6 DEF Half
      <4> QED
        BY <3>1, <3>6, <4>1 DEF WaitInv
    <3> QED
      BY <1>a, <1>b, <2>3, <3>2, <3>5, <3>6 DEF Destroy
  <2> QED
    BY <1>8, <2>2, <2>3 DEF HandleClose
<1>9. ASSUME NEW id \in RecorderIds, HandleSetOutputFormat(id)
      PROVE  HalfInv' /\ WaitInv'
  <2>1. svc' = Loop /\ UNCHANGED inbox /\ Exists(id) /\ recorders[id] \in Recorder
    BY <1>0, <1>9, <1>a
    DEF HandleSetOutputFormat, SetOutputFormat, Refuse, Serve, Exists, TypeOK
  <2>2. CASE UNCHANGED recorders
    BY <1>3, <1>c, <2>1, <2>2
  <2>3. ASSUME NEW b, recorders' = [recorders EXCEPT ![id].badFormat = b],
               recorders[id].state = "OPEN"
        PROVE  HalfInv' /\ WaitInv'
    <3>1. PICK r, h : r = [recorders[id] EXCEPT !.badFormat = b] /\ h = recorders[id].process
      OBVIOUS
    <3>2. r.process = h /\ recorders' = [recorders EXCEPT ![id] = r]
      BY <2>1, <2>3, <3>1 DEF Recorder
    <3>3. Half(h) /\ Still(h)
      BY <1>1, <2>1, <2>3, <3>1 DEF HalfInv
    <3>4. Half(h)'
      BY <3>3, StillKeeps
    <3>5. HalfInv'
      BY <1>2, <2>1, <3>2, <3>4
    <3> QED
      BY <1>c, <2>1, <3>5
  <2> QED
    BY <1>9, <2>2, <2>3 DEF HandleSetOutputFormat, SetOutputFormat
<1>10. ASSUME NEW id \in RecorderIds, HandleStop(id) \/ HandlePause(id) \/ HandleResume(id)
       PROVE  HalfInv' /\ WaitInv'
  <2>1. PICK states, call, pc :
          /\ states \subseteq {"RECORDING", "PAUSE"} /\ call \in Calls
          /\ (pc = "stop.call" /\ call = "stop") \/ pc \in {"pause.call", "resume.call"}
          /\ Forward(id, states, call, pc)
    BY <1>10 DEF HandleStop, HandlePause, HandleResume, Calls
  <2>2. UNCHANGED <<recorders, proc>>
    BY <2>1 DEF Forward
  <2>3. CASE Refuse(id, states) /\ UNCHANGED inbox
    BY <1>3, <1>a, <1>c, <2>2, <2>3 DEF Refuse
  <2>4. CASE /\ recorders[id].state \in states /\ Enter(pc, id, NoProcess)
             /\ Send(recorders[id].client, recorders[id].process, call)
    <3>1. Active(id) /\ Exists(id)
      BY <2>1, <2>4 DEF Forward, Serve, Active
    <3>2. \A p \in Pids : \/ inbox'[p] = inbox[p]
                          \/ p = recorders[id].process /\ inbox'[p] = Append(inbox[p], call)
      BY <1>0, <2>1, <2>4, SendAppends
    <3>3. HalfInv'
      <4>1. \A other \in RecorderIds \ {id} : Exists(other) => Still(recorders[other].process)
        BY <2>2, <3>1, <3>2, ActiveOwn DEF Still
      <4>2. recorders'[id].state # "OPEN"
        BY <2>2, <3>1 DEF Active
      <4> QED
        BY <1>0, <2>2, <4>1, <4>2, HalfKept
    <3>4. pc = "stop.call" => resp' # "true" /\ (resp' = "none" => StopLast(recorders[id].process)')
      <4>1. resp' # "true" /\ recorders[id].process \in Pids
        BY <1>0, <2>4, <3>1, ActiveOwn DEF Send
      <4> DEFINE h == recorders[id].process
      <4>2. ASSUME call = "stop", resp' = "none" PROVE inbox'[h] # << >> => inbox'[h][Len(inbox'[h])] = "stop"
        <5>1. CASE Alive(h)
          <6>1. inbox[h] \in Seq(Calls)
            BY <1>0, <4>1 DEF TypeOK
          <6>2. inbox'[h] = Append(inbox[h], call)
            BY <1>0, <2>4, <3>1, <4>1, <5>1, ActiveOwn DEF Send, TypeOK, KnownInv, IInv, NoNullDereference
          <6> HIDE DEF h
          <6>3. Len(Append(inbox[h], call)) = Len(inbox[h]) + 1
                /\ Append(inbox[h], call)[Len(inbox[h]) + 1] = call
            BY <2>1, <6>1, AppendProperties
          <6> QED
            BY <4>2, <6>2, <6>3
        <5>2. CASE ~Alive(h)
          <6>1. inbox[h] = << >>
            BY <1>0, <4>1, <5>2 DEF Alive, InboxInv, TypeOK, ProcStates
          <6>2. inbox' = inbox
            BY <2>4, <5>2 DEF Send
          <6> QED
            BY <6>1, <6>2
        <5> QED
          BY <5>1, <5>2
      <4> QED
        BY <2>1, <2>2, <4>1, <4>2 DEF StopLast
    <3>5. svc'.pc = pc /\ svc'.id = id /\ svc'.err = "ERR_NONE"
      BY <1>b, <2>4
    <3>6. WaitInv'
      BY <2>1, <2>2, <3>4, <3>5 DEF WaitInv
    <3> QED
      BY <3>3, <3>6
  <2> QED
    BY <2>1, <2>3, <2>4 DEF Forward
<1>11. CASE \/ RejectRequest
            \/ \E id \in RecorderIds :
                 HandleSetOutputFile(id) \/ HandleSetVideoFormat(id) \/ HandleSetAudioFormat(id)
  BY <1>3, <1>11, <1>a, <1>c
  DEF RejectRequest, HandleSetOutputFile, SetOutputFile, HandleSetVideoFormat, SetVideoFormat,
    HandleSetAudioFormat, SetAudioFormat, Refuse
<1> QED
  BY <1>5, <1>6, <1>7, <1>8, <1>9, <1>10, <1>11 DEF Request

\* The steps of a handler after a blocking call has returned.
LEMMA ContinueWaits ==
  ASSUME KnownInv, HalfInv, WaitInv, FreshInv, Continue
  PROVE  HalfInv' /\ WaitInv'
<1>0. TypeOK /\ InboxInv /\ HandlerInv /\ IInv /\ OwnHolder
  BY DEF KnownInv, IInv, StartedInv
<1>1. svc.pc # "loop" /\ svc \in Service /\ svc.id \in RecorderIds
  BY <1>0 DEF HandlerInv, TypeOK, Continue, StartClient, StartCamera, StartFormat, StartLoad, StopCall,
    PauseCall, ResumeCall, Switch, SnapshotSubscribe, SnapshotLoad, SnapshotEos, SnapshotGiveUp,
    SnapshotStop, Reap, ReapNothing, ReapPcs
<1>m. PICK me, local : svc.id = me /\ svc.local = local
  OBVIOUS
<1>2. me \in RecorderIds /\ (svc.pc # "close.reap" => Exists(me) /\ Here = recorders[me] /\ Here \in Recorder)
  BY <1>0, <1>1, <1>m DEF HandlerInv, Exists, Here, TypeOK
<1>p. PICK mine : mine = recorders[me].process
  OBVIOUS
<1>a. \A code : Answer(code) => svc' = Loop
  BY DEF Answer
<1>b. \A pc : Goto(pc) => svc'.pc = pc /\ svc'.id = me /\ svc'.local = local /\ svc'.err = svc.err
  BY <1>1, <1>m DEF Goto, Service
<1>c. svc' = Loop => WaitInv'
  BY DEF WaitInv, Loop
\* The recorders and their children.
<1>3. ASSUME NEW r, recorders' = [recorders EXCEPT ![me] = r], r # NoRecorder,
             \A id \in RecorderIds \ {me} : Exists(id) => Still(recorders[id].process),
             NEW h, r.state = "OPEN" => r.process = h /\ Half(h)'
      PROVE  HalfInv'
  <2>1. recorders'[me] = r /\ \A id \in RecorderIds \ {me} : recorders'[id] = recorders[id]
    BY <1>0, <1>2, <1>3 DEF TypeOK
  <2>2. (Exists(me) /\ recorders[me].state = "OPEN" => Half(recorders[me].process))'
    BY <1>3, <2>1 DEF Exists, Half
  <2> QED
    BY <1>0, <1>2, <1>3, <2>1, <2>2, HalfKept
<1>4. ASSUME UNCHANGED recorders, \A id \in RecorderIds : Exists(id) => Still(recorders[id].process)
      PROVE  HalfInv'
  <2> SUFFICES ASSUME NEW id \in RecorderIds, Exists(id)', recorders'[id].state = "OPEN"
               PROVE  Half(recorders[id].process)'
    BY DEF HalfInv
  <2>1. PICK h : h = recorders[id].process
    OBVIOUS
  <2>2. Half(h) /\ Still(h)
    BY <1>4, <2>1 DEF HalfInv, Exists
  <2>3. Half(h)'
    BY <2>2, StillKeeps
  <2> QED
    BY <1>4, <2>1, <2>3 DEF Half
<1>5. ASSUME UNCHANGED <<proc, inbox>>
      PROVE  \A h : Still(h)
  BY <1>5 DEF Still
<1>6. ASSUME UNCHANGED proc, NEW client, NEW h, NEW call \in Calls, Send(client, h, call)
      PROVE  /\ \A other : other # h => Still(other)
             /\ resp' # "true"
             /\ Still(h) \/ (h \in Pids /\ Alive(h) /\ inbox'[h] = Append(inbox[h], call))
  <2>1. \A p \in Pids : \/ inbox'[p] = inbox[p]
                        \/ p = h /\ proc[p] \in Running /\ inbox'[p] = Append(inbox[p], call)
    BY <1>0, <1>6, SendAppends
  <2> QED
    BY <1>6, <2>1 DEF Still, Send, Alive
<1>7. CASE StartClient
  <2>1. PICK r : r = [Here EXCEPT !.client = IF Here.client = "registered" THEN "unregistered"
                                                                        ELSE "registered"]
    OBVIOUS
  <2>2. /\ recorders' = [recorders EXCEPT ![me] = r] /\ UNCHANGED <<proc, inbox>>
        /\ svc'.pc \in {"start.camera", "start.format"} /\ svc'.err = svc.err
        /\ svc.pc = "start.client"
    BY <1>7, <1>b, <1>m, <2>1 DEF StartClient, Here
  <2>3. r \in Recorder /\ r.process = mine /\ r.state = Here.state
    BY <1>2, <1>p, <2>1, <2>2 DEF Recorder
  <2>4. r.state = "OPEN" => Half(mine)'
    <3>1. Here.state = "OPEN" => Half(mine)
      BY <1>2, <1>p, <2>2 DEF HalfInv
    <3> QED
      BY <1>5, <2>2, <2>3, <3>1, StillKeeps
  <2>5. HalfInv'
    BY <1>3, <1>5, <2>2, <2>3, <2>4, ConstantsAssumption
  <2> QED
    BY <2>2, <2>5 DEF WaitInv
<1>8. CASE StartCamera
  <2>1. UNCHANGED <<recorders, proc, inbox>> /\ svc.pc = "start.camera"
        /\ (svc' = Loop \/ (svc'.pc = "start.format" /\ svc'.err = svc.err))
    BY <1>8, <1>a, <1>b DEF StartCamera
  <2>2. HalfInv'
    BY <1>4, <1>5, <2>1
  <2> QED
    BY <1>c, <2>1, <2>2 DEF WaitInv
<1>9. CASE StartFormat
  <2>0. UNCHANGED <<recorders, proc>> /\ svc.pc = "start.format"
    BY <1>9 DEF StartFormat
  <2>1. CASE svc' = Loop /\ UNCHANGED inbox
    BY <1>4, <1>5, <1>c, <2>0, <2>1
  <2>2. CASE Goto("start.load") /\ Send(Here.client, Here.process, "load")
    <3>1. Fresh(mine)
      BY <1>m, <1>p, <2>0 DEF FreshInv, StartPcs
    <3>2. "load" \in Calls /\ mine = Here.process
      BY <1>2, <1>p, <2>0 DEF Calls
    <3>3. /\ \A other : other # mine => Still(other)
          /\ Still(mine) \/ (mine \in Pids /\ Alive(mine) /\ inbox'[mine] = Append(inbox[mine], "load"))
      BY <1>6, <2>0, <2>2, <3>2
    <3>4. Half(mine)'
      <4>1. CASE Still(mine)
        <5>1. Fresh(mine)'
          BY <3>1, <4>1, StillKeeps
        <5> QED
          BY <5>1 DEF Fresh, Half
      <4>2. CASE mine \in Pids /\ Alive(mine) /\ inbox'[mine] = Append(inbox[mine], "load")
        <5>1. proc'[mine] = "idle" /\ inbox[mine] = << >> /\ inbox[mine] \in Seq(Calls)
          BY <1>0, <2>0, <3>1, <4>2 DEF Alive, Fresh, Running, NotLoaded, TypeOK
        <5>2. Len(Append(inbox[mine], "load")) = 1 /\ Head(Append(inbox[mine], "load")) = "load"
          BY <3>2, <5>1, AppendProperties, HeadTailAppend, EmptySeq
        <5> QED
          BY <4>2, <5>1, <5>2 DEF Half
      <4> QED
        BY <3>3, <4>1, <4>2
    <3>5. HalfInv'
      <4>1. \A id \in RecorderIds \ {me} : Exists(id) => Still(recorders[id].process)
        <5> SUFFICES ASSUME NEW id \in RecorderIds \ {me}, Exists(id) PROVE Still(recorders[id].process)
          OBVIOUS
        <5>1. CASE recorders[id].process \notin Pids
          BY <5>1 DEF Still
        <5>2. CASE recorders[id].process \in Pids
          <6>1. Exists(me) /\ recorders[id].process # mine
            BY <1>0, <1>2, <1>p, <2>0, <5>2 DEF OwnHolder, Holders
          <6> QED
            BY <3>3, <6>1
        <5> QED
          BY <5>1, <5>2
      <4>2. (Exists(me) /\ recorders[me].state = "OPEN" => Half(recorders[me].process))'
        BY <1>p, <2>0, <3>4 DEF Half
      <4> QED
        BY <1>0, <1>2, <2>0, <4>1, <4>2, HalfKept
    <3>6. svc'.pc = "start.load" /\ svc'.err = svc.err
      BY <1>b, <2>2
    <3> QED
      BY <2>0, <3>5, <3>6 DEF WaitInv
  <2> QED
    BY <1>9, <1>a, <2>1, <2>2 DEF StartFormat
\* The reply decides on the state.
<1>10. ASSUME UNCHANGED <<proc, inbox>>, svc.pc # "close.reap", NEW state \in {"RECORDING", "PAUSE"},
              \/ recorders' = [recorders EXCEPT ![svc.id].state = state] \/ UNCHANGED recorders
       PROVE  HalfInv'
  <2>1. CASE UNCHANGED recorders
    BY <1>4, <1>5, <1>10, <2>1
  <2>2. CASE recorders' = [recorders EXCEPT ![svc.id].state = state]
    <3>1. PICK r : r = [Here EXCEPT !.state = state]
      OBVIOUS
    <3>2. r \in Recorder /\ r.state # "OPEN" /\ recorders' = [recorders EXCEPT ![me] = r]
      BY <1>2, <1>10, <1>m, <2>2, <3>1 DEF Recorder
    <3> QED
      BY <1>3, <1>5, <1>10, <3>2, ConstantsAssumption
  <2> QED
    BY <1>10, <2>1, <2>2
<1>11. CASE StartLoad \/ PauseCall \/ ResumeCall
  <2>1. /\ UNCHANGED <<proc, inbox>> /\ svc.pc # "close.reap" /\ svc' = Loop
        /\ \/ UNCHANGED recorders
           \/ \E state \in {"RECORDING", "PAUSE"} :
                recorders' = [recorders EXCEPT ![svc.id].state = state]
    BY <1>11, <1>a DEF StartLoad, PauseCall, ResumeCall, Switch
  <2> QED
    BY <1>10, <1>c, <2>1
<1>12. CASE StopCall
  <2>0. UNCHANGED <<proc, inbox>> /\ svc.pc = "stop.call"
    BY <1>12 DEF StopCall
  <2>1. CASE svc' = Loop /\ UNCHANGED recorders
    BY <1>4, <1>5, <1>c, <2>0, <2>1
  <2>2. CASE /\ resp = "true"
             /\ recorders' = [recorders EXCEPT ![svc.id].state = "OPEN", ![svc.id].process = NoProcess]
             /\ Enter("stop.reap", svc.id, Here.process)
    <3>1. PICK r : r = [Here EXCEPT !.state = "OPEN", !.process = NoProcess]
      OBVIOUS
    <3>2. r \in Recorder /\ r.process = NoProcess /\ recorders' = [recorders EXCEPT ![me] = r]
      BY <1>0, <1>2, <1>m, <2>0, <2>2, <3>1 DEF Recorder, Handles, TypeOK
    <3>3. Half(NoProcess)'
      BY ConstantsAssumption DEF Half
    <3>4. HalfInv'
      BY <1>3, <1>5, <2>0, <3>2, <3>3, ConstantsAssumption
    <3>5. Stopped(mine)
      BY <1>2, <1>m, <1>p, <2>0, <2>2 DEF WaitInv
    <3>6. Stopped(mine)'
      BY <1>5, <2>0, <3>5, StillKeeps
    <3>7. svc'.pc = "stop.reap" /\ svc'.local = mine /\ svc'.err = "ERR_NONE"
      BY <1>2, <1>p, <2>0, <2>2 DEF Enter
    <3>8. Stopped(svc.local)'
      BY <3>6, <3>7 DEF Stopped
    <3> QED
      BY <3>4, <3>7, <3>8 DEF WaitInv
  <2> QED
    BY <1>12, <1>a, <2>1, <2>2 DEF StopCall
\* The handler's own child is that of no recorder.
<1>13. ASSUME \A h : h # local => Still(h)
       PROVE  \A id \in RecorderIds : Exists(id) => Still(recorders[id].process)
  <2> SUFFICES ASSUME NEW id \in RecorderIds, Exists(id) PROVE Still(recorders[id].process)
    OBVIOUS
  <2>1. CASE recorders[id].process \notin Pids
    BY <2>1 DEF Still
  <2>2. CASE recorders[id].process \in Pids
    BY <1>0, <1>13, <1>m, <2>2 DEF OwnHolder, Holders
  <2> QED
    BY <2>1, <2>2
\* The child of a snapshot is sent one more call.
<1>14. ASSUME UNCHANGED proc, NEW call \in SnapshotCalls, Send("registered", local, call),
              (Fresh(local) /\ call # "stop") \/ Taken(local)
       PROVE  Taken(local)'
  <2>1. call \in Calls
    BY DEF Calls, SnapshotCalls
  <2>2. CASE local \in Pids /\ Alive(local)
    <3>1. inbox'[local] = Append(inbox[local], call)
      BY <1>0, <1>14, <2>2 DEF Send, TypeOK
    <3>2. inbox[local] \in Seq(SnapshotCalls)
      BY <1>14, <2>2, EmptySeq DEF Fresh, Taken
    <3>3. Append(inbox[local], call) \in Seq(SnapshotCalls) /\ Append(inbox[local], call) # << >>
      BY <3>2, AppendProperties
    <3>4. proc[local] \in {"none", "exited", "quitting", "capturing", "empty", "idle"}
      BY <1>14, <2>2 DEF Fresh, Taken
    <3> QED
      BY <1>14, <3>1, <3>3, <3>4 DEF Taken
  <2>3. CASE ~(local \in Pids /\ Alive(local))
    <3>1. UNCHANGED inbox
      BY <1>14, <2>3 DEF Send, Alive
    <3>2. local \in Pids => proc[local] # "idle"
      BY <2>3 DEF Alive, Running, NotLoaded
    <3> QED
      BY <1>14, <3>1, <3>2, EmptySeq DEF Fresh, Taken
  <2> QED
    BY <2>2, <2>3
<1>15. CASE SnapshotSubscribe
  <2>0. UNCHANGED <<recorders, proc>> /\ svc.pc = "snapshot.subscribe" /\ svc.err = "ERR_NONE"
    BY <1>15 DEF SnapshotSubscribe, WaitInv
  <2>1. Fresh(local)
    BY <1>m, <2>0 DEF FreshInv
  <2>2. CASE /\ svc' = [svc EXCEPT !.pc = "snapshot.reap", !.err = "ERR_SNAPSHOT_CAPTURE_FAILED"]
             /\ UNCHANGED inbox
    <3>1. svc'.pc = "snapshot.reap" /\ svc'.err # "ERR_NONE" /\ svc'.local = local
      BY <1>1, <1>m, <2>2 DEF Service
    <3>2. Fresh(svc.local)'
      BY <2>0, <2>1, <2>2, <3>1 DEF Fresh
    <3>3. HalfInv'
      BY <1>4, <1>5, <2>0, <2>2
    <3> QED
      BY <3>1, <3>2, <3>3 DEF WaitInv
  <2>3. CASE /\ svc' = [svc EXCEPT !.pc = "snapshot.load"]
             /\ \E call \in {"capture", "empty"} : Send("registered", svc.local, call)
    <3>1. PICK call \in {"capture", "empty"} : Send("registered", local, call)
      BY <1>m, <2>3
    <3>2. call \in Calls /\ call \in SnapshotCalls /\ call # "stop"
      BY DEF Calls, SnapshotCalls
    <3>3. Taken(local)'
      BY <1>14, <2>0, <2>1, <3>1, <3>2
    <3>4. \A h : h # local => Still(h)
      BY <1>6, <2>0, <3>1, <3>2
    <3>5. HalfInv'
      BY <1>4, <1>13, <2>0, <3>4
    <3>6. svc'.pc = "snapshot.load" /\ svc'.err = "ERR_NONE" /\ svc'.local = local
      BY <1>1, <1>m, <2>0, <2>3 DEF Service
    <3>7. Taken(svc.local)'
      BY <3>3, <3>6 DEF Taken
    <3> QED
      BY <3>5, <3>6, <3>7 DEF WaitInv
  <2> QED
    BY <1>15, <2>2, <2>3 DEF SnapshotSubscribe
<1>16. CASE SnapshotLoad \/ SnapshotEos \/ SnapshotStop
  <2>1. /\ UNCHANGED <<recorders, proc, inbox>>
        /\ svc.pc \in {"snapshot.load", "snapshot.eos", "snapshot.stop"}
        /\ svc'.pc \in {"snapshot.eos", "snapshot.reap"} /\ svc'.local = local /\ svc'.err = svc.err
    BY <1>16, <1>b DEF SnapshotLoad, SnapshotEos, SnapshotStop
  <2>2. svc.err = "ERR_NONE" /\ Taken(local)
    BY <1>m, <2>1 DEF WaitInv
  <2>3. Taken(svc.local)'
    BY <2>1, <2>2 DEF Taken
  <2>4. HalfInv'
    BY <1>4, <1>5, <2>1
  <2> QED
    BY <2>1, <2>2, <2>3, <2>4 DEF WaitInv
<1>17. CASE SnapshotGiveUp
  <2>1. /\ UNCHANGED proc /\ svc.pc = "snapshot.eos" /\ Send("registered", local, "stop")
        /\ svc'.pc = "snapshot.stop" /\ svc'.local = local /\ svc'.err = svc.err
    BY <1>17, <1>b, <1>m DEF SnapshotGiveUp
  <2>2. svc.err = "ERR_NONE" /\ Taken(local)
    BY <1>m, <2>1 DEF WaitInv
  <2>3. "stop" \in Calls /\ "stop" \in SnapshotCalls
    BY DEF Calls, SnapshotCalls
  <2>4. Taken(local)'
    BY <1>14, <2>1, <2>2, <2>3
  <2>5. \A h : h # local => Still(h)
    BY <1>6, <2>1, <2>3
  <2>6. PICK r : r = [Here EXCEPT !.lateEos = TRUE]
    OBVIOUS
  <2>7. /\ r \in Recorder /\ r.process = mine /\ r.state = Here.state
        /\ recorders' = [recorders EXCEPT ![me] = r]
    BY <1>2, <1>17, <1>m, <1>p, <2>1, <2>6 DEF Recorder, SnapshotGiveUp
  <2>8. r.state = "OPEN" => Half(mine)'
    <3>1. Here.state = "OPEN" => Half(mine)
      BY <1>2, <1>p, <2>1 DEF HalfInv
    <3>2. Still(mine)
      BY <1>2, <1>13, <1>p, <2>1, <2>5
    <3> QED
      BY <2>7, <3>1, <3>2, StillKeeps
  <2>9. HalfInv'
    BY <1>3, <1>13, <2>5, <2>7, <2>8, ConstantsAssumption
  <2>10. Taken(svc.local)'
    BY <2>1, <2>4 DEF Taken
  <2> QED
    BY <2>1, <2>2, <2>9, <2>10 DEF WaitInv
<1>18. CASE ReapNothing \/ \E p \in Pids : Reap(p)
  <2>1. svc.pc \in ReapPcs /\ AfterWait
    BY <1>18 DEF ReapNothing, Reap
  <2>2. \A h : Still(h)
    BY <1>0, <1>18 DEF ReapNothing, Reap, TypeOK, Still
  <2>3. CASE /\ svc.pc = "start.reap" /\ svc' = [svc EXCEPT !.pc = "start.client", !.local = NoProcess]
             /\ UNCHANGED recorders
    <3>1. svc'.pc = "start.client" /\ svc'.err = svc.err
      BY <1>1, <2>3 DEF Service
    <3>2. HalfInv'
      BY <1>4, <2>2, <2>3
    <3> QED
      BY <2>3, <3>1, <3>2 DEF WaitInv
  <2>4. CASE /\ svc.pc = "stop.reap" /\ svc' = Loop
             /\ recorders' = [recorders EXCEPT ![svc.id].client = "null"]
    <3>1. PICK r : r = [Here EXCEPT !.client = "null"]
      OBVIOUS
    <3>2. /\ r \in Recorder /\ r.process = mine /\ r.state = Here.state
          /\ recorders' = [recorders EXCEPT ![me] = r]
      BY <1>2, <1>m, <1>p, <2>4, <3>1 DEF Recorder
    <3>3. r.state = "OPEN" => Half(mine)'
      <4>1. Here.state = "OPEN" => Half(mine)
        BY <1>2, <1>p, <2>4 DEF HalfInv
      <4> QED
        BY <2>2, <3>2, <4>1, StillKeeps
    <3>4. HalfInv'
      BY <1>3, <2>2, <3>2, <3>3, ConstantsAssumption
    <3> QED
      BY <1>c, <2>4, <3>4
  <2>5. CASE svc' = Loop /\ UNCHANGED recorders
    BY <1>4, <1>c, <2>2, <2>5
  <2> QED
    BY <1>a, <2>1, <2>3, <2>4, <2>5 DEF AfterWait
<1> QED
  BY <1>7, <1>8, <1>9, <1>11, <1>12, <1>15, <1>16, <1>17, <1>18 DEF Continue

\* What the invariant says of the child waited for.
LEMMA WaitInvReason == KnownInv /\ WaitInv => WaitHasReason
<1> SUFFICES ASSUME KnownInv, WaitInv, svc.pc \in ReapPcs, Alive(svc.local), ~EndsByItself(svc.local)
             PROVE  \/ svc.pc = "open.reap"
                    \/ /\ svc.pc \in {"start.reap", "close.reap"}
                       /\ proc[svc.local] \in {"idle", "empty", "loaded"}
                    \/ svc.pc = "stop.reap" /\ proc[svc.local] = "empty"
                    \/ /\ svc.pc = "snapshot.reap"
                       /\ IF svc.err = "ERR_NONE"
                          THEN \/ proc[svc.local] = "empty"
                               \/ inbox[svc.local] # << >> /\ Head(inbox[svc.local]) = "empty"
                          ELSE proc[svc.local] = "idle" /\ inbox[svc.local] = << >>
  BY DEF WaitHasReason
<1>1. svc.local \in Pids /\ proc[svc.local] \in Running /\ proc[svc.local] \notin {"capturing", "quitting"}
  BY DEF Alive, EndsByItself
<1>2. CASE svc.pc \in {"start.reap", "close.reap"}
  BY <1>1, <1>2 DEF WaitInv, Half, Running, NotLoaded
<1>3. CASE svc.pc = "stop.reap"
  BY <1>1, <1>3 DEF WaitInv, Stopped, Running, NotLoaded
<1>4. CASE svc.pc = "snapshot.reap" /\ svc.err # "ERR_NONE"
  BY <1>1, <1>4 DEF WaitInv, Fresh, Running, NotLoaded
<1>5. CASE svc.pc = "snapshot.reap" /\ svc.err = "ERR_NONE" /\ proc[svc.local] = "idle"
  <2>1. inbox[svc.local] # << >> /\ inbox[svc.local] \in Seq(SnapshotCalls)
    BY <1>1, <1>5 DEF WaitInv, Taken
  <2>2. Head(inbox[svc.local]) \in SnapshotCalls
    BY <2>1, HeadTailProperties
  <2>3. Head(inbox[svc.local]) \in StartCalls
    BY <1>1, <1>5, <2>1 DEF KnownInv, StartedInv, InboxInv
  <2> QED
    BY <1>5, <2>1, <2>2, <2>3 DEF EndsByItself, SnapshotCalls, StartCalls
<1>6. CASE svc.pc = "snapshot.reap" /\ svc.err = "ERR_NONE" /\ proc[svc.local] # "idle"
  BY <1>1, <1>6 DEF WaitInv, Taken, Running, NotLoaded
<1> QED
  BY <1>2, <1>3, <1>4, <1>5, <1>6 DEF ReapPcs

\* Whatever goes wrong around the service, its thread waits for a child that was not told
\* to end only where a recorder is replaced, a start has failed, a child had loaded nothing
\* or a snapshot was not subscribed to or started nothing.
THEOREM WaitsHaveReason == Spec => []WaitHasReason
<1>1. Init => HalfInv /\ WaitInv
  BY DEF Init, HalfInv, Exists, WaitInv, Loop
<1>2. KnownInv /\ FreshInv /\ StartedOnce /\ HalfInv /\ WaitInv /\ [Next]_vars => HalfInv' /\ WaitInv'
  <2> SUFFICES ASSUME KnownInv, FreshInv, StartedOnce, HalfInv, WaitInv, [Next]_vars
               PROVE  HalfInv' /\ WaitInv'
    OBVIOUS
  <2>1. CASE UNCHANGED vars
    <3>1. HalfInv'
      BY <2>1 DEF vars, HalfInv, Half, Exists
    <3>2. WaitInv'
      BY <2>1 DEF vars, WaitInv, Half, StopLast, Stopped, Taken, Fresh
    <3> QED
      BY <3>1, <3>2
  <2>2. CASE Next
    BY <2>2, OutsideWaits, RequestWaits, ContinueWaits DEF Next
  <2> QED
    BY <2>1, <2>2
<1> QED
  BY <1>1, <1>2, WaitInvReason, SpecKnownInv, SpecOnce, PTL DEF Spec

-----------------------------------------------------------------------------
\* Where no call runs out of time, at most one call is on its way.

Prompt == "timeout" \notin Env

Fits(pc, call) ==
  /\ pc = "start.load" => call = "load"
  /\ pc = "snapshot.load" => call \in {"capture", "empty"}
  /\ pc \in {"snapshot.stop", "stop.call"} => call = "stop"
  /\ pc = "pause.call" => call = "pause"
  /\ pc = "resume.call" => call = "resume"

\* The only call there is is the one the handler waits for.
OneCall ==
  \A p \in Pids : inbox[p] # << >> =>
    /\ svc.pc \in CallPcs /\ resp = "none" /\ Callee = p
    /\ Len(inbox[p]) = 1 /\ Fits(svc.pc, Head(inbox[p]))

\* When there is no call, callSync leaves at most its own.
LEMMA SendOne ==
  ASSUME TypeOK, \A p \in Pids : inbox[p] = << >>,
         NEW client, NEW h, NEW call \in Calls, Send(client, h, call)
  PROVE  /\ resp' \in {"none", "unparsable"}
         /\ \A p \in Pids : inbox'[p] # << >> =>
              p = h /\ resp' = "none" /\ Len(inbox'[p]) = 1 /\ Head(inbox'[p]) = call
<1>1. CASE inbox' = inbox
  BY <1>1, SendType
<1>2. CASE resp' = "none" /\ h \in Pids /\ inbox' = [inbox EXCEPT ![h] = Append(inbox[h], call)]
  <2>1. inbox[h] = << >> /\ inbox[h] \in Seq(Calls)
    BY <1>2 DEF TypeOK
  <2>2. Len(Append(inbox[h], call)) = 1 /\ Head(Append(inbox[h], call)) = call
    BY <2>1, AppendProperties, HeadTailAppend, EmptySeq
  <2>3. inbox'[h] = Append(inbox[h], call) /\ \A p \in Pids \ {h} : inbox'[p] = << >>
    BY <1>2 DEF TypeOK
  <2> QED
    BY <1>2, <2>2, <2>3
<1> QED
  BY <1>1, <1>2, SendType DEF Send, Alive

\* A call is answered for a child that runs only by the child, which takes it with that.
LEMMA OutsideOneCall ==
  ASSUME Prompt, KnownInv, OneCall, Bus \/ \E p \in Pids : Child(p)
  PROVE  /\ OneCall'
         /\ Bus => /\ svc.pc \in CallPcs /\ resp = "none" /\ UNCHANGED <<proc, inbox>>
                   /\ \A p \in Pids : inbox[p] = << >>
         /\ \A p \in Pids : ChildHandle(p) =>
              /\ svc.pc \in CallPcs \ {"start.camera"} /\ resp = "none" /\ Callee = p
              /\ Fits(svc.pc, Head(inbox[p])) /\ \A q \in Pids : inbox'[q] = << >>
              /\ \A value : Reply(p, value) => resp' = value
<1>0. TypeOK /\ InboxInv
  BY DEF KnownInv, IInv, StartedInv
<1>1. UNCHANGED <<recorders, svc>>
  BY DEF Bus, CameraReply, BusError, CallTimeout, Child, ChildHandle, ChildEos, ChildExit, ChildCrash, End
<1>2. ASSUME Bus
      PROVE  /\ OneCall' /\ svc.pc \in CallPcs /\ resp = "none" /\ UNCHANGED <<proc, inbox>>
             /\ \A p \in Pids : inbox[p] = << >>
  <2>1. UNCHANGED <<proc, inbox>> /\ svc.pc \in CallPcs /\ resp = "none"
    BY <1>2 DEF Bus, CameraReply, BusError, CallTimeout, Waiting
  <2>2. \A p \in Pids : inbox[p] = << >>
    <3> SUFFICES ASSUME NEW p \in Pids, inbox[p] # << >> PROVE FALSE
      OBVIOUS
    <3>1. Callee = p
      BY DEF OneCall
    <3>2. proc[p] \in Running
      BY <1>0 DEF InboxInv, TypeOK, ProcStates
    <3>3. svc.pc # "start.camera"
      BY <3>1, ConstantsAssumption DEF Callee
    <3> QED
      BY <1>2, <3>1, <3>2, <3>3 DEF Bus, CameraReply, BusError, CallTimeout, Alive, Prompt
  <2> QED
    BY <2>1, <2>2 DEF OneCall
<1>3. ASSUME NEW p \in Pids, ChildHandle(p)
      PROVE  /\ OneCall'
             /\ svc.pc \in CallPcs \ {"start.camera"} /\ resp = "none" /\ Callee = p
             /\ Fits(svc.pc, Head(inbox[p])) /\ \A q \in Pids : inbox'[q] = << >>
             /\ \A value : Reply(p, value) => resp' = value
  <2>1. /\ svc.pc \in CallPcs /\ resp = "none" /\ Callee = p
        /\ Len(inbox[p]) = 1 /\ Fits(svc.pc, Head(inbox[p])) /\ inbox[p] \in Seq(Calls)
    BY <1>0, <1>3 DEF OneCall, ChildHandle, TypeOK
  <2>2. \A q \in Pids : inbox'[q] = << >>
    <3>1. Tail(inbox[p]) = << >>
      <4>1. inbox[p] # << >>
        BY <1>3 DEF ChildHandle
      <4>2. Tail(inbox[p]) \in Seq(Calls) /\ Len(Tail(inbox[p])) = 0
        BY <2>1, <4>1, HeadTailProperties
      <4> QED
        BY <4>2, EmptySeq
    <3>2. \A q \in Pids \ {p} : inbox[q] = << >>
      BY <2>1 DEF OneCall
    <3> QED
      BY <1>0, <1>3, <3>1, <3>2 DEF ChildHandle, TypeOK
  <2>3. \A value : Reply(p, value) => resp' = value
    BY <2>1 DEF Reply
  <2>4. svc.pc # "start.camera"
    BY <2>1, ConstantsAssumption DEF Callee
  <2> QED
    BY <2>1, <2>2, <2>3, <2>4 DEF OneCall
<1>4. ASSUME NEW p \in Pids, ChildEos(p) PROVE OneCall'
  BY <1>1, <1>4 DEF ChildEos, OneCall, Callee
<1>5. ASSUME NEW p \in Pids, ChildExit(p) \/ ChildCrash(p) PROVE OneCall'
  <2>1. UNCHANGED resp /\ inbox' = [inbox EXCEPT ![p] = << >>]
    BY <1>5 DEF ChildExit, ChildCrash, End
  <2> QED
    BY <1>0, <1>1, <2>1 DEF OneCall, Callee, TypeOK
<1> QED
  BY <1>2, <1>3, <1>4, <1>5 DEF Child

\* A request finds no call, and leaves at most that of stop, pause or resume.
LEMMA RequestOneCall ==
  ASSUME KnownInv, OneCall, Request
  PROVE  /\ OneCall' /\ svc'.pc # "start.load"
         /\ svc'.pc \in {"stop.call", "pause.call", "resume.call"} => resp' # "true"
<1>0. TypeOK
  BY DEF KnownInv, IInv
<1>1. svc.pc = "loop"
  BY DEF Request, RejectRequest, HandleOpen, HandleClose, HandleSetOutputFile,
    HandleSetOutputFormat, HandleSetVideoFormat, HandleSetAudioFormat, HandleStart, HandleStop,
    HandlePause, HandleResume, Forward, HandleTakeSnapshot, Serve
<1>2. \A p \in Pids : inbox[p] = << >>
  BY <1>1 DEF OneCall, CallPcs
<1>a. \A code : Answer(code) => svc'.pc = "loop"
  BY DEF Answer, Loop
<1>b. \A pc, id, h : Enter(pc, id, h) => svc'.pc = pc /\ svc'.id = id
  BY DEF Enter
<1>3. CASE UNCHANGED inbox /\ svc'.pc \notin {"start.load", "stop.call", "pause.call", "resume.call"}
  BY <1>2, <1>3 DEF OneCall
<1>4. ASSUME NEW id \in RecorderIds, NEW states,
             NEW pc \in {"stop.call", "pause.call", "resume.call"},
             NEW call \in Calls, Fits(pc, call), Forward(id, states, call, pc)
      PROVE  /\ svc'.pc # "start.load"
             /\ svc'.pc \in {"stop.call", "pause.call", "resume.call"} => resp' # "true"
             /\ OneCall'
  <2>1. CASE Refuse(id, states) /\ UNCHANGED inbox
    BY <1>a, <1>3, <2>1 DEF Refuse
  <2>2. CASE Enter(pc, id, NoProcess) /\ Send(recorders[id].client, recorders[id].process, call)
    <3>1. svc'.pc = pc /\ svc'.id = id /\ UNCHANGED recorders
      BY <1>b, <1>4, <2>2 DEF Forward
    <3>2. /\ resp' \in {"none", "unparsable"}
          /\ \A p \in Pids : inbox'[p] # << >> =>
               /\ p = recorders[id].process /\ resp' = "none" /\ Len(inbox'[p]) = 1
               /\ Head(inbox'[p]) = call
      BY <1>0, <1>2, <2>2, SendOne
    <3>3. Callee' = recorders[id].process /\ svc'.pc \in CallPcs
      BY <3>1 DEF Callee, CallPcs
    <3>4. OneCall'
      BY <1>4, <3>1, <3>2, <3>3 DEF OneCall
    <3> QED
      BY <3>1, <3>2, <3>4
  <2> QED
    BY <1>4, <2>1, <2>2 DEF Forward
<1>5. ASSUME NEW id \in RecorderIds, HandleStop(id) \/ HandlePause(id) \/ HandleResume(id)
      PROVE  /\ svc'.pc # "start.load"
             /\ svc'.pc \in {"stop.call", "pause.call", "resume.call"} => resp' # "true"
             /\ OneCall'
  <2>1. /\ {"stop", "pause", "resume"} \subseteq Calls
        /\ Fits("stop.call", "stop") /\ Fits("pause.call", "pause") /\ Fits("resume.call", "resume")
    BY DEF Calls, Fits
  <2>2. CASE HandleStop(id)
    BY <1>4, <2>1, <2>2 DEF HandleStop
  <2>3. CASE HandlePause(id)
    BY <1>4, <2>1, <2>3 DEF HandlePause
  <2>4. CASE HandleResume(id)
    BY <1>4, <2>1, <2>4 DEF HandleResume
  <2> QED
    BY <1>5, <2>2, <2>3, <2>4
<1> QED
  BY <1>a, <1>b, <1>3, <1>5
  DEF Request, RejectRequest, HandleOpen, HandleClose, HandleSetOutputFile, SetOutputFile,
    HandleSetOutputFormat, SetOutputFormat, HandleSetVideoFormat, SetVideoFormat,
    HandleSetAudioFormat, SetAudioFormat, HandleStart, HandleTakeSnapshot, RefuseSnapshot,
    Refuse, Destroy

\* A handler goes on when its call has been handled; it makes at most one call.
LEMMA ContinueOneCall ==
  ASSUME KnownInv, OneCall, Continue
  PROVE  OneCall' /\ \A p \in Pids : inbox[p] = << >>
<1>0. TypeOK /\ svc \in Service
  BY DEF KnownInv, IInv, TypeOK
<1>1. \A p \in Pids : inbox[p] = << >>
  BY DEF OneCall, CallPcs, Continue, StartClient, StartCamera, StartFormat, StartLoad, StopCall,
    PauseCall, ResumeCall, Switch, SnapshotSubscribe, SnapshotLoad, SnapshotEos, SnapshotGiveUp,
    SnapshotStop, Reap, ReapNothing, ReapPcs
<1>2. CASE UNCHANGED inbox
  BY <1>1, <1>2 DEF OneCall
<1>3. ASSUME NEW client, NEW h, NEW call \in Calls, Send(client, h, call),
             svc'.pc \in CallPcs, Callee' = h, Fits(svc'.pc, call)
      PROVE  OneCall'
  <2>1. \A p \in Pids : inbox'[p] # << >> =>
          p = h /\ resp' = "none" /\ Len(inbox'[p]) = 1 /\ Head(inbox'[p]) = call
    BY <1>0, <1>1, <1>3, SendOne
  <2> QED
    BY <1>3, <2>1 DEF OneCall
<1>4. CASE StartFormat /\ ~UNCHANGED inbox
  <2>1. /\ svc' = [svc EXCEPT !.pc = "start.load"] /\ UNCHANGED recorders
        /\ Send(Here.client, Here.process, "load")
    BY <1>4 DEF StartFormat, Goto
  <2>2. svc'.pc = "start.load" /\ svc'.id = svc.id
    BY <1>0, <2>1 DEF Service
  <2>3. Callee' = Here.process /\ svc'.pc \in CallPcs /\ Fits(svc'.pc, "load")
    BY <2>1, <2>2 DEF Callee, CallPcs, Fits, Here
  <2> QED
    BY <1>1, <1>3, <2>1, <2>3 DEF Calls
<1>5. CASE SnapshotSubscribe /\ ~UNCHANGED inbox
  <2>1. PICK call \in {"capture", "empty"} :
          svc' = [svc EXCEPT !.pc = "snapshot.load"] /\ Send("registered", svc.local, call)
    BY <1>5 DEF SnapshotSubscribe
  <2>2. svc'.pc = "snapshot.load" /\ svc'.local = svc.local
    BY <1>0, <2>1 DEF Service
  <2>3. Callee' = svc.local /\ svc'.pc \in CallPcs /\ Fits(svc'.pc, call) /\ call \in Calls
    BY <2>2 DEF Callee, CallPcs, Fits, Calls
  <2> QED
    BY <1>1, <1>3, <2>1, <2>3
<1>6. CASE SnapshotGiveUp
  <2>1. svc' = [svc EXCEPT !.pc = "snapshot.stop"] /\ Send("registered", svc.local, "stop")
    BY <1>6 DEF SnapshotGiveUp, Goto
  <2>2. svc'.pc = "snapshot.stop" /\ svc'.local = svc.local
    BY <1>0, <2>1 DEF Service
  <2>3. Callee' = svc.local /\ svc'.pc \in CallPcs /\ Fits(svc'.pc, "stop")
    BY <2>2 DEF Callee, CallPcs, Fits
  <2> QED
    BY <1>1, <1>3, <2>1, <2>3 DEF Calls
<1>7. StartFormat \/ SnapshotSubscribe \/ SnapshotGiveUp \/ UNCHANGED inbox
  BY DEF Continue, StartClient, StartCamera, StartLoad, StopCall, PauseCall, ResumeCall, Switch,
    SnapshotLoad, SnapshotEos, SnapshotStop, Reap, ReapNothing
<1> QED
  BY <1>1, <1>2, <1>4, <1>5, <1>6, <1>7

-----------------------------------------------------------------------------
\* Surroundings in which no call is lost, a pipeline that is asked for is loaded, and
\* children end only when they are told to.  Forks may still fail, ids clash, snapshots be
\* given up and pipelines refuse to pause.

Orderly == Env \cap {"loadFail", "timeout", "crash", "crashEarly"} = {}

\* A child that ends is that of the Process object the handler has, or will have.
OnlyOwnEnds ==
  /\ \A p \in Pids : proc[p] \in {"quitting", "exited"} =>
       p = svc.local \/ (svc.pc = "stop.call" /\ p = recorders[svc.id].process /\ resp = "true")
  /\ \A p \in Pids : proc[p] = "capturing" => p = svc.local

ByState(id) == IF recorders[id].state = "RECORDING" THEN {"loaded"} ELSE {"paused"}

\* Where the pipeline of a recorder has got to when the reply to a call has come in.
Reached(id) ==
  IF ~(svc.id = id /\ resp = "true" /\ svc.pc \in {"stop.call", "pause.call", "resume.call"})
  THEN ByState(id)
  ELSE IF svc.pc = "stop.call" THEN {"quitting", "exited"}
  ELSE IF svc.pc = "pause.call" THEN {"paused"} ELSE {"loaded"}

FollowsCalls ==
  /\ \A id \in RecorderIds : Active(id) => proc[recorders[id].process] \in Reached(id)
  /\ svc.pc = "start.load" /\ resp = "true" => proc[recorders[svc.id].process] = "loaded"

OrderlyInv == OneCall /\ OnlyOwnEnds /\ FollowsCalls

\* The call a child handles is the one that is waited for.
LEMMA OutsideOrderly ==
  ASSUME Orderly, KnownInv, OrderlyInv, Bus \/ \E p \in Pids : Child(p)
  PROVE  OrderlyInv'
<1>0. /\ TypeOK /\ InboxInv /\ NoNullDereference /\ HandlerInv /\ StageInv
      /\ OneCall /\ OnlyOwnEnds /\ FollowsCalls
  BY DEF KnownInv, IInv, StartedInv, OrderlyInv
<1>1. UNCHANGED <<recorders, svc>>
  BY DEF Bus, CameraReply, BusError, CallTimeout, Child, ChildHandle, ChildEos, ChildExit, ChildCrash, End
<1>2. (\A id \in RecorderIds : Active(id)' <=> Active(id))
  BY <1>1 DEF Active, Exists
<1>p. Prompt
  BY DEF Orderly, Prompt
<1>q. OneCall'
  BY <1>p, OutsideOneCall DEF OrderlyInv
<1>3. CASE Bus
  <2>1. /\ UNCHANGED <<proc, inbox>> /\ svc.pc \in CallPcs /\ resp = "none"
        /\ resp' = "true" => svc.pc = "start.camera"
    BY <1>3 DEF Bus, CameraReply, BusError, CallTimeout, Waiting
  <2>2. OnlyOwnEnds'
    BY <1>0, <1>1, <2>1 DEF OnlyOwnEnds
  <2>3. FollowsCalls'
    BY <1>0, <1>1, <1>2, <2>1 DEF FollowsCalls, Reached, ByState
  <2> QED
    BY <1>q, <2>2, <2>3 DEF OrderlyInv
<1>4. ASSUME NEW p \in Pids, ChildHandle(p) PROVE OrderlyInv'
  <2>1. /\ svc.pc \in CallPcs \ {"start.camera"} /\ resp = "none" /\ Callee = p
        /\ Fits(svc.pc, Head(inbox[p]))
    BY <1>0, <1>4, <1>p, OutsideOneCall
  <2>3. \A value : Reply(p, value) => resp' = value
    BY <1>0, <1>4, <1>p, OutsideOneCall
  <2>4. OneCall'
    BY <1>q
  <2>5. svc.pc \in {"snapshot.load", "snapshot.stop"} => p = svc.local
    BY <2>1 DEF Callee
  <2>6. svc.pc \in {"start.load", "stop.call", "pause.call", "resume.call"} =>
          p = recorders[svc.id].process /\ svc.id \in RecorderIds /\ Exists(svc.id)
    BY <1>0, <2>1 DEF Callee, CallPcs, HandlerInv
  <2>7. \A q \in Pids \ {p} : proc'[q] = proc[q]
    BY <1>0, <1>4 DEF ChildHandle, ChildStart, ChildStop, ChildSwitch, TypeOK
  <2>8. \A id \in RecorderIds : Active(id) /\ recorders[id].process # p =>
          proc'[recorders[id].process] = proc[recorders[id].process]
    BY <2>7, ActiveOwn
  <2>10. CASE svc.pc = "start.load"
    <3>1. resp' = "true" /\ proc'[p] = "loaded"
      BY <1>0, <1>4, <2>1, <2>3, <2>10
      DEF ChildHandle, ChildStart, ChildStop, ChildSwitch, Fits, Orderly, TypeOK
    <3>2. \A id \in RecorderIds : Active(id) => id # svc.id /\ recorders[id].process # p
      BY <1>0, <2>6, <2>10, ActiveOwn DEF StageInv, StartPcs, Active
    <3>3. FollowsCalls'
      BY <1>0, <1>1, <1>2, <2>6, <2>8, <2>10, <3>1, <3>2 DEF FollowsCalls, Reached, ByState
    <3>4. OnlyOwnEnds'
      BY <1>0, <1>1, <2>7, <2>10, <3>1 DEF OnlyOwnEnds
    <3> QED
      BY <2>4, <3>3, <3>4 DEF OrderlyInv
  <2>11. CASE svc.pc \in {"snapshot.load", "snapshot.stop"}
    <3>1. \A id \in RecorderIds : Active(id) => recorders[id].process # p
      BY <2>5, <2>11, ActiveOwn
    <3>2. FollowsCalls'
      BY <1>0, <1>1, <1>2, <2>8, <2>11, <3>1 DEF FollowsCalls, Reached, ByState
    <3>3. OnlyOwnEnds'
      BY <1>0, <1>1, <2>5, <2>7, <2>11 DEF OnlyOwnEnds
    <3> QED
      BY <2>4, <3>2, <3>3 DEF OrderlyInv
  <2>12. CASE svc.pc \in {"stop.call", "pause.call", "resume.call"}
    <3>1. /\ Active(svc.id) /\ p = recorders[svc.id].process
          /\ proc[p] \in ByState(svc.id) /\ proc[p] \in {"loaded", "paused"}
      BY <1>0, <2>1, <2>6, <2>12 DEF NoNullDereference, FollowsCalls, Reached, ByState
    <3>2. \A id \in RecorderIds \ {svc.id} : Active(id) => recorders[id].process # p
      BY <2>6, <2>12, <3>1, ActiveOwn DEF Active
    <3>3. \/ resp' = "true" /\ proc'[p] =
               IF svc.pc = "stop.call" THEN "quitting"
               ELSE IF svc.pc = "pause.call" THEN "paused" ELSE "loaded"
          \/ resp' = "false" /\ proc'[p] = proc[p]
      BY <1>0, <1>4, <2>1, <2>3, <2>12, <3>1
      DEF ChildHandle, ChildStart, ChildStop, ChildSwitch, Fits, NotLoaded, TypeOK
    <3>4. FollowsCalls'
      BY <1>0, <1>1, <1>2, <2>1, <2>8, <2>12, <3>1, <3>2, <3>3 DEF FollowsCalls, Reached, ByState
    <3>5. OnlyOwnEnds'
      BY <1>0, <1>1, <2>1, <2>7, <2>12, <3>1, <3>3 DEF OnlyOwnEnds
    <3> QED
      BY <2>4, <3>4, <3>5 DEF OrderlyInv
  <2> QED
    BY <2>1, <2>10, <2>11, <2>12 DEF CallPcs
<1>5. ASSUME NEW p \in Pids, ChildEos(p) PROVE OrderlyInv'
  <2>1. /\ UNCHANGED <<resp, inbox>> /\ p = svc.local /\ proc[p] = "capturing"
        /\ proc' = [proc EXCEPT ![p] = "quitting"]
    BY <1>0, <1>5 DEF ChildEos, OnlyOwnEnds
  <2>3. OnlyOwnEnds'
    BY <1>0, <1>1, <2>1 DEF OnlyOwnEnds, TypeOK
  <2>4. \A id \in RecorderIds : Active(id) =>
          recorders[id].process \in Pids /\ recorders[id].process # p
    BY <2>1, ActiveOwn
  <2>5. FollowsCalls'
    <3>1. \A id \in RecorderIds : Active(id)' => proc'[recorders'[id].process] \in Reached(id)'
      BY <1>0, <1>1, <1>2, <2>1, <2>4 DEF FollowsCalls, Reached, ByState, TypeOK
    <3>2. svc.pc = "start.load" /\ resp = "true" => recorders[svc.id].process # p
      BY <1>0, <2>1 DEF FollowsCalls
    <3>3. svc.pc = "start.load" /\ resp = "true" => recorders[svc.id].process \in Pids
      BY <1>0 DEF StageInv
    <3> QED
      BY <1>0, <1>1, <2>1, <3>1, <3>2, <3>3 DEF FollowsCalls, TypeOK
  <2> QED
    BY <1>q, <2>3, <2>5 DEF OrderlyInv
<1>6. ASSUME NEW p \in Pids, ChildExit(p) PROVE OrderlyInv'
  <2>1. /\ UNCHANGED resp /\ proc[p] = "quitting" /\ proc' = [proc EXCEPT ![p] = "exited"]
        /\ inbox' = [inbox EXCEPT ![p] = << >>]
    BY <1>6 DEF ChildExit, End
  <2>3. OnlyOwnEnds'
    BY <1>0, <1>1, <2>1 DEF OnlyOwnEnds, TypeOK
  <2>4. FollowsCalls'
    <3>1. \A id \in RecorderIds : Active(id) =>
            recorders[id].process \in Pids /\ proc'[recorders[id].process] \in Reached(id)
      BY <1>0, <2>1, ActiveOwn DEF FollowsCalls, Reached, ByState, TypeOK
    <3>2. \A id \in RecorderIds : Active(id)' => proc'[recorders'[id].process] \in Reached(id)'
      BY <1>1, <1>2, <2>1, <3>1 DEF Reached, ByState
    <3>3. svc.pc = "start.load" /\ resp = "true" =>
            recorders[svc.id].process \in Pids /\ recorders[svc.id].process # p
      BY <1>0, <2>1 DEF FollowsCalls, StageInv
    <3> QED
      BY <1>0, <1>1, <2>1, <3>2, <3>3 DEF FollowsCalls, TypeOK
  <2> QED
    BY <1>q, <2>3, <2>4 DEF OrderlyInv
<1>7. ASSUME NEW p \in Pids PROVE ~ChildCrash(p)
  BY DEF ChildCrash, Orderly
<1> QED
  BY <1>3, <1>4, <1>5, <1>6, <1>7 DEF Child

\* A request finds no call and no child that ends; it leaves at most one call behind.
LEMMA RequestOrderly ==
  ASSUME KnownInv, OrderlyInv, Request
  PROVE  OrderlyInv'
<1>0. /\ TypeOK /\ NoNullDereference /\ HandlerInv /\ OneCall /\ OnlyOwnEnds /\ FollowsCalls
  BY DEF KnownInv, IInv, OrderlyInv
<1>1. svc.pc = "loop"
  BY DEF Request, RejectRequest, HandleOpen, HandleClose, HandleSetOutputFile,
    HandleSetOutputFormat, HandleSetVideoFormat, HandleSetAudioFormat, HandleStart, HandleStop,
    HandlePause, HandleResume, Forward, HandleTakeSnapshot, Serve
<1>2. svc.local = NoProcess
  BY <1>0, <1>1 DEF HandlerInv, Loop
<1>4. \A p \in Pids : proc[p] \notin {"quitting", "exited", "capturing"}
  BY <1>0, <1>1, <1>2, ConstantsAssumption DEF OnlyOwnEnds
<1>5. \A p \in Pids : proc'[p] = proc[p] \/ (p \in FreePids /\ proc'[p] = "idle")
  BY <1>0, RequestForks
<1>6. OnlyOwnEnds'
  BY <1>4, <1>5 DEF OnlyOwnEnds
<1>7. /\ svc'.pc # "start.load"
      /\ svc'.pc \in {"stop.call", "pause.call", "resume.call"} => resp' # "true"
      /\ OneCall'
  BY <1>0, RequestOneCall
<1>8. ASSUME NEW id \in RecorderIds, Active(id)'
      PROVE  proc'[recorders'[id].process] \in Reached(id)'
  <2>1. Active(id) /\ recorders'[id] = recorders[id]
    BY <1>0, <1>8, RequestKeepsActive
  <2>2. recorders[id].process \in Pids /\ recorders[id].process \notin FreePids
    BY <2>1, ActiveOwn DEF FreePids, Active
  <2>3. proc'[recorders[id].process] = proc[recorders[id].process]
    BY <1>5, <2>2
  <2>4. proc[recorders[id].process] \in ByState(id)
    BY <1>0, <1>1, <2>1 DEF FollowsCalls, Reached
  <2>5. Reached(id)' = ByState(id)
    BY <1>7, <2>1 DEF Reached, ByState
  <2> QED
    BY <2>1, <2>3, <2>4, <2>5
<1>9. FollowsCalls'
  BY <1>7, <1>8 DEF FollowsCalls
<1> QED
  BY <1>6, <1>7, <1>9 DEF OrderlyInv

\* A handler goes on when its call has been handled; what it does then follows the reply.
LEMMA ContinueOrderly ==
  ASSUME KnownInv, OrderlyInv, Continue
  PROVE  OrderlyInv'
<1>0. /\ TypeOK /\ NoNullDereference /\ HandlerInv /\ StageInv
      /\ OneCall /\ OnlyOwnEnds /\ FollowsCalls
  BY DEF KnownInv, IInv, OrderlyInv
<1>1. svc.pc # "loop" /\ svc \in Service /\ svc.id \in RecorderIds
  BY <1>0 DEF HandlerInv, TypeOK, Continue, StartClient, StartCamera, StartFormat, StartLoad, StopCall,
    PauseCall, ResumeCall, Switch, SnapshotSubscribe, SnapshotLoad, SnapshotEos, SnapshotGiveUp,
    SnapshotStop, Reap, ReapNothing, ReapPcs
<1>2. svc.pc # "close.reap" => Exists(svc.id) /\ Here \in Recorder
  BY <1>0, <1>1 DEF HandlerInv, Exists, Here, TypeOK
<1>3. OneCall' /\ \A p \in Pids : inbox[p] = << >>
  BY <1>0, ContinueOneCall
<1>a. \A code : Answer(code) => svc'.pc = "loop" /\ svc'.local = NoProcess
  BY DEF Answer, Loop
<1>b. \A pc : Goto(pc) => svc'.pc = pc /\ svc'.local = svc.local /\ svc'.id = svc.id
  BY <1>1 DEF Goto, Service
<1>c. \A pc, id, h : Enter(pc, id, h) => svc'.pc = pc /\ svc'.local = h
  BY DEF Enter
<1>d. svc.pc \in (StartPcs \ {"start.reap"}) \cup {"stop.call", "pause.call", "resume.call"} =>
        svc.local = NoProcess
  BY <1>0 DEF HandlerInv, ReapPcs, SnapshotPcs, StartPcs
<1>m. PICK me \in RecorderIds : svc.id = me
  BY <1>1
\* What the handler's step does to the recorders it does not work on.
<1>4. ASSUME NEW r, recorders' = recorders \/ recorders' = [recorders EXCEPT ![svc.id] = r],
             \A p \in Pids : proc'[p] = proc[p] \/ p = svc.local,
             svc'.pc \notin {"stop.call", "pause.call", "resume.call"},
             svc'.pc = "start.load" => resp' # "true",
             Active(me)' => proc'[recorders'[me].process] \in ByState(me)'
      PROVE  FollowsCalls'
  <2>1. ASSUME NEW id \in RecorderIds \ {me}, Active(id)'
        PROVE  proc'[recorders'[id].process] \in ByState(id)'
    <3>1. recorders'[id] = recorders[id] /\ Active(id)
      BY <1>0, <1>m, <1>4, <2>1 DEF TypeOK, Active, Exists
    <3>2. proc'[recorders[id].process] = proc[recorders[id].process]
      BY <1>4, <3>1, ActiveOwn
    <3>3. proc[recorders[id].process] \in ByState(id)
      BY <1>0, <1>m, <2>1, <3>1 DEF FollowsCalls, Reached
    <3> QED
      BY <3>1, <3>2, <3>3 DEF ByState
  <2>2. \A id \in RecorderIds : Reached(id)' = ByState(id)'
    BY <1>4 DEF Reached
  <2> QED
    BY <1>4, <2>1, <2>2 DEF FollowsCalls
\* Its own recorder keeps its state and its child, or is open.
<1>5. ASSUME \/ recorders' = recorders
             \/ \E r : /\ recorders' = [recorders EXCEPT ![svc.id] = r]
                       /\ r.state \in {"RECORDING", "PAUSE"} =>
                            Active(svc.id) /\ r.state = Here.state /\ r.process = Here.process,
             \A p \in Pids : proc'[p] = proc[p] \/ p = svc.local,
             svc'.pc \notin {"stop.call", "pause.call", "resume.call"},
             svc'.pc = "start.load" => resp' # "true",
             resp # "true" \/ svc.pc \notin {"stop.call", "pause.call", "resume.call"}
      PROVE  FollowsCalls'
  <2>1. PICK r : \/ recorders' = recorders
                 \/ /\ recorders' = [recorders EXCEPT ![svc.id] = r]
                    /\ r.state \in {"RECORDING", "PAUSE"} =>
                         Active(svc.id) /\ r.state = Here.state /\ r.process = Here.process
    BY <1>5
  <2>2. ASSUME Active(me)' PROVE proc'[recorders'[me].process] \in ByState(me)'
    <3>1. /\ Active(me) /\ recorders'[me].state = Here.state
          /\ recorders'[me].process = Here.process
      BY <1>0, <1>m, <2>1, <2>2 DEF Active, Exists, Here, TypeOK
    <3>2. proc'[Here.process] = proc[Here.process]
      BY <1>m, <1>5, <3>1, ActiveOwn DEF Here
    <3>3. proc[Here.process] \in ByState(me)
      BY <1>0, <1>m, <1>5, <3>1 DEF FollowsCalls, Reached, Here
    <3> QED
      BY <1>m, <3>1, <3>2, <3>3 DEF ByState, Here
  <2> QED
    BY <1>4, <1>5, <1>m, <2>1, <2>2
\* No child ends or gets another owner.
<1>6. ASSUME UNCHANGED proc, svc'.local = svc.local, resp # "true" \/ svc.pc # "stop.call"
      PROVE  OneCall' /\ OnlyOwnEnds'
  BY <1>0, <1>3, <1>6 DEF OnlyOwnEnds
<1>7. CASE StartClient
  <2> DEFINE r == [Here EXCEPT !.client = IF Here.client = "registered" THEN "unregistered" ELSE "registered"]
  <2>1. /\ recorders' = [recorders EXCEPT ![svc.id] = r] /\ UNCHANGED <<proc, inbox>>
        /\ svc'.pc \in {"start.camera", "start.format"} /\ svc'.local = svc.local
        /\ svc.pc = "start.client"
    BY <1>7, <1>b DEF StartClient, Here
  <2>2. r.state = "OPEN"
    BY <1>0, <1>2, <2>1 DEF Recorder, StageInv, StartPcs, Here
  <2> HIDE DEF r
  <2> QED
    BY <1>5, <1>6, <2>1, <2>2 DEF OrderlyInv
<1>8. CASE StartCamera \/ SnapshotLoad \/ SnapshotEos \/ SnapshotStop
  <2>1. /\ UNCHANGED <<recorders, proc, inbox>> /\ svc'.local = svc.local
        /\ svc'.pc \in {"start.format", "loop", "snapshot.eos", "snapshot.reap"}
        /\ svc.pc \notin {"stop.call", "pause.call", "resume.call"}
    BY <1>8, <1>a, <1>b, <1>d DEF StartCamera, SnapshotLoad, SnapshotEos, SnapshotStop, StartPcs
  <2> QED
    BY <1>5, <1>6, <2>1 DEF OrderlyInv
<1>9. CASE StartFormat
  <2>1. UNCHANGED <<recorders, proc>> /\ svc.pc = "start.format"
    BY <1>9 DEF StartFormat
  <2>2. CASE UNCHANGED inbox /\ \E code : Answer(code)
    <3>1. svc'.pc = "loop" /\ svc'.local = svc.local
      BY <1>a, <1>d, <2>1, <2>2 DEF StartPcs
    <3> QED
      BY <1>5, <1>6, <2>1, <2>2, <3>1 DEF OrderlyInv
  <2>3. CASE Goto("start.load") /\ Send(Here.client, Here.process, "load")
    <3>1. svc'.pc = "start.load" /\ svc'.local = svc.local
      BY <1>b, <2>3
    <3>2. resp' \in {"none", "unparsable"}
      BY <1>0, <2>3, SendType DEF Calls
    <3>3. FollowsCalls'
      BY <1>5, <2>1, <3>1, <3>2
    <3> QED
      BY <1>6, <2>1, <3>1, <3>3 DEF OrderlyInv
  <2> QED
    BY <1>9, <2>2, <2>3 DEF StartFormat
<1>10. CASE StartLoad
  <2>1. /\ svc.pc = "start.load" /\ UNCHANGED <<proc, inbox>> /\ svc'.pc = "loop"
        /\ svc'.local = svc.local
    BY <1>10, <1>a, <1>d DEF StartLoad, StartPcs
  <2>2. CASE resp # "true"
    BY <1>5, <1>6, <1>10, <2>1, <2>2 DEF StartLoad, OrderlyInv
  <2>3. CASE resp = "true"
    <3> DEFINE r == [Here EXCEPT !.state = "RECORDING"]
    <3>1. recorders' = [recorders EXCEPT ![svc.id] = r]
      BY <1>10, <2>3 DEF StartLoad, Here
    <3>2. proc[Here.process] = "loaded"
      BY <1>0, <2>1, <2>3 DEF FollowsCalls, Here
    <3>3. r.process = Here.process /\ r.state = "RECORDING"
      BY <1>2, <2>1 DEF Recorder
    <3> HIDE DEF r
    <3>4. recorders'[svc.id] = r
      BY <1>0, <1>1, <3>1 DEF TypeOK
    <3>a. proc'[recorders'[me].process] \in ByState(me)'
      BY <1>m, <2>1, <3>2, <3>3, <3>4 DEF ByState
    <3>5. FollowsCalls'
      BY <1>4, <2>1, <3>1, <3>a
    <3> QED
      BY <1>6, <2>1, <3>5 DEF OrderlyInv
  <2> QED
    BY <2>2, <2>3
<1>11. ASSUME NEW pc \in {"pause.call", "resume.call"},
              NEW failure, Switch(pc, IF pc = "pause.call" THEN "PAUSE" ELSE "RECORDING", failure)
       PROVE  OrderlyInv'
  <2> DEFINE state == IF pc = "pause.call" THEN "PAUSE" ELSE "RECORDING"
  <2>1. /\ svc.pc = pc /\ UNCHANGED <<proc, inbox>> /\ svc'.pc = "loop"
        /\ svc'.local = svc.local
    BY <1>11, <1>a, <1>d DEF Switch
  <2>2. CASE resp # "true"
    BY <1>5, <1>6, <1>11, <2>1, <2>2 DEF Switch, OrderlyInv
  <2>3. CASE resp = "true"
    <3> DEFINE r == [Here EXCEPT !.state = state]
    <3>1. recorders' = [recorders EXCEPT ![svc.id] = r]
      BY <1>11, <2>3 DEF Switch, Here
    <3>2. proc[Here.process] = IF pc = "pause.call" THEN "paused" ELSE "loaded"
      BY <1>0, <1>1, <2>1, <2>3 DEF FollowsCalls, Reached, NoNullDereference, Here
    <3>3. r.process = Here.process /\ r.state = state
      BY <1>2, <2>1 DEF Recorder
    <3> HIDE DEF r
    <3>4. recorders'[svc.id] = r
      BY <1>0, <1>1, <3>1 DEF TypeOK
    <3>a. proc'[recorders'[me].process] \in ByState(me)'
      BY <1>m, <2>1, <3>2, <3>3, <3>4 DEF ByState
    <3>5. FollowsCalls'
      BY <1>4, <2>1, <3>1, <3>a
    <3> QED
      BY <1>6, <2>1, <3>5 DEF OrderlyInv
  <2> QED
    BY <2>2, <2>3
<1>12. CASE StopCall
  <2>1. svc.pc = "stop.call" /\ UNCHANGED <<proc, inbox>> /\ svc.local = NoProcess
    BY <1>12, <1>d DEF StopCall
  <2>2. CASE resp # "true"
    <3>1. UNCHANGED recorders /\ svc'.pc = "loop" /\ svc'.local = svc.local
      BY <1>12, <1>a, <2>1, <2>2 DEF StopCall
    <3> QED
      BY <1>5, <1>6, <2>1, <2>2, <3>1 DEF OrderlyInv
  <2>3. CASE resp = "true"
    <3> DEFINE r == [Here EXCEPT !.state = "OPEN", !.process = NoProcess]
    <3>1. recorders' = [recorders EXCEPT ![svc.id] = r]
      <4>1. recorders' = [recorders EXCEPT ![svc.id].state = "OPEN",
                                           ![svc.id].process = NoProcess]
        BY <1>12, <2>3 DEF StopCall
      <4> QED
        BY <1>0, <1>1, <4>1 DEF Here, TypeOK
    <3>2. r.state = "OPEN"
      BY <1>2, <2>1 DEF Recorder
    <3> HIDE DEF r
    <3>3. svc'.pc = "stop.reap" /\ svc'.local = Here.process
      BY <1>12, <1>c, <2>3 DEF StopCall
    <3>4. recorders'[svc.id] = r
      BY <1>0, <1>1, <3>1 DEF TypeOK
    <3>5. FollowsCalls'
      BY <1>4, <1>m, <2>1, <3>1, <3>2, <3>3, <3>4 DEF Active
    <3>6. OnlyOwnEnds'
      BY <1>0, <2>1, <3>3, ConstantsAssumption DEF OnlyOwnEnds, Here
    <3> QED
      BY <1>3, <3>5, <3>6 DEF OrderlyInv
  <2> QED
    BY <2>2, <2>3
<1>13. CASE SnapshotSubscribe
  <2>1. UNCHANGED <<recorders, proc>> /\ svc.pc = "snapshot.subscribe"
    BY <1>13 DEF SnapshotSubscribe
  <2>2. CASE svc' = [svc EXCEPT !.pc = "snapshot.reap", !.err = "ERR_SNAPSHOT_CAPTURE_FAILED"]
             /\ UNCHANGED inbox
    <3>1. svc'.pc = "snapshot.reap" /\ svc'.local = svc.local
      BY <1>1, <2>2 DEF Service
    <3> QED
      BY <1>5, <1>6, <2>1, <2>2, <3>1 DEF OrderlyInv
  <2>3. ASSUME NEW call \in {"capture", "empty"}, svc' = [svc EXCEPT !.pc = "snapshot.load"],
               Send("registered", svc.local, call)
        PROVE  OrderlyInv'
    <3>1. svc'.pc = "snapshot.load" /\ svc'.local = svc.local
      BY <1>1, <2>3 DEF Service
    <3>2. FollowsCalls'
      BY <1>5, <2>1, <3>1
    <3> QED
      BY <1>6, <2>1, <3>1, <3>2 DEF OrderlyInv
  <2> QED
    BY <1>13, <2>2, <2>3 DEF SnapshotSubscribe
<1>14. CASE SnapshotGiveUp
  <2> DEFINE r == [Here EXCEPT !.lateEos = TRUE]
  <2>1. /\ svc.pc = "snapshot.eos" /\ recorders' = [recorders EXCEPT ![svc.id] = r]
        /\ UNCHANGED proc /\ svc'.pc = "snapshot.stop" /\ svc'.local = svc.local
    BY <1>14, <1>b DEF SnapshotGiveUp, Here
  <2>2. r.process = Here.process /\ r.state = Here.state
    BY <1>2, <2>1 DEF Recorder
  <2>3. Here.state \in {"RECORDING", "PAUSE"} => Active(svc.id)
    BY <1>2, <2>1 DEF Active, Here
  <2> HIDE DEF r
  <2>4. FollowsCalls'
    BY <1>5, <2>1, <2>2, <2>3
  <2> QED
    BY <1>6, <2>1, <2>4 DEF OrderlyInv
<1>15. CASE ReapNothing \/ \E p \in Pids : Reap(p)
  <2>1. svc.pc \in ReapPcs /\ AfterWait /\ UNCHANGED inbox
    BY <1>15 DEF ReapNothing, Reap
  <2>2. svc'.pc \in {"start.client", "loop"}
    BY <1>1, <1>a, <2>1 DEF AfterWait, Service
  <2>3. /\ \A p \in Pids : proc'[p] = proc[p] \/ p = svc.local
        /\ \A p \in Pids : proc'[p] \notin {"quitting", "exited", "capturing"}
    <3>1. CASE ReapNothing
      BY <3>1 DEF ReapNothing
    <3>2. ASSUME NEW p \in Pids, Reap(p)
          PROVE  /\ \A q \in Pids : proc'[q] = proc[q] \/ q = svc.local
                 /\ \A q \in Pids : proc'[q] \notin {"quitting", "exited", "capturing"}
      <4>1. proc[p] = "exited" /\ proc' = [proc EXCEPT ![p] = "none"]
        BY <3>2 DEF Reap
      <4>2. p = svc.local
        BY <1>0, <2>1, <4>1 DEF OnlyOwnEnds, ReapPcs
      <4>3. \A q \in Pids \ {p} : proc'[q] = proc[q] /\ proc[q] \notin {"quitting", "exited", "capturing"}
        BY <1>0, <2>1, <4>1, <4>2 DEF OnlyOwnEnds, ReapPcs, TypeOK
      <4>4. proc'[p] = "none"
        BY <1>0, <4>1 DEF TypeOK
      <4> QED
        BY <4>2, <4>3, <4>4
    <3> QED
      BY <1>15, <3>1, <3>2
  <2>4. OneCall' /\ OnlyOwnEnds'
    BY <1>3, <2>3 DEF OnlyOwnEnds
  <2>5. FollowsCalls'
    <3>1. CASE UNCHANGED recorders
      BY <1>5, <2>1, <2>2, <2>3, <3>1 DEF ReapPcs
    <3>2. CASE svc.pc = "stop.reap" /\ recorders' = [recorders EXCEPT ![svc.id].client = "null"]
      <4> DEFINE r == [Here EXCEPT !.client = "null"]
      <4>1. recorders' = [recorders EXCEPT ![svc.id] = r]
        BY <3>2 DEF Here
      <4>2. r.state = "OPEN"
        BY <1>0, <1>2, <3>2 DEF Recorder, StageInv, Here
      <4> HIDE DEF r
      <4> QED
        BY <1>5, <2>2, <2>3, <3>2, <4>1, <4>2
    <3> QED
      BY <2>1, <3>1, <3>2 DEF AfterWait
  <2> QED
    BY <2>4, <2>5 DEF OrderlyInv
<1> QED
  BY <1>7, <1>8, <1>9, <1>10, <1>11, <1>12, <1>13, <1>14, <1>15 DEF Continue, PauseCall, ResumeCall

LEMMA SpecOrderlyInv ==
  ASSUME Orderly
  PROVE  Spec => [](KnownInv /\ OrderlyInv)
<1>1. Init => OrderlyInv
  BY ConstantsAssumption DEF Init, OrderlyInv, OneCall, OnlyOwnEnds, FollowsCalls, Active, Exists, Loop
<1>2. KnownInv /\ OrderlyInv /\ [Next]_vars => OrderlyInv'
  <2> SUFFICES ASSUME KnownInv, OrderlyInv, [Next]_vars PROVE OrderlyInv'
    OBVIOUS
  <2>1. CASE UNCHANGED vars
    BY <2>1 DEF vars, OrderlyInv, OneCall, Callee, OnlyOwnEnds, FollowsCalls, Reached, ByState, Active, Exists
  <2>2. CASE Next
    BY <2>2, OutsideOrderly, RequestOrderly, ContinueOrderly DEF Next
  <2> QED
    BY <2>1, <2>2
<1> QED
  BY <1>1, <1>2, SpecKnownInv, PTL DEF Spec

\* The state a recorder has between requests is that of the pipeline in its child, where no
\* call is lost and no child dies, although the service only ever follows replies.
THEOREM StateFollowsPipeline ==
  ASSUME Orderly
  PROVE  Spec => []StateMatchesPipeline
<1>1. KnownInv /\ OrderlyInv => StateMatchesPipeline
  <2> SUFFICES ASSUME KnownInv, OrderlyInv, svc.pc = "loop", NEW id \in RecorderIds, Active(id)
               PROVE  proc[recorders[id].process] =
                        IF recorders[id].state = "RECORDING" THEN "loaded" ELSE "paused"
    BY DEF StateMatchesPipeline
  <2> QED
    BY DEF OrderlyInv, FollowsCalls, Reached, ByState
<1> QED
  BY <1>1, SpecOrderlyInv, PTL

\* In the same surroundings wait() takes the child of the object being destroyed, although it
\* would take any.
THEOREM WaitTakesOwn ==
  ASSUME Orderly
  PROVE  Spec => ReapsOwn
<1> DEFINE Own == \A p \in Pids : proc[p] = "exited" /\ proc'[p] = "none" => svc.local = p
<1>1. KnownInv /\ OrderlyInv /\ [Next]_vars => [Own]_vars
  <2> SUFFICES ASSUME KnownInv, OrderlyInv, Next, NEW p \in Pids, proc[p] = "exited", proc'[p] = "none"
               PROVE  svc.local = p
    OBVIOUS
  <2>1. svc.pc # "stop.call"
    <3>1. ~Kept
      BY DEF Kept
    <3>2. ~(Bus \/ \E q \in Pids : Child(q))
      BY <3>1, OutsideMoved DEF KnownInv
    <3>3. ~Request
      BY RequestForks DEF KnownInv, IInv
    <3>4. CASE Continue
      BY <3>4 DEF Continue, StartClient, StartCamera, StartFormat, StartLoad, StopCall,
        PauseCall, ResumeCall, Switch, SnapshotSubscribe, SnapshotLoad, SnapshotEos, SnapshotGiveUp,
        SnapshotStop, Reap, ReapNothing, ReapPcs
    <3> QED
      BY <3>2, <3>3, <3>4 DEF Next
  <2> QED
    BY <2>1 DEF OrderlyInv, OnlyOwnEnds
<1> QED
  BY <1>1, SpecOrderlyInv, PTL DEF Spec, ReapsOwn

-----------------------------------------------------------------------------
\* Surroundings in which a start succeeds and no call runs out of time.  Children may die
\* once they have loaded, pipelines refuse to pause, and snapshots be given up.

Live == Env \subseteq {"crash", "pauseFail"}

Begun == StartPcs \ {"start.reap"}
Ending == {"capturing", "quitting", "exited"}

\* A recorder that no handler starts or stops holds nothing while it is open; one that is
\* started has a child and, once it has made it, a client.
Settled(r) == ~r.badFormat /\ (r.state = "OPEN" => r.process = NoProcess /\ r.client = "null")
InWork(r, pc) ==
  /\ ~r.badFormat
  /\ IF pc = "stop.reap" THEN r.process = NoProcess
     ELSE r.process \in Pids /\ r.client = IF pc = "start.client" THEN "null" ELSE "registered"
OpenInv ==
  /\ svc.pc \notin {"open.reap", "close.reap", "start.reap"}
  /\ \A id \in RecorderIds : Exists(id) =>
       IF svc.id = id /\ svc.pc \in Begun \cup {"stop.reap"} THEN InWork(recorders[id], svc.pc)
                                                         ELSE Settled(recorders[id])

\* The child of a start has been told nothing until the last call, which it answers.
BegunInv ==
  /\ svc.pc \in Begun /\ (svc.pc = "start.load" => resp = "none") =>
       proc[recorders[svc.id].process] = "idle"
  /\ svc.pc \in {"start.camera", "start.load"} => resp \in {"none", "true"}
  /\ svc.pc = "start.load" /\ resp = "none" => inbox[recorders[svc.id].process] # << >>

\* So has that of a snapshot; once it has answered it ends by itself.
TakenInv ==
  /\ svc.pc \in SnapshotPcs \cup {"snapshot.reap"} => svc.local \in Pids
  /\ svc.pc = "snapshot.subscribe" => recorders[svc.id].video /\ proc[svc.local] = "idle"
  /\ svc.pc = "snapshot.load" /\ resp = "none" =>
       proc[svc.local] = "idle" /\ inbox[svc.local] # << >>
  /\ (svc.pc = "snapshot.load" => resp # "none")
       /\ svc.pc \in {"snapshot.load", "snapshot.eos", "snapshot.stop", "snapshot.reap"} =>
       proc[svc.local] \in Ending

\* A true reply to stop comes from a child that ends.
StoppedInv ==
  /\ svc.pc = "stop.call" /\ resp = "true" =>
       proc[recorders[svc.id].process] \in {"quitting", "exited"}
  /\ svc.pc = "stop.reap" => svc.local \in Pids /\ proc[svc.local] \in {"quitting", "exited"}

NoneEmpty ==
  \A p \in Pids : proc[p] # "empty" /\ (inbox[p] # << >> => Head(inbox[p]) # "empty")

LiveInv == OneCall /\ OpenInv /\ BegunInv /\ TakenInv /\ StoppedInv /\ NoneEmpty

\* The children, the camera service and the bus.
LEMMA OutsideLive ==
  ASSUME Live, KnownInv, LiveInv, Bus \/ \E p \in Pids : Child(p)
  PROVE  LiveInv'
<1>0. /\ TypeOK /\ HandlerInv /\ StageInv /\ NoNullDereference /\ RecordingWasStarted
      /\ OneCall /\ OpenInv /\ BegunInv /\ TakenInv /\ StoppedInv /\ NoneEmpty
  BY DEF KnownInv, IInv, StartedInv, LiveInv
<1>1. UNCHANGED <<recorders, svc>>
  BY DEF Bus, CameraReply, BusError, CallTimeout, Child, ChildHandle, ChildEos, ChildExit, ChildCrash, End
<1>2. Prompt
  BY DEF Live, Prompt
<1>3. OneCall' /\ OpenInv'
  BY <1>0, <1>1, <1>2, OutsideOneCall DEF OpenInv, Exists
<1>4. CASE Bus
  <2>1. /\ UNCHANGED <<proc, inbox>> /\ svc.pc \in CallPcs /\ resp = "none"
        /\ \A p \in Pids : inbox[p] = << >>
    BY <1>0, <1>2, <1>4, OutsideOneCall
  <2>2. svc.pc # "start.load" /\ svc.pc # "snapshot.load"
    <3>1. svc.pc = "start.load" => recorders[svc.id].process \in Pids
      BY <1>0 DEF OpenInv, HandlerInv, InWork, Begun, StartPcs
    <3> QED
      BY <1>0, <2>1, <3>1 DEF BegunInv, TakenInv, SnapshotPcs
  <2>3. svc.pc = "start.camera" => resp' = "true"
    <3>1. svc.pc = "start.camera" => ~Alive(Callee)
      BY ConstantsAssumption DEF Callee, Alive
    <3> QED
      BY <1>4, <3>1 DEF Bus, CameraReply, BusError, CallTimeout, Live
  <2>4. svc.pc = "stop.call" => resp' # "true"
    BY <1>4 DEF Bus, CameraReply, BusError, CallTimeout
  <2> QED
    BY <1>0, <1>1, <1>3, <2>1, <2>2, <2>3, <2>4
    DEF LiveInv, BegunInv, TakenInv, StoppedInv, NoneEmpty
\* The child that is started is not one that ends.
<1>5. ASSUME NEW p \in Pids, UNCHANGED resp, proc[p] # "idle",
             proc' = [proc EXCEPT ![p] = IF proc[p] = "capturing" THEN proc'[p] ELSE "exited"],
             proc'[p] \in {"quitting", "exited"},
             inbox' = inbox \/ inbox' = [inbox EXCEPT ![p] = << >>]
      PROVE  LiveInv'
  <2>1. /\ \A q \in Pids \ {p} : proc'[q] = proc[q] /\ inbox'[q] = inbox[q]
        /\ inbox'[p] \in {inbox[p], << >>}
    BY <1>0, <1>5 DEF TypeOK
  <2>2. svc.pc \in Begun => recorders[svc.id].process \in Pids
    BY <1>0 DEF OpenInv, HandlerInv, InWork, Begun, StartPcs
  <2>3. BegunInv'
    BY <1>0, <1>1, <1>5, <2>1, <2>2 DEF BegunInv, Begun, StartPcs
  <2>4. TakenInv'
    BY <1>0, <1>1, <1>5, <2>1 DEF TakenInv, Ending, SnapshotPcs
  <2>5. StoppedInv'
    <3>1. svc.pc = "stop.call" => recorders[svc.id].process \in Pids
      BY <1>0 DEF NoNullDereference, HandlerInv, Active
    <3> QED
      BY <1>0, <1>1, <1>5, <2>1, <3>1 DEF StoppedInv
  <2>6. NoneEmpty'
    BY <1>0, <1>5, <2>1 DEF NoneEmpty
  <2> QED
    BY <1>3, <2>3, <2>4, <2>5, <2>6 DEF LiveInv
<1>6. ASSUME NEW p \in Pids, ChildEos(p) \/ ChildExit(p) \/ ChildCrash(p)
      PROVE  LiveInv'
  <2>1. proc[p] # "idle"
    BY <1>6 DEF ChildEos, ChildExit, ChildCrash, Live, Running, NotLoaded
  <2>2. /\ UNCHANGED resp
        /\ proc' = [proc EXCEPT ![p] = IF proc[p] = "capturing" THEN proc'[p] ELSE "exited"]
        /\ proc'[p] \in {"quitting", "exited"}
        /\ inbox' = inbox \/ inbox' = [inbox EXCEPT ![p] = << >>]
    BY <1>0, <1>6 DEF ChildEos, ChildExit, ChildCrash, End, TypeOK
  <2> QED
    BY <1>5, <2>1, <2>2
<1>7. ASSUME NEW p \in Pids, ChildHandle(p)
      PROVE  LiveInv'
  <2>1. /\ svc.pc \in CallPcs \ {"start.camera"} /\ resp = "none" /\ Callee = p
        /\ Fits(svc.pc, Head(inbox[p])) /\ \A q \in Pids : inbox'[q] = << >>
        /\ \A value : Reply(p, value) => resp' = value
    BY <1>0, <1>2, <1>7, OutsideOneCall
  <2>2. /\ svc.pc \in {"snapshot.load", "snapshot.stop"} => p = svc.local
        /\ svc.pc \in {"start.load", "stop.call", "pause.call", "resume.call"} =>
             p = recorders[svc.id].process
    BY <2>1 DEF Callee, CallPcs
  <2>3. \A q \in Pids \ {p} : proc'[q] = proc[q]
    BY <1>0, <1>7 DEF ChildHandle, ChildStart, ChildStop, ChildSwitch, TypeOK
  <2>4. Head(inbox[p]) # "empty" /\ proc[p] \notin {"empty", "quitting"}
    BY <1>0, <1>7 DEF NoneEmpty, ChildHandle
  <2>5. CASE svc.pc = "start.load"
    <3>1. resp' = "true" /\ proc'[p] = "loaded"
      BY <1>0, <1>7, <2>1, <2>5 DEF ChildHandle, ChildStart, ChildStop, ChildSwitch, Fits, Live, TypeOK
    <3> QED
      BY <1>0, <1>1, <1>3, <2>1, <2>2, <2>3, <2>5, <3>1
      DEF LiveInv, BegunInv, TakenInv, StoppedInv, NoneEmpty, Begun, SnapshotPcs
  <2>6. CASE svc.pc = "snapshot.load"
    <3>1. resp' = "true" /\ proc'[p] \in {"capturing", "quitting"}
      BY <1>0, <1>7, <2>1, <2>4, <2>6
      DEF ChildHandle, ChildStart, ChildStop, ChildSwitch, Fits, Live, TypeOK
    <3> QED
      BY <1>0, <1>1, <1>3, <2>1, <2>2, <2>3, <2>6, <3>1
      DEF LiveInv, BegunInv, TakenInv, StoppedInv, NoneEmpty, Begun, StartPcs, Ending
  <2>7. CASE svc.pc \in {"snapshot.stop", "stop.call"}
    <3>1. proc[p] \notin NotLoaded
      <4>1. svc.pc = "stop.call" => Active(svc.id) /\ svc.id \in RecorderIds
        BY <1>0 DEF NoNullDereference, HandlerInv
      <4> QED
        BY <1>0, <2>2, <2>4, <2>7, <4>1 DEF TakenInv, RecordingWasStarted, NotLoaded, Ending
    <3>2. \/ resp' = "true" /\ proc'[p] = "quitting"
          \/ resp' = "false" /\ proc'[p] = "capturing"
      BY <1>0, <1>7, <2>1, <2>7, <3>1
      DEF ChildHandle, ChildStart, ChildStop, ChildSwitch, Fits, TypeOK
    <3> QED
      BY <1>0, <1>1, <1>3, <2>1, <2>2, <2>3, <2>7, <3>2
      DEF LiveInv, BegunInv, TakenInv, StoppedInv, NoneEmpty, Begun, StartPcs, Ending
  <2>8. CASE svc.pc \in {"pause.call", "resume.call"}
    <3>1. proc'[p] # "empty"
      BY <1>0, <1>7, <2>1, <2>4, <2>8
      DEF ChildHandle, ChildStart, ChildStop, ChildSwitch, Fits, TypeOK
    <3> QED
      BY <1>0, <1>1, <1>3, <2>1, <2>3, <2>8, <3>1
      DEF LiveInv, BegunInv, TakenInv, StoppedInv, NoneEmpty, Begun, StartPcs, SnapshotPcs
  <2> QED
    BY <2>1, <2>5, <2>6, <2>7, <2>8 DEF CallPcs
<1> QED
  BY <1>4, <1>6, <1>7 DEF Child
\* The requests: a recorder that is opened, set up or closed holds nothing, and a child
\* that is forked has been told nothing.
LEMMA RequestLive ==
  ASSUME Live, KnownInv, LiveInv, Request
  PROVE  LiveInv'
<1>0. /\ TypeOK /\ HandlerInv /\ NoNullDereference
      /\ OneCall /\ OpenInv /\ NoneEmpty
  BY DEF KnownInv, IInv, LiveInv
<1>1. svc = Loop
  BY <1>0 DEF HandlerInv, Request, RejectRequest, HandleOpen, HandleClose, HandleSetOutputFile,
    HandleSetOutputFormat, HandleSetVideoFormat, HandleSetAudioFormat, HandleStart, HandleStop,
    HandlePause, HandleResume, Forward, HandleTakeSnapshot, Serve
<1>2. OneCall' /\ svc'.pc # "start.load"
      /\ (svc'.pc \in {"stop.call", "pause.call", "resume.call"} => resp' # "true")
  BY <1>0, RequestOneCall
<1>3. \A p \in Pids : inbox[p] = << >>
  BY <1>0, <1>1 DEF OneCall, CallPcs, Loop
<1>4. \A id \in RecorderIds : Exists(id) => Settled(recorders[id]) /\ recorders[id] \in Recorder
  BY <1>0, <1>1 DEF OpenInv, Loop, Begun, StartPcs, TypeOK, Exists
<1>a. \A code : Answer(code) => svc'.pc = "loop"
  BY DEF Answer, Loop
<1>b. \A pc, id, h : Enter(pc, id, h) => svc'.pc = pc /\ svc'.id = id /\ svc'.local = h
  BY DEF Enter
\* What a request does to the recorder it is for, when it starts nothing.
<1>5. ASSUME NEW id \in RecorderIds, NEW r,
             recorders' = recorders \/ recorders' = [recorders EXCEPT ![id] = r],
             r = NoRecorder \/ Settled(r),
             svc'.pc \in {"loop", "stop.call", "pause.call", "resume.call", "snapshot.subscribe"}
      PROVE  OpenInv'
  <2>1. \A other \in RecorderIds : Exists(other)' => Settled(recorders'[other])
    BY <1>0, <1>4, <1>5 DEF Exists, TypeOK
  <2> QED
    BY <1>5, <2>1 DEF OpenInv, Begun, StartPcs
<1>6. ASSUME UNCHANGED proc, svc'.pc \in {"loop", "stop.call", "pause.call", "resume.call"},
             UNCHANGED inbox \/ \E client, h : \E call \in {"stop", "pause", "resume"} :
                                    Send(client, h, call)
      PROVE  BegunInv' /\ TakenInv' /\ StoppedInv' /\ NoneEmpty'
  <2>1. \A p \in Pids : inbox'[p] # << >> => Head(inbox'[p]) # "empty"
    <3>1. CASE UNCHANGED inbox
      BY <1>3, <3>1
    <3>2. ASSUME NEW client, NEW h, NEW call \in {"stop", "pause", "resume"}, Send(client, h, call)
          PROVE  \A p \in Pids : inbox'[p] # << >> => Head(inbox'[p]) # "empty"
      <4>1. call \in Calls
        BY DEF Calls
      <4> QED
        BY <1>0, <1>3, <3>2, <4>1, SendOne
    <3> QED
      BY <1>6, <3>1, <3>2
  <2> QED
    BY <1>0, <1>2, <1>6, <2>1
    DEF BegunInv, TakenInv, StoppedInv, NoneEmpty, Begun, StartPcs, SnapshotPcs
<1>7. CASE RejectRequest
  <2>1. UNCHANGED <<recorders, proc, inbox>> /\ svc'.pc = "loop"
    BY <1>7, <1>a DEF RejectRequest
  <2>2. OpenInv'
    BY <1>4, <2>1 DEF OpenInv, Exists, Begun, StartPcs
  <2> QED
    BY <1>2, <1>6, <2>1, <2>2 DEF LiveInv
<1>8. ASSUME NEW id \in RecorderIds, HandleOpen(id)
      PROVE  LiveInv'
  <2>1. \E code : Answer(code)
    BY <1>8 DEF HandleOpen, Destroy, Live
  <2>2. PICK r : (recorders' = recorders \/ recorders' = [recorders EXCEPT ![id] = r])
                 /\ Settled(r)
    <3>1. \A video \in BOOLEAN : Settled(OpenRecorder(video))
      BY DEF OpenRecorder, Settled
    <3> QED
      BY <1>8, <3>1 DEF HandleOpen
  <2> QED
    BY <1>2, <1>5, <1>6, <1>8, <1>a, <2>1, <2>2 DEF HandleOpen, LiveInv
<1>9. ASSUME NEW id \in RecorderIds, HandleClose(id)
      PROVE  LiveInv'
  <2>1. \E code : Answer(code)
    BY <1>4, <1>9 DEF HandleClose, CloseRecorder, Destroy, Serve, Settled
  <2>2. recorders' = recorders \/ recorders' = [recorders EXCEPT ![id] = NoRecorder]
    BY <1>9 DEF HandleClose
  <2> QED
    BY <1>2, <1>5, <1>6, <1>9, <1>a, <2>1, <2>2 DEF HandleClose, LiveInv
<1>10. ASSUME NEW id \in RecorderIds,
              HandleSetOutputFile(id) \/ HandleSetVideoFormat(id) \/ HandleSetAudioFormat(id)
       PROVE  LiveInv'
  <2>1. UNCHANGED <<recorders, proc, inbox>> /\ \E code : Answer(code)
    BY <1>10 DEF HandleSetOutputFile, SetOutputFile, HandleSetVideoFormat, SetVideoFormat,
      HandleSetAudioFormat, SetAudioFormat, Refuse
  <2> QED
    BY <1>2, <1>5, <1>6, <1>a, <2>1 DEF LiveInv
<1>11. ASSUME NEW id \in RecorderIds, HandleSetOutputFormat(id)
       PROVE  LiveInv'
  <2>1. UNCHANGED <<proc, inbox>> /\ \E code : Answer(code)
    BY <1>11 DEF HandleSetOutputFormat, SetOutputFormat, Refuse
  <2> DEFINE r == [recorders[id] EXCEPT !.badFormat = FALSE]
  <2>2. recorders' = recorders \/ recorders' = [recorders EXCEPT ![id] = r]
    BY <1>11 DEF HandleSetOutputFormat, SetOutputFormat, Live
  <2>3. Settled(r)
    BY <1>4, <1>11 DEF HandleSetOutputFormat, Serve, Settled, Recorder
  <2> HIDE DEF r
  <2> QED
    BY <1>2, <1>5, <1>6, <1>a, <2>1, <2>2, <2>3 DEF LiveInv
<1>12. ASSUME NEW id \in RecorderIds, HandleStop(id) \/ HandlePause(id) \/ HandleResume(id)
       PROVE  LiveInv'
  <2>1. /\ UNCHANGED <<recorders, proc>>
        /\ svc'.pc \in {"loop", "stop.call", "pause.call", "resume.call"}
        /\ UNCHANGED inbox \/ \E client, h : \E call \in {"stop", "pause", "resume"} :
                                  Send(client, h, call)
    BY <1>12, <1>a, <1>b DEF HandleStop, HandlePause, HandleResume, Forward, Refuse
  <2>2. Exists(id)
    BY <1>12 DEF HandleStop, HandlePause, HandleResume, Forward, Serve
  <2> QED
    BY <1>2, <1>4, <1>5, <1>6, <2>1, <2>2 DEF LiveInv
\* A child that has been forked.
<1>13. ASSUME NEW h \in Handles, Fork(h)
       PROVE  /\ h \in Pids /\ proc'[h] = "idle" /\ \A p \in Pids : proc'[p] # "empty"
  <2>1. h \in FreePids /\ proc' = [proc EXCEPT ![h] = "idle"]
    BY <1>13 DEF Fork, Live
  <2> QED
    BY <1>0, <2>1 DEF FreePids, TypeOK, NoneEmpty
<1>14. ASSUME NEW id \in RecorderIds, HandleStart(id)
       PROVE  LiveInv'
  <2>1. Exists(id) /\ Settled(recorders[id]) /\ recorders[id] \in Recorder
    BY <1>4, <1>14 DEF HandleStart, Serve
  <2>2. CASE Refuse(id, {"OPEN"}) /\ UNCHANGED <<recorders, proc>>
    BY <1>2, <1>4, <1>5, <1>6, <1>14, <1>a, <2>1, <2>2 DEF HandleStart, Refuse, LiveInv
  <2>3. ASSUME NEW h \in Handles, recorders[id].state = "OPEN", Fork(h),
               recorders' = [recorders EXCEPT ![id].process = h]
        PROVE  LiveInv'
    <3>1. svc'.pc = "start.client" /\ svc'.id = id
      BY <1>14, <1>b, <2>1, <2>3 DEF HandleStart, Settled, Refuse
    <3> DEFINE r == [recorders[id] EXCEPT !.process = h]
    <3>2. recorders' = [recorders EXCEPT ![id] = r]
      BY <2>3
    <3>3. InWork(r, "start.client") /\ r.process = h
      BY <1>13, <2>1, <2>3 DEF Settled, InWork, Recorder
    <3> HIDE DEF r
    <3>4. recorders'[id] = r /\ \A other \in RecorderIds \ {id} : recorders'[other] = recorders[other]
      BY <1>0, <3>2 DEF TypeOK
    <3>5. OpenInv'
      BY <1>4, <3>1, <3>3, <3>4 DEF OpenInv, Exists, Begun, StartPcs
    <3>6. BegunInv' /\ TakenInv' /\ StoppedInv'
      BY <1>13, <2>3, <3>1, <3>3, <3>4
      DEF BegunInv, TakenInv, StoppedInv, Begun, StartPcs, SnapshotPcs
    <3>7. NoneEmpty'
      BY <1>3, <1>13, <1>14, <2>3 DEF HandleStart, NoneEmpty
    <3> QED
      BY <1>2, <3>5, <3>6, <3>7 DEF LiveInv
  <2> QED
    BY <1>14, <2>2, <2>3 DEF HandleStart
<1>15. ASSUME NEW id \in RecorderIds, HandleTakeSnapshot(id)
       PROVE  LiveInv'
  <2>1. Exists(id) /\ UNCHANGED <<recorders, inbox>>
    BY <1>15 DEF HandleTakeSnapshot, Serve
  <2>2. CASE RefuseSnapshot(id) /\ UNCHANGED proc
    <3>1. \E code : Answer(code)
      BY <2>2 DEF RefuseSnapshot, Refuse
    <3> QED
      BY <1>2, <1>4, <1>5, <1>6, <1>a, <2>1, <2>2, <3>1 DEF LiveInv
  <2>3. ASSUME NEW h \in Handles, recorders[id].video, Fork(h), Enter("snapshot.subscribe", id, h)
        PROVE  LiveInv'
    <3>1. svc'.pc = "snapshot.subscribe" /\ svc'.id = id /\ svc'.local = h
      BY <1>b, <2>3
    <3>2. OpenInv'
      BY <1>4, <1>5, <2>1, <3>1
    <3>3. BegunInv' /\ TakenInv' /\ StoppedInv'
      BY <1>13, <2>1, <2>3, <3>1
      DEF BegunInv, TakenInv, StoppedInv, Begun, StartPcs, SnapshotPcs
    <3>4. NoneEmpty'
      BY <1>3, <1>13, <2>1, <2>3 DEF NoneEmpty
    <3> QED
      BY <1>2, <3>2, <3>3, <3>4 DEF LiveInv
  <2> QED
    BY <1>15, <2>2, <2>3 DEF HandleTakeSnapshot, Live
<1> QED
  BY <1>7, <1>8, <1>9, <1>10, <1>11, <1>12, <1>14, <1>15 DEF Request

\* The handlers that go on: a start has all it needs, and a wait is for a child that ends.
LEMMA ContinueLive ==
  ASSUME Live, KnownInv, LiveInv, Continue
  PROVE  LiveInv'
<1>0. /\ TypeOK /\ NoNullDereference /\ HandlerInv /\ StageInv
      /\ OneCall /\ OpenInv /\ BegunInv /\ TakenInv /\ StoppedInv /\ NoneEmpty
  BY DEF KnownInv, IInv, LiveInv
<1>1. svc.pc # "loop" /\ svc \in Service /\ svc.id \in RecorderIds
  BY <1>0 DEF HandlerInv, TypeOK, Continue, StartClient, StartCamera, StartFormat, StartLoad, StopCall,
    PauseCall, ResumeCall, Switch, SnapshotSubscribe, SnapshotLoad, SnapshotEos, SnapshotGiveUp,
    SnapshotStop, Reap, ReapNothing, ReapPcs
<1>2. OneCall' /\ \A p \in Pids : inbox[p] = << >>
  BY <1>0, ContinueOneCall
<1>m. PICK me \in RecorderIds : svc.id = me
  BY <1>1
<1>3. /\ Exists(me) /\ Here \in Recorder /\ Here = recorders[me]
      /\ IF svc.pc \in Begun \cup {"stop.reap"} THEN InWork(Here, svc.pc) ELSE Settled(Here)
  BY <1>0, <1>1, <1>m DEF HandlerInv, OpenInv, Exists, Here, TypeOK
<1>a. \A code : Answer(code) => svc'.pc = "loop"
  BY DEF Answer, Loop
<1>b. \A pc : Goto(pc) => svc'.pc = pc /\ svc'.local = svc.local /\ svc'.id = me
  BY <1>1, <1>m DEF Goto, Service
<1>c. \A pc, h : Enter(pc, svc.id, h) => svc'.pc = pc /\ svc'.local = h /\ svc'.id = me
  BY <1>m DEF Enter
\* What a handler does to the recorder it works on.
<1>4. ASSUME NEW r, recorders' = [recorders EXCEPT ![svc.id] = r] \/ (recorders' = recorders /\ r = Here),
             svc'.pc = "loop" \/ (svc'.id = me /\ svc'.pc \notin {"open.reap", "close.reap", "start.reap"}),
             IF svc'.pc \in Begun \cup {"stop.reap"} THEN InWork(r, svc'.pc) ELSE Settled(r)
      PROVE  OpenInv' /\ recorders'[me] = r
  <2>1. recorders'[me] = r /\ \A id \in RecorderIds \ {me} : recorders'[id] = recorders[id]
    BY <1>0, <1>3, <1>4, <1>m DEF TypeOK
  <2>2. \A id \in RecorderIds \ {me} : Exists(id) => Settled(recorders[id])
    BY <1>0, <1>m DEF OpenInv
  <2>3. "loop" \notin Begun \cup {"stop.reap", "open.reap", "close.reap", "start.reap"}
    BY DEF Begun, StartPcs
  <2> QED
    BY <1>4, <2>1, <2>2, <2>3 DEF OpenInv, Exists
<1>5. ASSUME UNCHANGED proc,
             UNCHANGED inbox \/ \E client, h : \E call \in {"load", "capture", "stop"} : Send(client, h, call)
      PROVE  NoneEmpty'
  <2>1. ASSUME NEW client, NEW h, NEW call \in {"load", "capture", "stop"}, Send(client, h, call)
        PROVE  \A p \in Pids : inbox'[p] # << >> => Head(inbox'[p]) # "empty"
    <3>1. call \in Calls
      BY DEF Calls
    <3> QED
      BY <1>0, <1>2, <2>1, <3>1, SendOne
  <2> QED
    BY <1>0, <1>5, <2>1 DEF NoneEmpty
\* Back in its main loop the thread owes nothing.
<1>6. ASSUME NEW r, recorders' = [recorders EXCEPT ![svc.id] = r] \/ (recorders' = recorders /\ r = Here),
             Settled(r), svc'.pc = "loop", UNCHANGED inbox,
             UNCHANGED proc \/ \E p \in Pids : proc' = [proc EXCEPT ![p] = "none"]
      PROVE  LiveInv'
  <2>1. OpenInv'
    BY <1>4, <1>6 DEF Begun, StartPcs
  <2>2. NoneEmpty'
    BY <1>0, <1>6 DEF NoneEmpty, TypeOK
  <2>3. BegunInv' /\ TakenInv' /\ StoppedInv'
    BY <1>6 DEF BegunInv, TakenInv, StoppedInv, Begun, StartPcs, SnapshotPcs
  <2> QED
    BY <1>2, <2>1, <2>2, <2>3 DEF LiveInv
<1>7. CASE StartClient
  <2> DEFINE r == [Here EXCEPT !.client = "registered"]
  <2>1. svc.pc = "start.client" /\ InWork(Here, "start.client")
    BY <1>3, <1>7 DEF StartClient, Begun, StartPcs
  <2>2. /\ recorders' = [recorders EXCEPT ![svc.id] = r] /\ UNCHANGED <<proc, inbox>>
        /\ svc'.pc \in {"start.camera", "start.format"} /\ svc'.id = me
        /\ svc'.pc = "start.camera" => resp' = "none"
    <3>1. Here.client = "null"
      BY <2>1 DEF InWork
    <3>2. recorders' = [recorders EXCEPT ![svc.id].client = "registered"]
      BY <1>7, <3>1 DEF StartClient
    <3>3. recorders' = [recorders EXCEPT ![svc.id] = r]
      BY <3>2 DEF Here
    <3> QED
      BY <1>7, <1>b, <3>1, <3>3 DEF StartClient
  <2>3. r.process = Here.process /\ r.client = "registered" /\ r.badFormat = Here.badFormat
    BY <1>3 DEF Recorder
  <2> HIDE DEF r
  <2>4. OpenInv' /\ recorders'[me] = r
    BY <1>4, <2>1, <2>2, <2>3 DEF InWork, Begun, StartPcs
  <2>5. proc[Here.process] = "idle"
    BY <1>0, <2>1 DEF BegunInv, Begun, StartPcs, Here
  <2>6. BegunInv' /\ TakenInv' /\ StoppedInv'
    BY <2>2, <2>3, <2>4, <2>5 DEF BegunInv, TakenInv, StoppedInv, Begun, StartPcs, SnapshotPcs
  <2> QED
    BY <1>2, <1>5, <2>2, <2>4, <2>6 DEF LiveInv
<1>8. CASE StartCamera
  <2>1. /\ svc.pc = "start.camera" /\ resp = "true" /\ UNCHANGED <<recorders, proc, inbox>>
        /\ svc'.pc = "start.format" /\ svc'.id = me
    BY <1>0, <1>8, <1>b DEF StartCamera, BegunInv
  <2>2. OpenInv' /\ recorders'[me] = Here
    BY <1>3, <1>4, <2>1 DEF InWork, Begun, StartPcs
  <2>3. proc[Here.process] = "idle"
    BY <1>0, <2>1 DEF BegunInv, Begun, StartPcs, Here
  <2>4. BegunInv' /\ TakenInv' /\ StoppedInv'
    BY <2>1, <2>2, <2>3 DEF BegunInv, TakenInv, StoppedInv, Begun, StartPcs, SnapshotPcs
  <2> QED
    BY <1>2, <1>5, <2>1, <2>2, <2>4 DEF LiveInv
<1>9. CASE StartFormat
  <2>1. svc.pc = "start.format" /\ InWork(Here, "start.format")
    BY <1>3, <1>9 DEF StartFormat, Begun, StartPcs
  <2>2. /\ UNCHANGED <<recorders, proc>> /\ svc'.pc = "start.load" /\ svc'.id = me
        /\ Send("registered", Here.process, "load")
    BY <1>9, <1>b, <2>1 DEF StartFormat, InWork
  <2>3. Here.process \in Pids /\ proc[Here.process] = "idle"
    BY <1>0, <2>1 DEF BegunInv, Begun, StartPcs, Here, InWork
  <2>4. resp' = "none" /\ inbox'[Here.process] # << >>
    <3>1. "load" \in Calls /\ "idle" \in Running
      BY DEF Calls, Running, NotLoaded
    <3>2. inbox'[Here.process] # << >>
      BY <1>0, <2>2, <2>3, <3>1, SendInbox
    <3> QED
      BY <2>2, <3>2 DEF Send
  <2>5. OpenInv' /\ recorders'[me] = Here
    BY <1>4, <2>1, <2>2 DEF InWork, Begun, StartPcs
  <2>6. BegunInv' /\ TakenInv' /\ StoppedInv'
    BY <2>2, <2>3, <2>4, <2>5 DEF BegunInv, TakenInv, StoppedInv, Begun, StartPcs, SnapshotPcs
  <2> QED
    BY <1>2, <1>5, <2>2, <2>5, <2>6 DEF LiveInv
<1>10. CASE StartLoad
  <2> DEFINE r == [Here EXCEPT !.state = "RECORDING"]
  <2>1. svc.pc = "start.load" /\ resp = "true"
    BY <1>0, <1>10 DEF StartLoad, BegunInv
  <2>2. /\ recorders' = [recorders EXCEPT ![svc.id] = r] /\ UNCHANGED <<proc, inbox>>
        /\ svc'.pc = "loop"
    BY <1>10, <1>a, <2>1 DEF StartLoad, Here
  <2>3. Settled(r)
    BY <1>3, <2>1 DEF InWork, Settled, Recorder, Begun, StartPcs
  <2> HIDE DEF r
  <2> QED
    BY <1>6, <2>2, <2>3
<1>11. CASE StopCall
  <2>1. /\ svc.pc = "stop.call" /\ Settled(Here) /\ UNCHANGED <<proc, inbox>>
    BY <1>3, <1>11 DEF StopCall, Begun, StartPcs
  <2>2. CASE resp # "true"
    BY <1>6, <1>11, <1>a, <2>1, <2>2 DEF StopCall
  <2>3. CASE resp = "true"
    <3> DEFINE r == [Here EXCEPT !.state = "OPEN", !.process = NoProcess]
    <3>1. recorders' = [recorders EXCEPT ![svc.id] = r]
      <4>1. recorders' = [recorders EXCEPT ![svc.id].state = "OPEN",
                                           ![svc.id].process = NoProcess]
        BY <1>11, <2>3 DEF StopCall
      <4> QED
        BY <1>0, <1>1, <4>1 DEF Here, TypeOK
    <3>2. InWork(r, "stop.reap")
      BY <1>3, <2>1 DEF Recorder, InWork, Settled
    <3> HIDE DEF r
    <3>3. svc'.pc = "stop.reap" /\ svc'.local = Here.process /\ svc'.id = me
      BY <1>11, <1>c, <2>3 DEF StopCall
    <3>4. OpenInv'
      BY <1>4, <3>1, <3>2, <3>3
    <3>5. Here.process \in Pids /\ proc[Here.process] \in {"quitting", "exited"}
      BY <1>0, <1>1, <2>1, <2>3 DEF NoNullDereference, StoppedInv, Here
    <3>6. BegunInv' /\ TakenInv' /\ StoppedInv'
      BY <2>1, <3>3, <3>5 DEF BegunInv, TakenInv, StoppedInv, Begun, StartPcs, SnapshotPcs
    <3> QED
      BY <1>2, <1>5, <2>1, <3>4, <3>6 DEF LiveInv
  <2> QED
    BY <2>2, <2>3
<1>12. ASSUME NEW pc \in {"pause.call", "resume.call"}, NEW state \in {"PAUSE", "RECORDING"},
              NEW failure, Switch(pc, state, failure)
       PROVE  LiveInv'
  <2> DEFINE r == [Here EXCEPT !.state = state]
  <2>1. Settled(Here) /\ UNCHANGED <<proc, inbox>> /\ svc'.pc = "loop"
    BY <1>3, <1>12, <1>a DEF Switch, Begun, StartPcs
  <2>2. recorders' = recorders \/ recorders' = [recorders EXCEPT ![svc.id] = r]
    BY <1>12 DEF Switch, Here
  <2>3. Settled(r)
    BY <1>3, <2>1 DEF Settled, Recorder
  <2> HIDE DEF r
  <2> QED
    BY <1>6, <2>1, <2>2, <2>3
<1>13. CASE SnapshotSubscribe
  <2>1. svc.pc = "snapshot.subscribe" /\ UNCHANGED <<recorders, proc>> /\ Settled(Here)
    BY <1>3, <1>13 DEF SnapshotSubscribe, Begun, StartPcs
  <2>2. /\ svc.local \in Pids /\ proc[svc.local] = "idle" /\ Here.video
    BY <1>0, <2>1 DEF TakenInv, SnapshotPcs, Here
  <2>3. /\ svc' = [svc EXCEPT !.pc = "snapshot.load"] /\ Send("registered", svc.local, "capture")
    BY <1>13, <2>2 DEF SnapshotSubscribe, Live
  <2>4. svc'.pc = "snapshot.load" /\ svc'.local = svc.local /\ svc'.id = me
    BY <1>1, <1>m, <2>3 DEF Service
  <2>5. inbox'[svc.local] # << >>
    <3>1. "capture" \in Calls /\ "idle" \in Running
      BY DEF Calls, Running, NotLoaded
    <3> QED
      BY <1>0, <2>2, <2>3, <3>1, SendInbox
  <2>6. OpenInv'
    BY <1>4, <2>1, <2>4 DEF Begun, StartPcs
  <2>7. resp' = "none"
    BY <2>3 DEF Send
  <2>8. BegunInv' /\ TakenInv' /\ StoppedInv'
    BY <2>1, <2>2, <2>4, <2>5, <2>7
    DEF BegunInv, TakenInv, StoppedInv, Begun, StartPcs, SnapshotPcs
  <2> QED
    BY <1>2, <1>5, <2>1, <2>3, <2>6, <2>8 DEF LiveInv
\* From its reply on the child of a snapshot ends by itself.
<1>14. ASSUME NEW r, recorders' = [recorders EXCEPT ![svc.id] = r] \/ (recorders' = recorders /\ r = Here),
              Settled(r), svc.pc \in {"snapshot.load", "snapshot.eos", "snapshot.stop"},
              svc.pc = "snapshot.load" => resp # "none",
              UNCHANGED proc, svc'.id = me, svc'.local = svc.local,
              svc'.pc \in {"snapshot.eos", "snapshot.stop", "snapshot.reap"},
              UNCHANGED inbox \/ Send("registered", svc.local, "stop")
       PROVE  LiveInv'
  <2>1. OpenInv'
    BY <1>4, <1>14 DEF Begun, StartPcs
  <2>2. svc.local \in Pids /\ proc[svc.local] \in Ending
    BY <1>0, <1>14 DEF TakenInv, SnapshotPcs
  <2>3. BegunInv' /\ TakenInv' /\ StoppedInv'
    BY <1>14, <2>2 DEF BegunInv, TakenInv, StoppedInv, Begun, StartPcs, SnapshotPcs
  <2>4. NoneEmpty'
    BY <1>5, <1>14
  <2> QED
    BY <1>2, <2>1, <2>3, <2>4 DEF LiveInv
<1>15. CASE SnapshotLoad \/ SnapshotEos \/ SnapshotStop
  <2>1. /\ UNCHANGED <<recorders, proc, inbox>> /\ svc'.id = me /\ svc'.local = svc.local
        /\ svc.pc \in {"snapshot.load", "snapshot.eos", "snapshot.stop"}
        /\ svc.pc = "snapshot.load" => resp # "none"
        /\ svc'.pc \in {"snapshot.eos", "snapshot.reap"}
    BY <1>15, <1>b DEF SnapshotLoad, SnapshotEos, SnapshotStop
  <2>2. Settled(Here)
    BY <1>3, <2>1 DEF Begun, StartPcs
  <2> QED
    BY <1>14, <2>1, <2>2
<1>16. CASE SnapshotGiveUp
  <2> DEFINE r == [Here EXCEPT !.lateEos = TRUE]
  <2>1. /\ svc.pc = "snapshot.eos" /\ recorders' = [recorders EXCEPT ![svc.id] = r]
        /\ UNCHANGED proc /\ svc'.pc = "snapshot.stop" /\ svc'.local = svc.local /\ svc'.id = me
        /\ Send("registered", svc.local, "stop")
    BY <1>16, <1>b DEF SnapshotGiveUp, Here
  <2>2. Settled(r)
    BY <1>3, <2>1 DEF Settled, Recorder, Begun, StartPcs
  <2> HIDE DEF r
  <2> QED
    BY <1>14, <2>1, <2>2
<1>17. CASE ReapNothing \/ \E p \in Pids : Reap(p)
  <2>1. /\ svc.pc \in {"stop.reap", "snapshot.reap"} /\ AfterWait /\ UNCHANGED inbox
        /\ UNCHANGED proc \/ \E p \in Pids : proc' = [proc EXCEPT ![p] = "none"]
    BY <1>0, <1>17 DEF ReapNothing, Reap, ReapPcs, OpenInv
  <2>2. svc'.pc = "loop"
    BY <1>a, <2>1 DEF AfterWait
  <2>3. CASE svc.pc = "snapshot.reap"
    BY <1>3, <1>6, <2>1, <2>2, <2>3 DEF AfterWait, Begun, StartPcs
  <2>4. CASE svc.pc = "stop.reap"
    <3> DEFINE r == [Here EXCEPT !.client = "null"]
    <3>1. recorders' = [recorders EXCEPT ![svc.id] = r]
      BY <2>1, <2>4 DEF AfterWait, Here
    <3>2. Settled(r)
      BY <1>3, <2>4 DEF Settled, InWork, Recorder
    <3> HIDE DEF r
    <3> QED
      BY <1>6, <2>1, <2>2, <3>1, <3>2
  <2> QED
    BY <2>1, <2>3, <2>4
<1> QED
  BY <1>7, <1>8, <1>9, <1>10, <1>11, <1>12, <1>13, <1>15, <1>16, <1>17
  DEF Continue, PauseCall, ResumeCall

LEMMA SpecLiveInv ==
  ASSUME Live
  PROVE  Spec => [](KnownInv /\ LiveInv)
<1>1. Init => LiveInv
  BY ConstantsAssumption DEF Init, LiveInv, OneCall, OpenInv, BegunInv, TakenInv, StoppedInv, NoneEmpty,
    Begun, StartPcs, SnapshotPcs, Exists, Loop
<1>2. KnownInv /\ LiveInv /\ [Next]_vars => LiveInv'
  <2> SUFFICES ASSUME KnownInv, LiveInv, [Next]_vars PROVE LiveInv'
    OBVIOUS
  <2>1. CASE UNCHANGED vars
    BY <2>1 DEF vars, LiveInv, OneCall, Callee, OpenInv, BegunInv, TakenInv, StoppedInv, NoneEmpty, Exists
  <2>2. CASE Next
    BY <2>2, OutsideLive, RequestLive, ContinueLive DEF Next
  <2> QED
    BY <2>1, <2>2
<1> QED
  BY <1>1, <1>2, SpecKnownInv, PTL DEF Spec

\* No wait() hangs, in the surroundings the liveness of the service is checked for: the child
\* of the Process object being destroyed has ended, ends, or reaches its end of stream.
THEOREM WaitsEnd ==
  ASSUME Live
  PROVE  Spec => []WaitEnds
<1>1. KnownInv /\ LiveInv => WaitEnds
  BY DEF LiveInv, OpenInv, TakenInv, StoppedInv, Ending, WaitEnds, ReapPcs, SnapshotPcs
<1> QED
  BY <1>1, SpecLiveInv, PTL

\* In the same surroundings a recorder that is open between requests holds no Process, so
\* that neither a start nor a close has to wait for a child of a start that failed.
THEOREM OpenHoldsNone ==
  ASSUME Live
  PROVE  Spec => [](svc.pc = "loop" => \A id \in RecorderIds :
                      Exists(id) /\ recorders[id].state = "OPEN" => recorders[id].process = NoProcess)
<1>1. KnownInv /\ LiveInv /\ svc.pc = "loop" =>
        \A id \in RecorderIds :
          Exists(id) /\ recorders[id].state = "OPEN" => recorders[id].process = NoProcess
  BY DEF LiveInv, OpenInv, Begun, StartPcs, Settled
<1> QED
  BY <1>1, SpecLiveInv, PTL

-----------------------------------------------------------------------------
\* The service with children that keep PipelineContract.

Phases == {"idle", "loading", "loaded", "paused", "capturing", "stopping", "quitting", "exited"}

ChildTypeOK ==
  /\ child \in [Pids -> [phase : Phases, kind : {"none", "recording", "snapshot", "nothing"},
                        reply : {"none", "true", "false"}]]

\* What the service's model says of a child is what its contract says, but for the call in
\* hand, which is the oldest.
InStep(p) ==
  /\ child[p].phase = "idle" => proc[p] = IF child[p].kind = "none" THEN "idle" ELSE "empty"
  /\ child[p].phase = "loading" =>
       /\ proc[p] = "idle" /\ inbox[p] # << >> /\ Head(inbox[p]) \in {"load", "capture"}
       /\ child[p].kind = StartKind[Head(inbox[p])]
  /\ child[p].phase \in {"loaded", "paused"} => child[p].kind = "recording"
  /\ child[p].phase = "capturing" => child[p].kind = "snapshot"
  /\ child[p].phase \in {"loaded", "paused", "capturing", "quitting"} => proc[p] = child[p].phase
  /\ child[p].phase = "stopping" =>
       /\ proc[p] \in {"loaded", "paused", "capturing"}
       /\ inbox[p] # << >> /\ Head(inbox[p]) = "stop"
  /\ child[p].phase = "exited" => proc[p] \in {"none", "exited"}
  /\ child[p].kind = "none" => child[p].phase \in {"idle", "exited"}

SystemInv == ChildTypeOK /\ \A p \in Pids : InStep(p)

LEMMA ProcessIs ==
  ASSUME NEW p
  PROVE  Process(p) = [phase : Phases, kind : {"none", "recording", "snapshot", "nothing"},
                       reply : {"none", "true", "false"}]
BY DEF Process, Pipeline!Phases, Pipeline!StartKinds, Pipeline!Replies, Phases

\* A step of p is one of its contract and leaves the others alone.
LEMMA MovesAre ==
  ASSUME ChildTypeOK, NEW p \in Pids, Moves(p)
  PROVE  /\ child'[p] \in Process(p) /\ \A q \in Pids \ {p} : child'[q] = child[q]
         /\ ChildTypeOK'
<1>1. PICK next \in Process(p) : child' = [child EXCEPT ![p] = next]
  BY DEF Moves
<1> QED
  BY <1>1, ProcessIs DEF ChildTypeOK

\* A call that the handlers send, and whose child they send it to.
Sent(p, call) ==
  \/ /\ call \in {"load", "stop", "pause", "resume"}
     /\ \E id \in RecorderIds :
          /\ Exists(id) /\ recorders[id].process = p
          /\ call \in {"pause", "resume"} => Active(id)
  \/ call \in {"capture", "empty", "stop"} /\ svc.local = p

\* What a step of the service does to the child p.
Served(p) ==
  /\ \/ proc'[p] = proc[p]
     \/ p \in FreePids /\ proc'[p] = "idle"
     \/ proc[p] = "exited" /\ proc'[p] = "none"
  /\ \/ inbox'[p] = inbox[p]
     \/ \E call \in Calls :
          /\ proc[p] \in Running /\ proc'[p] = proc[p]
          /\ inbox'[p] = Append(inbox[p], call) /\ Sent(p, call)

LEMMA RequestServes ==
  ASSUME TypeOK, Request, NEW p \in Pids
  PROVE  Served(p)
<1>1. proc'[p] = proc[p] \/ (p \in FreePids /\ proc'[p] = "idle")
  BY RequestForks
<1>2. CASE UNCHANGED inbox
  BY <1>1, <1>2 DEF Served
<1>3. ASSUME NEW id \in RecorderIds, HandleStop(id) \/ HandlePause(id) \/ HandleResume(id)
      PROVE  Served(p)
  <2>1. PICK states, call, pc :
          /\ states \subseteq {"RECORDING", "PAUSE"} /\ call \in {"stop", "pause", "resume"}
          /\ Forward(id, states, call, pc)
    BY <1>3 DEF HandleStop, HandlePause, HandleResume
  <2>2. CASE UNCHANGED inbox
    BY <1>2, <2>2
  <2>3. CASE /\ recorders[id].state \in states
             /\ Send(recorders[id].client, recorders[id].process, call)
    <3>1. Active(id) /\ Exists(id) /\ UNCHANGED proc
      BY <2>1, <2>3 DEF Forward, Serve, Active
    <3>2. call \in Calls
      BY <2>1 DEF Calls
    <3>3. p = recorders[id].process => Sent(p, call)
      BY <2>1, <3>1 DEF Sent
    <3> QED
      BY <2>3, <3>1, <3>2, <3>3, SendAppends DEF Served
  <2> QED
    BY <2>1, <2>2, <2>3 DEF Forward
<1> QED
  BY <1>2, <1>3
  DEF Request, RejectRequest, HandleOpen, HandleClose, HandleSetOutputFile,
    HandleSetOutputFormat, HandleSetVideoFormat, HandleSetAudioFormat, HandleStart,
    HandleTakeSnapshot

LEMMA ContinueServes ==
  ASSUME TypeOK, HandlerInv, Continue, NEW p \in Pids
  PROVE  Served(p)
<1>1. ASSUME UNCHANGED proc, NEW client, NEW h, NEW call \in Calls, Send(client, h, call),
             p = h => Sent(p, call)
      PROVE  Served(p)
  BY <1>1, SendAppends DEF Served
<1>2. CASE UNCHANGED <<proc, inbox>>
  BY <1>2 DEF Served
<1>3. CASE StartFormat
  <2>1. CASE Send(Here.client, Here.process, "load")
    <3>1. svc.id \in RecorderIds /\ Exists(svc.id)
      BY <1>3 DEF HandlerInv, StartFormat
    <3>2. p = Here.process => Sent(p, "load")
      BY <3>1 DEF Sent, Here
    <3>3. "load" \in Calls /\ UNCHANGED proc
      BY <1>3 DEF Calls, StartFormat
    <3> QED
      BY <1>1, <2>1, <3>2, <3>3
  <2> QED
    BY <1>2, <1>3, <2>1 DEF StartFormat
<1>4. CASE SnapshotSubscribe
  <2>1. ASSUME NEW call \in {"capture", "empty"}, Send("registered", svc.local, call)
        PROVE  Served(p)
    <3>1. p = svc.local => Sent(p, call)
      BY <2>1 DEF Sent
    <3>2. call \in Calls /\ UNCHANGED proc
      BY <1>4 DEF Calls, SnapshotSubscribe
    <3> QED
      BY <1>1, <2>1, <3>1, <3>2
  <2> QED
    BY <1>2, <1>4, <2>1 DEF SnapshotSubscribe
<1>5. CASE SnapshotGiveUp
  <2>1. p = svc.local => Sent(p, "stop")
    BY DEF Sent
  <2>2. "stop" \in Calls
    BY DEF Calls
  <2> QED
    BY <1>1, <1>5, <2>1, <2>2 DEF SnapshotGiveUp
<1>6. CASE ReapNothing \/ \E q \in Pids : Reap(q)
  BY <1>6 DEF ReapNothing, Reap, TypeOK, Served
<1> QED
  BY <1>2, <1>3, <1>4, <1>5, <1>6
  DEF Continue, StartClient, StartCamera, StartLoad, StopCall, PauseCall, ResumeCall, Switch,
    SnapshotLoad, SnapshotEos, SnapshotStop

\* The service's own steps keep the children in step.
LEMMA ServiceInStep ==
  ASSUME KnownInv, SystemInv, ServiceStep
  PROVE  SystemInv'
<1>0. TypeOK /\ HandlerInv /\ InboxInv
  BY DEF KnownInv, IInv, StartedInv
<1>1. \A p \in Pids : Served(p)
  BY <1>0, RequestServes, ContinueServes DEF ServiceStep
<1>2. \A p \in Pids :
        child'[p] = IF proc'[p] = proc[p] THEN child[p]
                    ELSE IF proc'[p] = "idle" THEN New ELSE Gone
  BY DEF ServiceStep, Forked
<1>3. ChildTypeOK'
  <2>1. {New, Gone} \subseteq [phase : Phases, kind : {"none", "recording", "snapshot", "nothing"},
                              reply : {"none", "true", "false"}]
    BY DEF New, Gone, Phases
  <2>2. DOMAIN child' = Pids /\ child' = [p \in Pids |-> child'[p]]
    BY DEF ServiceStep, Forked
  <2> QED
    BY <1>2, <2>1, <2>2 DEF SystemInv, ChildTypeOK
<1>4. ASSUME NEW p \in Pids PROVE InStep(p)'
  <2>1. inbox[p] \in Seq(Calls)
    BY <1>0 DEF TypeOK
  <2>2. CASE proc'[p] # proc[p] /\ proc'[p] = "idle"
    <3>1. child'[p] = New
      BY <1>2, <2>2
    <3> QED
      BY <2>2, <3>1 DEF InStep, New
  <2>3. CASE proc'[p] # proc[p] /\ proc'[p] = "none"
    <3>1. child'[p] = Gone
      BY <1>2, <2>3
    <3> QED
      BY <2>3, <3>1 DEF InStep, Gone
  <2>4. CASE proc'[p] = proc[p]
    <3>1. child'[p] = child[p] /\ InStep(p)
      BY <1>2, <2>4 DEF SystemInv
    <3>2. inbox[p] # << >> => inbox'[p] # << >> /\ Head(inbox'[p]) = Head(inbox[p])
      BY <1>1, <2>1, AppendProperties, HeadTailAppend DEF Served
    <3> QED
      BY <2>4, <3>1, <3>2 DEF InStep
  <2> QED
    BY <1>1, <2>2, <2>3, <2>4 DEF Served
<1> QED
  BY <1>3, <1>4 DEF SystemInv

\* A step of the process p leaves the others in step.
LEMMA OthersInStep ==
  ASSUME SystemInv, ChildTypeOK', NEW p \in Pids, InStep(p)',
         \A q \in Pids \ {p} : child'[q] = child[q] /\ proc'[q] = proc[q] /\ inbox'[q] = inbox[q]
  PROVE  SystemInv'
<1>1. ASSUME NEW q \in Pids \ {p} PROVE InStep(q)'
  BY <1>1 DEF SystemInv, InStep
<1> QED
  BY <1>1 DEF SystemInv

\* The step shows in the service's model of p as a step of it, or not at all.
Mapped(p) == UNCHANGED vars \/ Child(p)

\* The process ends.
LEMMA EndsMaps ==
  ASSUME TypeOK, SystemInv, NEW p \in Pids, Ends(p), child' = [child EXCEPT ![p] = Gone]
  PROVE  End(p) /\ SystemInv'
<1>1. child'[p] = Gone /\ ChildTypeOK' /\ \A q \in Pids \ {p} : child'[q] = child[q]
  BY DEF SystemInv, ChildTypeOK, Gone, Phases
<1>2. Seen(p) = "exited"
  BY <1>1 DEF Seen, Gone
<1>3. End(p)
  BY <1>2 DEF Ends, Shows, End
<1>4. proc'[p] = "exited" /\ \A q \in Pids \ {p} : proc'[q] = proc[q] /\ inbox'[q] = inbox[q]
  BY <1>3 DEF End, TypeOK
<1>5. InStep(p)'
  BY <1>1, <1>4 DEF InStep, Gone
<1> QED
  BY <1>1, <1>3, <1>4, <1>5, OthersInStep

\* Ended, as the contract has it, leaves what is Gone.
LEMMA EndedIsGone ==
  ASSUME ChildTypeOK, NEW p \in Pids, Moves(p), Pipeline(p)!Ended
  PROVE  child' = [child EXCEPT ![p] = Gone]
<1>1. PICK next \in Process(p) : child' = [child EXCEPT ![p] = next]
  BY DEF Moves
<1>2. child'[p] = next
  BY <1>1 DEF ChildTypeOK
<1>3. next.phase = "exited" /\ next.kind = "none" /\ next.reply = "none"
  BY <1>2 DEF Pipeline!Ended
<1>4. next = Gone
  BY <1>3, ProcessIs DEF Gone
<1> QED
  BY <1>1, <1>4

LEMMA QuietMaps ==
  ASSUME KnownInv, SystemInv, NEW p \in Pids,
         Subscribes(p) \/ Captured(p) \/ Exits(p) \/ Dies(p) \/ Killed(p)
  PROVE  Mapped(p) /\ SystemInv'
<1>0. TypeOK /\ ChildTypeOK /\ InStep(p)
  BY DEF KnownInv, IInv, SystemInv
<1>1. CASE Subscribes(p)
  <2>1. /\ UNCHANGED vars /\ ChildTypeOK' /\ \A q \in Pids \ {p} : child'[q] = child[q]
        /\ child'[p].phase = child[p].phase /\ child'[p].kind = child[p].kind
    BY <1>0, <1>1, MovesAre DEF Subscribes, Pipeline!Subscribe
  <2>2. InStep(p)'
    BY <1>0, <2>1 DEF InStep, vars
  <2> QED
    BY <2>1, <2>2, OthersInStep DEF Mapped, vars
<1>2. CASE Captured(p)
  <2>1. /\ ChildTypeOK' /\ \A q \in Pids \ {p} : child'[q] = child[q]
        /\ child[p].phase = "capturing" /\ child'[p].phase = "quitting"
        /\ child'[p].kind = child[p].kind
    BY <1>0, <1>2, MovesAre DEF Captured, Pipeline!EndOfStream
  <2>2. Seen(p) = "quitting"
    BY <2>1 DEF Seen
  <2>3. ChildEos(p)
    BY <1>2, <2>2 DEF Captured, Shows, ChildEos
  <2>4. /\ proc'[p] = "quitting" /\ inbox' = inbox
        /\ \A q \in Pids \ {p} : proc'[q] = proc[q]
    BY <1>0, <2>3 DEF ChildEos, TypeOK
  <2>5. InStep(p)'
    BY <1>0, <2>1, <2>4 DEF InStep
  <2> QED
    BY <2>1, <2>3, <2>4, <2>5, OthersInStep DEF Mapped, Child
<1>3. CASE Exits(p)
  <2>1. End(p) /\ SystemInv'
    BY <1>0, <1>3, EndedIsGone, EndsMaps DEF Exits, Pipeline!Exit
  <2> QED
    BY <1>3, <2>1 DEF Exits, ChildExit, Child, Mapped
<1>4. CASE Dies(p)
  <2>1. End(p) /\ SystemInv'
    BY <1>0, <1>4, EndedIsGone, EndsMaps DEF Dies, Pipeline!Crash
  <2>2. CASE child[p].phase = "stopping"
    <3>1. "crash" \in Env /\ proc[p] \in Running \ NotLoaded
      BY <1>0, <1>4, <2>2 DEF Dies, InHand, InStep, Running, NotLoaded
    <3> QED
      BY <2>1, <3>1 DEF ChildCrash, Child, Mapped
  <2>3. CASE child[p].phase = "idle"
    <3>1. "crashEarly" \in Env /\ proc[p] \in NotLoaded
      BY <1>0, <1>4, <2>3 DEF Dies, InHand, InStep, NotLoaded
    <3> QED
      BY <2>1, <3>1 DEF ChildCrash, Child, Mapped
  <2> QED
    BY <1>4, <2>1, <2>2, <2>3 DEF Dies, Pipeline!Crash
<1>5. CASE Killed(p)
  <2>1. End(p) /\ SystemInv'
    BY <1>0, <1>5, EndsMaps DEF Killed
  <2> QED
    BY <1>5, <2>1 DEF Killed, ChildCrash, Child, Mapped
<1> QED
  BY <1>1, <1>2, <1>3, <1>4, <1>5

\* The head of an inbox is handled: what the step leaves of it, in the service's terms.
LEMMA Handled ==
  ASSUME TypeOK, NEW p \in Pids, Shows(p), Responds(p)
  PROVE  /\ proc'[p] = Seen(p) /\ \A q \in Pids \ {p} : proc'[q] = proc[q] /\ inbox'[q] = inbox[q]
         /\ InHand(p)' => inbox'[p] = inbox[p]
BY DEF TypeOK, Shows, Responds

\* A call is taken and not answered yet.
LEMMA TakesInHand ==
  ASSUME KnownInv, SystemInv, NEW p \in Pids, Serves(p), InHand(p)'
  PROVE  Mapped(p) /\ SystemInv'
<1>0. TypeOK /\ ChildTypeOK /\ InStep(p)
  BY DEF KnownInv, IInv, SystemInv
<1>1. /\ ChildTypeOK' /\ (\A q \in Pids \ {p} : child'[q] = child[q]) /\ inbox[p] # << >>
      /\ Takes(p) \/ StartReturns(p) \/ Pipeline(p)!StopReturns
      /\ Shows(p) /\ Responds(p) /\ UNCHANGED <<recorders, svc, returnValue>>
  BY <1>0, MovesAre DEF Serves
<1>2. child'[p].phase \in {"loading", "stopping"}
  BY DEF InHand
<1>3. Seen(p) = proc[p]
  BY <1>2 DEF Seen
<1>4. UNCHANGED vars
  BY <1>0, <1>1, <1>3 DEF Shows, Responds, TypeOK, vars
<1>5. CASE /\ Head(inbox[p]) \in DOMAIN StartKind
           /\ Pipeline(p)!Start /\ child'[p].kind = StartKind[Head(inbox[p])]
  <2>1. /\ child[p].phase = "idle" /\ child[p].kind = "none" /\ child'[p].phase = "loading"
        /\ child'[p].kind # "nothing" /\ child'[p].kind # "none"
    BY <1>2, <1>5 DEF Pipeline!Start, Pipeline!StartKinds
  <2>2. Head(inbox[p]) \in {"load", "capture"}
    BY <1>5, <2>1 DEF StartKind
  <2>3. InStep(p)'
    BY <1>0, <1>1, <1>4, <1>5, <2>1, <2>2 DEF InStep, vars
  <2> QED
    BY <1>1, <1>4, <2>3, OthersInStep DEF Mapped, vars
<1>6. CASE Head(inbox[p]) = "stop" /\ Pipeline(p)!Stop
  <2>1. /\ child[p].phase \in {"loaded", "paused", "capturing"} /\ child'[p].phase = "stopping"
        /\ child'[p].kind = child[p].kind
    BY <1>2, <1>6 DEF Pipeline!Stop
  <2>2. InStep(p)'
    BY <1>0, <1>1, <1>4, <1>6, <2>1 DEF InStep, vars
  <2> QED
    BY <1>1, <1>4, <2>2, OthersInStep DEF Mapped, vars
<1>7. ~(StartReturns(p) \/ Pipeline(p)!StopReturns)
  BY <1>2 DEF StartReturns, Pipeline!StartReturns, Pipeline!StopReturns
<1>8. ~(Pipeline(p)!Pause \/ Pipeline(p)!Resume)
  BY <1>2 DEF Pipeline!Pause, Pipeline!Resume, Pipeline!Switch
<1> QED
  BY <1>1, <1>5, <1>6, <1>7, <1>8 DEF Takes

\* A call is answered.
LEMMA AnswersCall ==
  ASSUME KnownInv, SystemInv, NEW p \in Pids, Serves(p), ~InHand(p)'
  PROVE  Mapped(p) /\ SystemInv'
<1>0. TypeOK /\ ChildTypeOK /\ InStep(p)
  BY DEF KnownInv, IInv, SystemInv
<1>1. /\ ChildTypeOK' /\ (\A q \in Pids \ {p} : child'[q] = child[q]) /\ inbox[p] # << >>
      /\ Takes(p) \/ StartReturns(p) \/ Pipeline(p)!StopReturns
      /\ Shows(p) /\ Responds(p) /\ UNCHANGED <<recorders, svc, returnValue>>
  BY <1>0, MovesAre DEF Serves
<1>2. /\ child'[p].phase \notin {"loading", "stopping"} /\ inbox' = [inbox EXCEPT ![p] = Tail(@)]
      /\ IF child'[p].reply = "none" THEN UNCHANGED resp ELSE Reply(p, child'[p].reply)
  BY <1>1 DEF InHand, Responds
<1>3. proc'[p] = Seen(p) /\ \A q \in Pids \ {p} : proc'[q] = proc[q] /\ inbox'[q] = inbox[q]
  BY <1>0, <1>1, Handled
<1>4. ASSUME InStep(p)' PROVE SystemInv'
  BY <1>1, <1>3, <1>4, OthersInStep
<1>5. ASSUME proc[p] \in Running \ {"quitting"},
             \/ ChildStart(p) \/ ChildStop(p) \/ ChildSwitch(p, "pause", "paused")
             \/ ChildSwitch(p, "resume", "loaded")
      PROVE  Mapped(p)
  BY <1>1, <1>2, <1>5 DEF Mapped, Child, ChildHandle
<1>6. CASE /\ Head(inbox[p]) \in DOMAIN StartKind
           /\ Pipeline(p)!Start /\ child'[p].kind = StartKind[Head(inbox[p])]
  <2>1. /\ child[p].phase = "idle" /\ child[p].kind = "none" /\ child'[p].phase = "idle"
        /\ child'[p].kind = "nothing" /\ child'[p].reply = "true"
    BY <1>2, <1>6 DEF Pipeline!Start
  <2>2. Head(inbox[p]) = "empty" /\ proc[p] = "idle"
    BY <1>0, <1>6, <2>1 DEF StartKind, InStep
  <2>3. Seen(p) = "empty"
    BY <2>1 DEF Seen
  <2>4. ChildStart(p)
    BY <1>1, <1>2, <2>1, <2>2, <2>3 DEF ChildStart, Shows
  <2>5. proc[p] \in Running \ {"quitting"}
    BY <2>2 DEF Running, NotLoaded
  <2>6. InStep(p)'
    BY <1>3, <2>1, <2>3 DEF InStep
  <2> QED
    BY <1>4, <1>5, <2>4, <2>5, <2>6
<1>7. CASE Head(inbox[p]) = "stop" /\ Pipeline(p)!Stop
  <2>1. /\ \/ child[p].phase = "idle" /\ child[p].kind # "none" /\ child'[p].reply = "true"
           \/ child[p].phase = "capturing" /\ child'[p].reply = "false"
        /\ child'[p].phase = child[p].phase /\ child'[p].kind = child[p].kind
    BY <1>2, <1>7 DEF Pipeline!Stop
  <2>2. Seen(p) = proc[p] /\ proc[p] \in {"empty", "capturing"}
        /\ (proc[p] = "empty" <=> child[p].phase = "idle")
    BY <1>0, <2>1 DEF Seen, InStep
  <2>3. proc' = proc
    BY <1>0, <1>1, <2>2 DEF Shows, TypeOK
  <2>4. ChildStop(p)
    <3>1. CASE proc[p] = "empty"
      <4>1. Reply(p, "true")
        BY <1>2, <2>1, <2>2, <3>1
      <4>2. proc' = [proc EXCEPT ![p] = IF proc[p] \in NotLoaded THEN proc[p] ELSE "quitting"]
        BY <1>0, <2>3, <3>1 DEF NotLoaded, TypeOK
      <4> QED
        BY <1>7, <4>1, <4>2 DEF ChildStop
    <3>2. CASE proc[p] = "capturing"
      BY <1>2, <1>7, <2>1, <2>2, <2>3, <3>2 DEF ChildStop
    <3> QED
      BY <2>2, <3>1, <3>2
  <2>5. proc[p] \in Running \ {"quitting"}
    BY <2>2 DEF Running, NotLoaded
  <2>6. InStep(p)'
    BY <1>0, <1>3, <2>1, <2>2 DEF InStep
  <2> QED
    BY <1>4, <1>5, <2>4, <2>5, <2>6
<1>8. ASSUME NEW call \in {"pause", "resume"}, NEW target \in {"paused", "loaded"},
             call = "pause" <=> target = "paused", Head(inbox[p]) = call, Pipeline(p)!Switch(target),
             child'[p].reply = "false" => "pauseFail" \in Env
      PROVE  Mapped(p) /\ SystemInv'
  <2>1. /\ child[p].kind = "recording" /\ child'[p].kind = "recording"
        /\ \/ child[p].phase = "idle" /\ child'[p].reply = "none" /\ child'[p].phase = "idle"
           \/ /\ child[p].phase \in {"loaded", "paused"} /\ child'[p].phase = target
              /\ child'[p].reply = "true"
           \/ /\ child[p].phase \in {"loaded", "paused"} /\ child'[p].phase = child[p].phase
              /\ child'[p].reply = "false"
    BY <1>8 DEF Pipeline!Switch
  <2>2. proc[p] = IF child[p].phase = "idle" THEN "empty" ELSE child[p].phase
    BY <1>0, <2>1 DEF InStep
  <2>3. Seen(p) = IF child'[p].phase = "idle" THEN "empty" ELSE child'[p].phase
    BY <2>1 DEF Seen
  <2>4. ChildSwitch(p, call, target)
    <3>1. CASE child[p].phase = "idle"
      <4>1. proc' = proc
        BY <1>0, <1>1, <2>1, <2>2, <2>3, <3>1 DEF Shows, TypeOK
      <4> QED
        BY <1>2, <1>8, <2>1, <2>2, <3>1, <4>1 DEF ChildSwitch, NotLoaded
    <3>2. CASE child'[p].phase = target /\ child'[p].reply = "true" /\ child[p].phase # "idle"
      <4>1. proc' = [proc EXCEPT ![p] = target]
        BY <1>1, <2>3, <3>2 DEF Shows
      <4>2. proc[p] \notin NotLoaded
        BY <2>1, <2>2, <3>2 DEF NotLoaded
      <4> QED
        BY <1>2, <1>8, <3>2, <4>1, <4>2 DEF ChildSwitch
    <3>3. CASE child'[p].phase = child[p].phase /\ child'[p].reply = "false" /\ child[p].phase # "idle"
      <4>1. proc' = proc
        BY <1>0, <1>1, <2>2, <2>3, <3>3 DEF Shows, TypeOK
      <4>2. proc[p] \notin NotLoaded
        BY <2>1, <2>2, <3>3 DEF NotLoaded
      <4> QED
        BY <1>2, <1>8, <3>3, <4>1, <4>2 DEF ChildSwitch
    <3> QED
      BY <2>1, <3>1, <3>2, <3>3
  <2>5. proc[p] \in Running \ {"quitting"}
    BY <2>1, <2>2 DEF Running, NotLoaded
  <2>6. InStep(p)'
    BY <1>3, <2>1, <2>3 DEF InStep
  <2>7. Mapped(p)
    BY <1>5, <1>8, <2>4, <2>5
  <2> QED
    BY <1>4, <2>6, <2>7
<1>9. CASE StartReturns(p)
  <2>1. /\ child[p].phase = "loading" /\ child'[p].reply = "true" /\ child'[p].kind = child[p].kind
        /\ child'[p].phase \in {"idle", "quitting",
                                 IF child[p].kind = "recording" THEN "loaded" ELSE "capturing"}
        /\ child'[p].phase = "idle" \/ (child'[p].phase = "quitting" /\ child[p].kind = "recording") =>
             "loadFail" \in Env
    BY <1>9 DEF StartReturns, Pipeline!StartReturns
  <2>2. /\ proc[p] = "idle" /\ Head(inbox[p]) \in {"load", "capture"}
        /\ child[p].kind = StartKind[Head(inbox[p])]
    BY <1>0, <2>1 DEF InStep
  <2>3. child[p].kind = IF Head(inbox[p]) = "load" THEN "recording" ELSE "snapshot"
    BY <2>2 DEF StartKind
  <2>4. Seen(p) = IF child'[p].phase = "idle" THEN "empty" ELSE child'[p].phase
    BY <2>1, <2>3 DEF Seen
  <2>5. proc' = [proc EXCEPT ![p] = IF child'[p].phase = "idle" THEN "empty" ELSE child'[p].phase]
    BY <1>1, <2>4 DEF Shows
  <2>6. Reply(p, "true")
    BY <1>2, <2>1
  <2>7. ChildStart(p)
    <3>1. CASE child'[p].phase = "idle"
      BY <2>1, <2>2, <2>5, <2>6, <3>1 DEF ChildStart
    <3>2. CASE child'[p].phase = "quitting"
      BY <2>1, <2>2, <2>3, <2>5, <2>6, <3>2 DEF ChildStart
    <3>3. CASE child'[p].phase = IF child[p].kind = "recording" THEN "loaded" ELSE "capturing"
      BY <2>2, <2>3, <2>5, <2>6, <3>3 DEF ChildStart
    <3> QED
      BY <2>1, <3>1, <3>2, <3>3
  <2>8. proc[p] \in Running \ {"quitting"}
    BY <2>2 DEF Running, NotLoaded
  <2>9. InStep(p)'
    BY <1>3, <2>1, <2>3, <2>4 DEF InStep
  <2> QED
    BY <1>4, <1>5, <2>7, <2>8, <2>9
<1>10. CASE Pipeline(p)!StopReturns
  <2>1. /\ child[p].phase = "stopping" /\ child'[p].phase = "quitting" /\ child'[p].reply = "true"
        /\ child'[p].kind = child[p].kind
    BY <1>10 DEF Pipeline!StopReturns
  <2>2. proc[p] \in {"loaded", "paused", "capturing"} /\ Head(inbox[p]) = "stop" /\ child[p].kind # "none"
    BY <1>0, <2>1 DEF InStep
  <2>3. Seen(p) = "quitting"
    BY <2>1 DEF Seen
  <2>4. proc' = [proc EXCEPT ![p] = IF proc[p] \in NotLoaded THEN proc[p] ELSE "quitting"]
    BY <1>1, <2>2, <2>3 DEF Shows, NotLoaded
  <2>5. ChildStop(p)
    BY <1>2, <2>1, <2>2, <2>4 DEF ChildStop
  <2>6. proc[p] \in Running \ {"quitting"}
    BY <2>2 DEF Running, NotLoaded
  <2>7. InStep(p)'
    BY <1>3, <2>1, <2>2, <2>3 DEF InStep
  <2> QED
    BY <1>4, <1>5, <2>5, <2>6, <2>7
<1>11. CASE Head(inbox[p]) = "pause" /\ Pipeline(p)!Pause /\ (child'[p].reply = "false" => "pauseFail" \in Env)
  BY <1>8, <1>11 DEF Pipeline!Pause
<1>12. CASE Head(inbox[p]) = "resume" /\ Pipeline(p)!Resume /\ (child'[p].reply = "false" => "pauseFail" \in Env)
  BY <1>8, <1>12 DEF Pipeline!Resume
<1> QED
  BY <1>1, <1>6, <1>7, <1>9, <1>10, <1>11, <1>12 DEF Takes

\* A step of the system is one that RecorderService has, or none, and keeps the children in step.
LEMMA SystemStep ==
  ASSUME KnownInv, SystemInv, [SystemNext]_systemVars
  PROVE  [Next]_vars /\ KnownInv' /\ SystemInv'
<1>1. ASSUME [Next]_vars, SystemInv' PROVE [Next]_vars /\ KnownInv' /\ SystemInv'
  BY <1>1, NextKnownInv
<1>2. CASE ServiceStep
  BY <1>1, <1>2, ServiceInStep DEF ServiceStep, Next
<1>3. CASE BusStep
  <2>1. UNCHANGED <<proc, inbox, child>>
    BY <1>3 DEF BusStep, Bus, CameraReply, BusError, CallTimeout
  <2>2. SystemInv'
    BY <2>1 DEF SystemInv, ChildTypeOK, InStep
  <2> QED
    BY <1>1, <1>3, <2>2 DEF BusStep, Next
<1>4. ASSUME NEW p \in Pids, ProcessStep(p)
      PROVE  [Next]_vars /\ KnownInv' /\ SystemInv'
  <2>1. Mapped(p) /\ SystemInv'
    BY <1>4, TakesInHand, AnswersCall, QuietMaps DEF ProcessStep
  <2> QED
    BY <1>1, <2>1 DEF Mapped, Next
<1>5. CASE UNCHANGED systemVars
  <2>1. UNCHANGED vars /\ SystemInv'
    BY <1>5 DEF systemVars, vars, SystemInv, ChildTypeOK, InStep
  <2> QED
    BY <1>1, <2>1
<1> QED
  BY <1>2, <1>3, <1>4, <1>5 DEF SystemNext

LEMMA SystemStarts == SystemInit => Init /\ KnownInv /\ SystemInv
<1> SUFFICES ASSUME SystemInit PROVE KnownInv /\ SystemInv
  BY DEF SystemInit
<1>1. Init /\ child = [p \in Pids |-> Gone] /\ proc = [p \in Pids |-> "none"]
  BY DEF SystemInit, Init
<1>2. KnownInv
  BY <1>1, InitIInv, ConstantsAssumption
  DEF KnownInv, Init, StartedInv, InboxInv, LoadInv, RecordingWasStarted, Active, Exists, Loop,
    OwnHolder, Holders
<1>3. SystemInv
  BY <1>1 DEF SystemInv, ChildTypeOK, InStep, Gone, Phases
<1> QED
  BY <1>2, <1>3

\* The service is the same with children that keep PipelineContract, which take their time and
\* may die in a call, as with the children of its own model, which answer a call in one
\* step: every theorem about RecorderService is one about the service with such processes.
THEOREM SystemImplements == SystemSpec => ImplementsService
<1>1. KnownInv /\ SystemInv /\ [SystemNext]_systemVars => [Next]_vars /\ KnownInv' /\ SystemInv'
  BY SystemStep
<1> QED
  BY <1>1, SystemStarts, PTL DEF SystemSpec, Spec, ImplementsService

LEMMA SpecSystemInv == SystemSpec => [](KnownInv /\ SystemInv)
<1>1. KnownInv /\ SystemInv /\ [SystemNext]_systemVars => KnownInv' /\ SystemInv'
  BY SystemStep
<1> QED
  BY <1>1, SystemStarts, PTL DEF SystemSpec

\* Every child is in a state that its contract has.
THEOREM SystemTypeCorrect == SystemSpec => []SystemTypeOK
<1>1. SystemInv => SystemTypeOK
  <2> SUFFICES ASSUME SystemInv PROVE SystemTypeOK
    OBVIOUS
  <2>1. ASSUME NEW p \in Pids PROVE child[p] \in Process(p)
    BY ProcessIs DEF SystemInv, ChildTypeOK
  <2>2. child = [p \in Pids |-> child[p]]
    BY DEF SystemInv, ChildTypeOK
  <2> QED
    BY <2>1, <2>2 DEF SystemTypeOK
<1> QED
  BY <1>1, SpecSystemInv, PTL

-----------------------------------------------------------------------------
\* What the processes take for granted.

\* The process of a recorder records or is told nothing yet, and is not asked for a snapshot;
\* and only a process that records is told to pause or to resume.
Asks(p, calls) == \E i \in DOMAIN inbox[p] : inbox[p][i] \in calls
KindInv ==
  /\ \A id \in RecorderIds : Holders[id] \in Pids =>
       /\ child[Holders[id]].kind \in {"none", "recording"}
       /\ ~Asks(Holders[id], {"capture", "empty"})
  /\ \A p \in Pids : Asks(p, {"pause", "resume"}) => child[p].kind = "recording"

\* What is asked is asked by one more call, by those that were there or by some of them.
LEMMA AsksAppended ==
  ASSUME NEW p, NEW calls, inbox[p] \in Seq(Calls), NEW call \in Calls,
         inbox'[p] = Append(inbox[p], call), Asks(p, calls)'
  PROVE  Asks(p, calls) \/ call \in calls
<1>1. /\ DOMAIN Append(inbox[p], call) = 1..(Len(inbox[p]) + 1) /\ Len(inbox[p]) \in Nat
      /\ \A i \in 1..Len(inbox[p]) : Append(inbox[p], call)[i] = inbox[p][i]
      /\ Append(inbox[p], call)[Len(inbox[p]) + 1] = call
  BY AppendProperties
<1>2. DOMAIN inbox[p] = 1..Len(inbox[p])
  OBVIOUS
<1>3. PICK i \in DOMAIN Append(inbox[p], call) : Append(inbox[p], call)[i] \in calls
  BY DEF Asks
<1> QED
  BY <1>1, <1>2, <1>3 DEF Asks

LEMMA AsksTail ==
  ASSUME NEW p, NEW calls, inbox[p] \in Seq(Calls), inbox[p] # << >>,
         inbox'[p] = Tail(inbox[p]), Asks(p, calls)'
  PROVE  Asks(p, calls)
<1>1. /\ DOMAIN Tail(inbox[p]) = 1..(Len(inbox[p]) - 1) /\ Len(inbox[p]) \in Nat
      /\ \A i \in 1..(Len(inbox[p]) - 1) : Tail(inbox[p])[i] = inbox[p][i + 1]
  BY HeadTailProperties
<1>2. DOMAIN inbox[p] = 1..Len(inbox[p])
  OBVIOUS
<1>3. PICK i \in DOMAIN Tail(inbox[p]) : Tail(inbox[p])[i] \in calls
  BY DEF Asks
<1> QED
  BY <1>1, <1>2, <1>3 DEF Asks

LEMMA AsksHead ==
  ASSUME NEW p, NEW calls, inbox[p] \in Seq(Calls), inbox[p] # << >>
  PROVE  Head(inbox[p]) \in calls => Asks(p, calls)
BY EmptySeq, HeadTailProperties DEF Asks

LEMMA AsksNothing == ASSUME NEW p, NEW calls, inbox[p] = << >> PROVE ~Asks(p, calls)
BY EmptySeq DEF Asks

LEMMA ServiceKind ==
  ASSUME KnownInv, SystemInv, KindInv, ServiceStep
  PROVE  KindInv'
<1>0. IInv /\ TypeOK /\ HandlerInv /\ InboxInv /\ RecordingWasStarted /\ OwnHolder
  BY DEF KnownInv, IInv, StartedInv
<1>1. \A p \in Pids : Served(p)
  BY <1>0, RequestServes, ContinueServes DEF ServiceStep
<1>2. \A p \in Pids :
        child'[p] = IF proc'[p] = proc[p] THEN child[p]
                    ELSE IF proc'[p] = "idle" THEN New ELSE Gone
  BY DEF ServiceStep, Forked
<1>3. ASSUME NEW p \in Pids, proc'[p] # proc[p]
      PROVE  child'[p].kind = "none" /\ inbox'[p] = << >>
  <2>1. inbox[p] = << >> /\ inbox'[p] = inbox[p]
    BY <1>0, <1>1, <1>3 DEF Served, InboxInv, FreePids
  <2> QED
    BY <1>2, <1>3, <2>1 DEF New, Gone
<1>4. ASSUME NEW id \in RecorderIds, Holders'[id] \in Pids
      PROVE  Holders[id] = Holders'[id] \/ proc'[Holders'[id]] # proc[Holders'[id]]
  <2>1. Moved /\ Holders \in [RecorderIds -> Handles]
    BY <1>0, NextMoved, HoldersType DEF ServiceStep, Next
  <2>2. CASE Kept \/ LetGo \/ \E h \in Handles : ForkLocal(h)
    BY <2>2 DEF Kept, LetGo, ForkLocal
  <2>3. ASSUME NEW other \in RecorderIds, TakeOut(other)
        PROVE  Holders[id] = Holders'[id]
    BY <1>4, <2>1, <2>3, ConstantsAssumption DEF TakeOut
  <2>4. ASSUME NEW other \in RecorderIds, NEW h \in Handles, ForkFor(other, h)
        PROVE  Holders[id] = Holders'[id] \/ proc'[Holders'[id]] # proc[Holders'[id]]
    <3>1. Holders' = [Holders EXCEPT ![other] = h] /\ Fork(h)
      BY <2>4 DEF ForkFor
    <3>2. h \in Pids => proc[h] = "none" /\ proc'[h] = "idle"
      BY <1>0, <3>1, ConstantsAssumption DEF Fork, FreePids, TypeOK
    <3> QED
      BY <1>4, <2>1, <3>1, <3>2
  <2> QED
    BY <2>1, <2>2, <2>3, <2>4 DEF Moved
<1>5. ASSUME NEW id \in RecorderIds, NEW p \in Pids, Holders'[id] = p
      PROVE  child'[p].kind \in {"none", "recording"} /\ ~Asks(p, {"capture", "empty"})'
  <2>1. CASE proc'[p] # proc[p]
    <3>1. child'[p].kind = "none" /\ inbox'[p] = << >>
      BY <1>3, <2>1
    <3>2. ~Asks(p, {"capture", "empty"})'
      BY <3>1, EmptySeq DEF Asks
    <3> QED
      BY <3>1, <3>2
  <2>2. CASE proc'[p] = proc[p]
    <3>1. Holders[id] = p /\ child'[p] = child[p]
      BY <1>2, <1>4, <1>5, <2>2
    <3>2. child[p].kind \in {"none", "recording"} /\ ~Asks(p, {"capture", "empty"})
      BY <3>1 DEF KindInv
    <3>3. p # svc.local /\ Served(p) /\ inbox[p] \in Seq(Calls)
      BY <1>0, <1>1, <3>1 DEF OwnHolder, TypeOK
    <3>4. ASSUME NEW call \in Calls, inbox'[p] = Append(inbox[p], call), Sent(p, call)
          PROVE  ~Asks(p, {"capture", "empty"})'
      <4>1. call \notin {"capture", "empty"}
        BY <3>3, <3>4 DEF Sent
      <4> QED
        BY <3>2, <3>3, <3>4, <4>1, AsksAppended
    <3>5. ~Asks(p, {"capture", "empty"})'
      BY <3>2, <3>3, <3>4 DEF Served, Asks
    <3> QED
      BY <3>1, <3>2, <3>5
  <2> QED
    BY <2>1, <2>2
<1>6. ASSUME NEW p \in Pids, Asks(p, {"pause", "resume"})' PROVE child'[p].kind = "recording"
  <2>1. proc'[p] = proc[p]
    <3>1. CASE inbox'[p] = << >>
      BY <1>6, <3>1, EmptySeq DEF Asks
    <3> QED
      BY <1>3, <3>1
  <2>2. child'[p] = child[p] /\ InStep(p) /\ Served(p) /\ inbox[p] \in Seq(Calls)
        /\ child[p].kind \in {"none", "recording", "snapshot", "nothing"} /\ child[p].phase \in Phases
    BY <1>0, <1>1, <1>2, <2>1 DEF SystemInv, ChildTypeOK, TypeOK
  <2>3. CASE Asks(p, {"pause", "resume"})
    BY <2>2, <2>3 DEF KindInv
  <2>4. ASSUME NEW id \in RecorderIds, Exists(id), recorders[id].process = p, Active(id),
               proc[p] \in Running
        PROVE  child[p].kind = "recording"
    <3>1. proc[p] \notin {"idle", "none", "exited"}
      BY <1>0, <2>4, ActiveStarted DEF WasStarted, Running, NotLoaded
    <3>2. Holders[id] = p
      BY <2>4 DEF Holders
    <3>3. child[p].kind \in {"none", "recording"}
      BY <3>2 DEF KindInv
    <3> QED
      BY <2>2, <3>1, <3>3 DEF InStep, Phases
  <2>5. ASSUME NEW call \in Calls, proc[p] \in Running, inbox'[p] = Append(inbox[p], call), Sent(p, call)
        PROVE  child[p].kind = "recording"
    <3>1. Asks(p, {"pause", "resume"}) \/ call \in {"pause", "resume"}
      BY <1>6, <2>2, <2>5, AsksAppended
    <3> QED
      BY <2>3, <2>2, <2>4, <2>5, <3>1 DEF Sent
  <2> QED
    BY <1>6, <2>2, <2>3, <2>5 DEF Served, Asks
<1>7. \A id \in RecorderIds : Holders'[id] \in Pids =>
        /\ child'[Holders'[id]].kind \in {"none", "recording"}
        /\ ~\E i \in DOMAIN inbox'[Holders'[id]] : inbox'[Holders'[id]][i] \in {"capture", "empty"}
  BY <1>5 DEF Asks
<1> QED
  BY <1>6, <1>7 DEF KindInv, Asks

\* What a step of the process p does to what p was told and what it is asked.
LEMMA ProcessAsked ==
  ASSUME KnownInv, SystemInv, NEW p \in Pids, ProcessStep(p)
  PROVE  /\ UNCHANGED <<recorders, svc>>
         /\ \A q \in Pids \ {p} : child'[q] = child[q] /\ inbox'[q] = inbox[q]
         /\ \/ child'[p].kind = "none" /\ inbox'[p] = << >>
            \/ /\ inbox'[p] = inbox[p] \/ (inbox[p] # << >> /\ inbox'[p] = Tail(inbox[p]))
               /\ \/ child'[p].kind = child[p].kind
                  \/ /\ child[p].kind = "none" /\ inbox[p] # << >>
                     /\ Head(inbox[p]) \in DOMAIN StartKind
                     /\ child'[p].kind = StartKind[Head(inbox[p])]
<1>0. TypeOK /\ ChildTypeOK
  BY DEF KnownInv, IInv, SystemInv
<1>1. ASSUME Ends(p), child' = [child EXCEPT ![p] = Gone]
      PROVE  /\ UNCHANGED <<recorders, svc>> /\ child'[p].kind = "none" /\ inbox'[p] = << >>
             /\ \A q \in Pids \ {p} : child'[q] = child[q] /\ inbox'[q] = inbox[q]
  BY <1>0, <1>1 DEF Ends, ChildTypeOK, TypeOK, Gone
<1>2. CASE Exits(p)
  BY <1>0, <1>1, <1>2, EndedIsGone DEF Exits, Pipeline!Exit
<1>3. CASE Dies(p)
  BY <1>0, <1>1, <1>3, EndedIsGone DEF Dies, Pipeline!Crash
<1>4. CASE Killed(p)
  BY <1>1, <1>4 DEF Killed
<1>5. CASE Subscribes(p)
  BY <1>0, <1>5, MovesAre DEF Subscribes, Pipeline!Subscribe, vars
<1>6. CASE Captured(p)
  BY <1>0, <1>6, MovesAre DEF Captured, Pipeline!EndOfStream
<1>7. CASE Serves(p)
  <2>1. /\ inbox[p] # << >> /\ (\A q \in Pids \ {p} : child'[q] = child[q])
        /\ Takes(p) \/ StartReturns(p) \/ Pipeline(p)!StopReturns
        /\ Responds(p) /\ UNCHANGED <<recorders, svc>>
    BY <1>0, <1>7, MovesAre DEF Serves
  <2>2. /\ \A q \in Pids \ {p} : inbox'[q] = inbox[q]
        /\ inbox'[p] = inbox[p] \/ inbox'[p] = Tail(inbox[p])
    BY <1>0, <2>1 DEF Responds, TypeOK
  <2>3. \/ child'[p].kind = child[p].kind
        \/ /\ child[p].kind = "none" /\ Head(inbox[p]) \in DOMAIN StartKind
           /\ child'[p].kind = StartKind[Head(inbox[p])]
    BY <2>1
    DEF Takes, Pipeline!Start, Pipeline!Stop, Pipeline!Pause, Pipeline!Resume, Pipeline!Switch,
      StartReturns, Pipeline!StartReturns, Pipeline!StopReturns
  <2> QED
    BY <2>1, <2>2, <2>3
<1> QED
  BY <1>2, <1>3, <1>4, <1>5, <1>6, <1>7 DEF ProcessStep

LEMMA ProcessKind ==
  ASSUME KnownInv, SystemInv, KindInv, NEW p \in Pids, ProcessStep(p)
  PROVE  KindInv'
<1>0. inbox[p] \in Seq(Calls) /\ child[p].kind \in {"none", "recording", "snapshot", "nothing"}
  BY DEF KnownInv, IInv, SystemInv, TypeOK, ChildTypeOK
<1>1. /\ UNCHANGED <<recorders, svc>>
      /\ \A q \in Pids \ {p} : child'[q] = child[q] /\ inbox'[q] = inbox[q]
      /\ \/ child'[p].kind = "none" /\ inbox'[p] = << >>
         \/ /\ inbox'[p] = inbox[p] \/ (inbox[p] # << >> /\ inbox'[p] = Tail(inbox[p]))
            /\ \/ child'[p].kind = child[p].kind
               \/ /\ child[p].kind = "none" /\ inbox[p] # << >>
                  /\ Head(inbox[p]) \in DOMAIN StartKind
                  /\ child'[p].kind = StartKind[Head(inbox[p])]
  BY ProcessAsked
<1>2. Holders' = Holders
  BY <1>1 DEF Holders, Exists
<1>3. ASSUME NEW calls, Asks(p, calls)' PROVE Asks(p, calls) /\ inbox'[p] # << >>
  <2>1. inbox'[p] # << >>
    BY <1>3, EmptySeq DEF Asks
  <2>2. CASE inbox'[p] = inbox[p]
    BY <1>3, <2>1, <2>2 DEF Asks
  <2>3. CASE inbox[p] # << >> /\ inbox'[p] = Tail(inbox[p])
    BY <1>0, <1>3, <2>1, <2>3, AsksTail
  <2> QED
    BY <1>1, <2>1, <2>2, <2>3
<1>4. ASSUME NEW id \in RecorderIds, Holders[id] = p
      PROVE  child'[p].kind \in {"none", "recording"} /\ ~Asks(p, {"capture", "empty"})'
  <2>1. child[p].kind \in {"none", "recording"} /\ ~Asks(p, {"capture", "empty"})
    BY <1>4 DEF KindInv
  <2>2. ~Asks(p, {"capture", "empty"})'
    BY <1>3, <2>1
  <2>3. inbox[p] # << >> => Head(inbox[p]) \notin {"capture", "empty"}
    BY <1>0, <2>1, AsksHead
  <2>4. child'[p].kind \in {"none", "recording"}
    BY <1>1, <2>1, <2>3 DEF StartKind
  <2> QED
    BY <2>2, <2>4
<1>5. Asks(p, {"pause", "resume"})' => child'[p].kind = "recording"
  BY <1>1, <1>3 DEF KindInv
<1>6. ASSUME NEW q \in Pids \ {p}
      PROVE  /\ child'[q] = child[q]
             /\ \A calls : Asks(q, calls)' = Asks(q, calls)
  BY <1>1 DEF Asks
<1>7. ASSUME NEW id \in RecorderIds, NEW q \in Pids, Holders[id] = q
      PROVE  child'[q].kind \in {"none", "recording"} /\ ~Asks(q, {"capture", "empty"})'
  BY <1>4, <1>6, <1>7 DEF KindInv
<1>8. \A id \in RecorderIds : Holders'[id] \in Pids =>
        /\ child'[Holders'[id]].kind \in {"none", "recording"}
        /\ ~\E i \in DOMAIN inbox'[Holders'[id]] : inbox'[Holders'[id]][i] \in {"capture", "empty"}
  BY <1>2, <1>7 DEF Asks
<1>9. \A q \in Pids : Asks(q, {"pause", "resume"})' => child'[q].kind = "recording"
  BY <1>5, <1>6 DEF KindInv
<1> QED
  BY <1>8, <1>9 DEF KindInv, Asks

\* A process is sent no call that PipelineContract has no step for when its main loop comes to
\* it: it is started once and first, and paused and resumed only if it records.
THEOREM CallsAreFit == SystemSpec => []CallsFit
<1>1. SystemInit => KindInv
  BY ConstantsAssumption, EmptySeq
  DEF SystemInit, Init, KindInv, Holders, Exists, Asks
<1>2. KnownInv /\ SystemInv /\ KindInv /\ [SystemNext]_systemVars => KindInv'
  <2> SUFFICES ASSUME KnownInv, SystemInv, KindInv, [SystemNext]_systemVars PROVE KindInv'
    OBVIOUS
  <2>1. CASE BusStep \/ UNCHANGED systemVars
    <3>1. UNCHANGED <<recorders, inbox, child>>
      BY <2>1 DEF BusStep, Bus, CameraReply, BusError, CallTimeout, systemVars, vars
    <3>2. Holders' = Holders
      BY <3>1 DEF Holders, Exists
    <3> QED
      BY <3>1, <3>2 DEF KindInv, Asks
  <2> QED
    BY <2>1, ServiceKind, ProcessKind DEF SystemNext
<1>3. KnownInv /\ SystemInv /\ KindInv /\ StartedOnce => CallsFit
  <2> SUFFICES ASSUME KnownInv, SystemInv, KindInv, StartedOnce, NEW p \in Pids, inbox[p] # << >>,
                      child[p].phase \in {"idle", "loaded", "paused", "capturing"}
               PROVE  CASE Head(inbox[p]) \in DOMAIN StartKind -> child[p].phase = "idle" /\ child[p].kind = "none"
                        [] Head(inbox[p]) = "stop" -> child[p].kind # "none"
                        [] OTHER -> child[p].kind = "recording"
    BY DEF CallsFit
  <2>1. inbox[p] \in Seq(Calls) /\ InStep(p)
    BY DEF KnownInv, IInv, TypeOK, SystemInv
  <2>2. Head(inbox[p]) \in Calls /\ 1 \in DOMAIN inbox[p] /\ Head(inbox[p]) = inbox[p][1]
    BY <2>1, EmptySeq, HeadTailProperties
  <2>3. Head(inbox[p]) \in {"load", "capture", "empty"} <=> proc[p] = "idle"
    BY <2>2 DEF StartedOnce, StartCalls
  <2>4. DOMAIN StartKind = {"load", "capture", "empty"}
    BY DEF StartKind
  <2>5. proc[p] = "idle" <=> child[p].phase = "idle" /\ child[p].kind = "none"
    BY <2>1 DEF InStep
  <2>6. Head(inbox[p]) \in {"pause", "resume"} => child[p].kind = "recording"
    BY <2>1, AsksHead DEF KindInv
  <2>7. child[p].kind = "none" => child[p].phase = "idle"
    BY <2>1 DEF InStep
  <2> QED
    BY <2>2, <2>3, <2>4, <2>5, <2>6, <2>7 DEF Calls
<1> QED
  BY <1>1, <1>2, <1>3, SpecSystemInv, SystemImplements, OneStart, PTL DEF SystemSpec, ImplementsService

-----------------------------------------------------------------------------
\* What that gives the service with its processes.

\* It keeps RecorderContract, and its safety is that of RecorderService: no null dereference, no
\* child of two owners, none too many or missing, none recording that was not started.
THEOREM SystemSafe ==
  SystemSpec => /\ ImplementsContract
                /\ [](NoNullDereference /\ OwnChild /\ ProcessBalance /\ RecordingWasStarted)
BY SystemImplements, Implements, NullSafe, ChildrenAreOwn, ChildrenBalance, RecorderWasStarted, PTL
DEF ImplementsService

\* Its one thread never waits for a process that does not end, in the surroundings the
\* liveness of the system is checked for.
THEOREM SystemWaitsEnd ==
  ASSUME Live
  PROVE  SystemSpec => []WaitEnds
BY SystemImplements, WaitsEnd, PTL DEF ImplementsService

\* Where no call is lost and no process dies, a recorder that says RECORDING between requests has
\* a process with a pipeline that plays, and one that says PAUSE has one that is paused.
THEOREM SystemStateFollows ==
  ASSUME Orderly
  PROVE  SystemSpec =>
           [](svc.pc = "loop" => \A id \in RecorderIds : Active(id) =>
                child[recorders[id].process].phase =
                  IF recorders[id].state = "RECORDING" THEN "loaded" ELSE "paused")
<1>1. KnownInv /\ OrderlyInv /\ SystemInv /\ svc.pc = "loop" =>
        \A id \in RecorderIds : Active(id) =>
          child[recorders[id].process].phase = IF recorders[id].state = "RECORDING" THEN "loaded" ELSE "paused"
  <2> SUFFICES ASSUME KnownInv, OrderlyInv, SystemInv, svc.pc = "loop", NEW id \in RecorderIds, Active(id)
               PROVE  child[recorders[id].process].phase =
                        IF recorders[id].state = "RECORDING" THEN "loaded" ELSE "paused"
    OBVIOUS
  <2>1. PICK p \in Pids : recorders[id].process = p
    BY ActiveOwn
  <2>2. proc[p] = IF recorders[id].state = "RECORDING" THEN "loaded" ELSE "paused"
    BY <2>1 DEF OrderlyInv, FollowsCalls, Reached, ByState
  <2>3. inbox[p] = << >> /\ InStep(p) /\ child[p].phase \in Phases
    BY DEF OrderlyInv, OneCall, CallPcs, SystemInv, ChildTypeOK
  <2> QED
    BY <2>1, <2>2, <2>3 DEF InStep, Phases
<1> QED
  BY <1>1, SpecSystemInv, SystemImplements, SpecOrderlyInv, PTL DEF ImplementsService
=============================================================================
