--------------------------- MODULE RecordPipeline ---------------------------
(***************************************************************************)
(* One g-record-pipeline process: the Luna handlers of                     *)
(* RecordPipelineService on the main thread, the "record-pipeline" thread  *)
(* of BaseRecordPipeline that handles the messages of the GStreamer bus,   *)
(* the thread of the uMediaServer client that delivers policy actions, and *)
(* the resources ResourceRequestor holds.                                  *)
(*                                                                         *)
(* Neither pipeline_ nor isEos is guarded by a lock, so unloadImpl and     *)
(* sendEos are split where the other threads can come between.             *)
(***************************************************************************)

CONSTANT Kinds  \* what the payload of start may ask for

\* "nothing" is a payload without a video, audio or image member.
AllKinds == {"Video", "Audio", "Snapshot", "nothing"}

ASSUME PipelineAssumption == Kinds \subseteq AllKinds

\* What may go wrong, and is remembered:
\*   "playFail"     the pipeline refuses to play or to pause
\*   "error"        the pipeline posts an error, and may lose the end of stream
\*   "slowEos"      an end of stream takes more than a second
\*   "releaseFail"  uMediaServer refuses a release
\*   "policy"       uMediaServer takes the resources back
\*   "lateStop"     stop comes for a snapshot: it took ten seconds
Faults == {"playFail", "error", "slowEos", "releaseFail", "policy", "lateStop"}

VARIABLES
  kind,      \* pipelineType of recorder_, "none" before start
  main,      \* where the main thread is
  bus,       \* where the record-pipeline thread is
  pipeline,  \* pipeline_: "null", or the state of the GStreamer pipeline
  isLoaded,
  isEos,
  eos,       \* how far the end of stream has come
  held,      \* acquiredResource_ is not empty
  granted,   \* uMediaServer counts the resources as ours
  stray,     \* a release was sent for resources that are not ours
  quit,      \* g_main_loop_quit(main_loop_ptr_) was called
  reply,     \* the answer to the last call, "none" until it is given
  message,   \* a message that is not an end of stream waits on the bus of GStreamer
  subscribed,
  told,      \* subscribers have been told the end of stream
  faults     \* history: what has gone wrong

vars == <<kind, main, bus, pipeline, isLoaded, isEos, eos, held, granted, stray, quit, reply,
          message, subscribed, told, faults>>

\* What only some actions change.
resourceVars == <<held, granted, stray>>
tellVars == <<message, subscribed, told>>

\* Main thread: in its loop; in Load; in sendEos; in unloadImpl, before and after
\* pipeline_ is cleared; about to release in stop; destroying the service; gone.
MainPcs == {"loop", "load", "launch", "loaded", "sendEos", "reset", "poll", "unload",
            "notify", "release", "join", "exited"}

\* Bus thread: in its loop; in the handler of an error or of a change of state, after the
\* callback, and of an end of stream, before it; in unloadImpl; ended.
BusPcs == {"loop", "dot", "eos", "unload", "notify", "joined"}

TypeOK ==
  /\ kind \in AllKinds \cup {"none"}
  /\ main \in MainPcs /\ bus \in BusPcs
  /\ pipeline \in {"null", "created", "playing", "paused"}
  /\ eos \in {"none", "sent", "posted", "taken", "lost"}
  /\ reply \in {"none", "true", "false"}
  /\ isLoaded \in BOOLEAN /\ isEos \in BOOLEAN /\ quit \in BOOLEAN
  /\ held \in BOOLEAN /\ granted \in BOOLEAN /\ stray \in BOOLEAN
  /\ message \in BOOLEAN /\ subscribed \in BOOLEAN /\ told \in BOOLEAN
  /\ faults \subseteq Faults

Init ==
  /\ kind = "none" /\ main = "loop" /\ bus = "loop" /\ pipeline = "null"
  /\ eos = "none" /\ reply = "none"
  /\ isLoaded = FALSE /\ isEos = FALSE /\ quit = FALSE
  /\ held = FALSE /\ granted = FALSE /\ stray = FALSE
  /\ message = FALSE /\ subscribed = FALSE /\ told = FALSE /\ faults = {}

-----------------------------------------------------------------------------
\* ResourceRequestor.

\* A release of what is held reaches uMediaServer, which may refuse it.
SendRelease(refused) ==
  /\ granted' = (granted /\ (refused \/ ~held))
  /\ stray' = (stray \/ (held /\ ~granted))
  /\ faults' = faults \cup (IF refused THEN {"releaseFail"} ELSE {})

\* releaseResource forgets what it has released.
ReleaseResource(refused) == SendRelease(refused) /\ held' = (held /\ refused)

\* Mutant: the destructor does not release.
ForgetResource(refused) == held' = FALSE /\ UNCHANGED <<granted, stray, faults>>

\* The destructor releases what is still held, and forgets it whatever the answer.
DestroyResource(refused) == SendRelease(refused) /\ held' = FALSE

\* policyActionHandler releases what is held but does not forget it.
PolicyAction ==
  /\ granted /\ main \notin {"join", "exited"}
  /\ granted' = ~held /\ faults' = faults \cup {"policy"}
  /\ UNCHANGED <<kind, main, bus, pipeline, isLoaded, isEos, eos, held, stray, quit, reply,
                 tellVars>>

-----------------------------------------------------------------------------
\* RecordPipelineService: subscribe, start, and BaseRecordPipeline::Load.

MainLoop == main = "loop" /\ ~quit

\* The handler answers and goes back to the main loop.
Return(value) == main' = "loop" /\ reply' = value

\* The snapshots of the service subscribe before they start.
Subscribe ==
  /\ MainLoop /\ kind = "none"
  /\ \/ subscribed' = TRUE /\ reply' = "true"
     \/ reply' = "false" /\ UNCHANGED subscribed
  /\ UNCHANGED <<kind, main, bus, pipeline, isLoaded, isEos, eos, resourceVars, quit, message,
                 told, faults>>

\* Mutant: a snapshot is given another pipelineType than the one looked for.
StartImage(k) ==
  /\ MainLoop /\ kind = "none"
  /\ kind' = (IF k = "Snapshot" THEN "Image" ELSE k)
  /\ IF k = "nothing" THEN Return("true") ELSE main' = "load" /\ reply' = "none"
  /\ UNCHANGED <<bus, pipeline, isLoaded, isEos, eos, resourceVars, quit, tellVars, faults>>

\* The service sends one start to each process.
Start(k) ==
  /\ MainLoop /\ kind = "none"
  /\ kind' = k
  /\ IF k = "nothing" THEN Return("true") ELSE main' = "load" /\ reply' = "none"
  /\ UNCHANGED <<bus, pipeline, isLoaded, isEos, eos, resourceVars, quit, tellVars, faults>>

\* There is no uMediaServer: the constructor of ResourceRequestor exits.
StartExits(k) ==
  /\ MainLoop /\ kind = "none"
  /\ kind' = k /\ main' = "exited" /\ bus' = "joined"
  /\ UNCHANGED <<pipeline, isLoaded, isEos, eos, resourceVars, quit, reply, tellVars, faults>>

\* GetSourceInfo fills in nothing for audio, which then needs no resources.
GetSourceInfo == kind \in {"Video", "Snapshot"}

\* Without the resources it needs Load fails, also if they were granted in an answer that
\* does not parse.
LoadAcquire ==
  /\ main = "load"
  /\ \/ /\ ~GetSourceInfo
        /\ main' = "launch"
        /\ UNCHANGED <<held, granted, reply>>
     \/ /\ GetSourceInfo
        /\ held' = TRUE /\ granted' = TRUE
        /\ main' = "launch" /\ UNCHANGED reply
     \/ /\ GetSourceInfo
        /\ granted' \in BOOLEAN
        /\ Return("true") /\ UNCHANGED held
  /\ UNCHANGED <<kind, bus, pipeline, isLoaded, isEos, eos, stray, quit, tellVars, faults>>

\* The pipeline starts to play and says so on its bus.  A snapshot reads one buffer and
\* sends its own end of stream.
Playing ==
  /\ pipeline' = "playing" /\ message' = TRUE
  /\ eos' = IF kind = "Snapshot" THEN "sent" ELSE eos

PlayFails == faults' = faults \cup {"playFail"}

\* launch, addBus and Play, whose result is not looked at; without a bus the new
\* pipeline is unloaded again.
LoadLaunch ==
  /\ main = "launch"
  /\ \/ Playing /\ main' = "loaded" /\ UNCHANGED <<reply, faults>>
     \/ /\ PlayFails /\ pipeline' = "created"
        /\ main' = "loaded" /\ UNCHANGED <<eos, message, reply>>
     \/ Return("true") /\ UNCHANGED <<pipeline, eos, message, faults>>
     \/ /\ pipeline' = "created"
        /\ main' = "unload" /\ UNCHANGED <<eos, message, reply, faults>>
  /\ UNCHANGED <<kind, bus, isLoaded, isEos, resourceVars, quit, subscribed, told>>

LoadReturns ==
  /\ main = "loaded"
  /\ isLoaded' = TRUE /\ Return("true")
  /\ UNCHANGED <<kind, bus, pipeline, isEos, eos, resourceVars, quit, tellVars, faults>>

-----------------------------------------------------------------------------
\* pause and resume, which the service sends to recordings only.

\* Without a recording they do not answer.
Switch(state) ==
  /\ MainLoop /\ kind \in {"Video", "Audio"}
  /\ IF ~isLoaded THEN reply' = "none" /\ UNCHANGED <<pipeline, message, faults>>
     ELSE \/ /\ pipeline' = state /\ reply' = "true"
             /\ message' = (message \/ (state = "playing" /\ pipeline # state))
             /\ UNCHANGED faults
          \/ PlayFails /\ reply' = "false" /\ UNCHANGED <<pipeline, message>>
  /\ UNCHANGED <<kind, main, bus, isLoaded, isEos, eos, resourceVars, quit, subscribed, told>>

Pause == Switch("paused")
Resume == Switch("playing")

-----------------------------------------------------------------------------
\* stop, and unloadImpl on the main thread.

\* Unload fails when the bus thread has unloaded the snapshot.
Stop ==
  /\ MainLoop /\ kind # "none"
  /\ faults' = faults \cup (IF kind = "Snapshot" THEN {"lateStop"} ELSE {})
  /\ IF ~isLoaded THEN Return("true")
     ELSE IF pipeline = "null" THEN Return("false")
     ELSE main' = (IF kind = "Snapshot" THEN "unload" ELSE "sendEos") /\ reply' = "none"
  /\ UNCHANGED <<kind, bus, pipeline, isLoaded, isEos, eos, resourceVars, quit, tellVars>>

\* Mutant: a paused pipeline is not made to play.
SendEosPaused ==
  /\ main = "sendEos"
  /\ IF pipeline = "created" THEN main' = "unload" /\ UNCHANGED eos
     ELSE main' = "reset" /\ eos' = "sent"
  /\ UNCHANGED <<kind, bus, pipeline, isLoaded, isEos, resourceVars, quit, reply, tellVars,
                 faults>>

\* The end of stream is sent, and a paused pipeline made to play so that it gets
\* through; a pipeline that never played is left alone.
SendEos ==
  /\ main = "sendEos"
  /\ IF pipeline = "created" THEN main' = "unload" /\ UNCHANGED <<pipeline, eos, message, faults>>
     ELSE /\ main' = "reset" /\ eos' = "sent"
          /\ \/ /\ pipeline' = "playing" /\ message' = (message \/ pipeline = "paused")
                /\ UNCHANGED faults
             \/ pipeline = "paused" /\ PlayFails /\ UNCHANGED <<pipeline, message>>
  /\ UNCHANGED <<kind, bus, isLoaded, isEos, resourceVars, quit, reply, subscribed, told>>

\* isEos is cleared after the event was sent: the message may have come already.
ResetEos ==
  /\ main = "reset"
  /\ isEos' = FALSE /\ main' = "poll"
  /\ UNCHANGED <<kind, bus, pipeline, isLoaded, eos, resourceVars, quit, reply, tellVars, faults>>

\* What will set isEos is on its way.
EosComing == (eos = "sent" /\ pipeline = "playing") \/ eos = "posted"

\* Mutant: the poll is not bounded.
PollForEver ==
  /\ main = "poll" /\ isEos /\ main' = "unload"
  /\ UNCHANGED <<kind, bus, pipeline, isLoaded, isEos, eos, resourceVars, quit, reply, tellVars,
                 faults>>

\* Mutant: the poll does not wait.
PollOnce ==
  /\ main = "poll" /\ main' = "unload"
  /\ UNCHANGED <<kind, bus, pipeline, isLoaded, isEos, eos, resourceVars, quit, reply, tellVars,
                 faults>>

\* The poll ends when it sees isEos, or after a second.
Poll ==
  /\ main = "poll" /\ main' = "unload"
  /\ faults' = faults \cup (IF ~isEos /\ EosComing THEN {"slowEos"} ELSE {})
  /\ UNCHANGED <<kind, bus, pipeline, isLoaded, isEos, eos, resourceVars, quit, reply, tellVars>>

Unload ==
  /\ main = "unload"
  /\ pipeline' = "null" /\ main' = "notify"
  /\ UNCHANGED <<kind, bus, isLoaded, isEos, eos, resourceVars, quit, reply, tellVars, faults>>

\* Mutant: the end of the pipeline does not end the main loop.
UnloadStays ==
  /\ main = "notify"
  /\ IF isLoaded THEN main' = "release" /\ UNCHANGED reply ELSE Return("true")
  /\ UNCHANGED <<kind, bus, pipeline, isLoaded, isEos, eos, resourceVars, quit, tellVars, faults>>

\* Notify ends the main loop.  Unload returns to stop, or to Load, which then fails.
UnloadReturns ==
  /\ main = "notify"
  /\ quit' = TRUE
  /\ IF isLoaded THEN main' = "release" /\ UNCHANGED reply ELSE Return("true")
  /\ UNCHANGED <<kind, bus, pipeline, isLoaded, isEos, eos, resourceVars, tellVars, faults>>

StopReturns ==
  /\ main = "release"
  /\ isLoaded' = FALSE
  /\ \E refused \in BOOLEAN : ReleaseResource(refused)
  /\ Return("true")
  /\ UNCHANGED <<kind, bus, pipeline, isEos, eos, quit, tellVars>>

-----------------------------------------------------------------------------
\* GStreamer and the record-pipeline thread: handleBusMessage.

\* The pipeline fails: subscribers will be told of it, but nothing is unloaded.  What has
\* not got through the pipeline may never do so.
PostError ==
  /\ pipeline \in {"playing", "paused"}
  /\ message' = TRUE /\ faults' = faults \cup {"error"}
  /\ eos' \in {eos, IF eos = "sent" THEN "lost" ELSE eos}
  /\ UNCHANGED <<kind, main, bus, pipeline, isLoaded, isEos, resourceVars, quit, reply,
                 subscribed, told>>

\* The end of stream gets through the pipeline to its bus.
PostEos ==
  /\ eos = "sent" /\ pipeline = "playing"
  /\ eos' = "posted"
  /\ UNCHANGED <<kind, main, bus, pipeline, isLoaded, isEos, resourceVars, quit, reply, tellVars,
                 faults>>

\* An error or a change of state: subscribers are told, and then the pipeline is drawn for
\* those who debug.
TakeMessage ==
  /\ bus = "loop" /\ message /\ pipeline # "null"
  /\ message' = FALSE /\ bus' = "dot"
  /\ UNCHANGED <<kind, main, pipeline, isLoaded, isEos, eos, resourceVars, quit, reply,
                 subscribed, told, faults>>

Draw ==
  /\ bus = "dot"
  /\ bus' = "loop"
  /\ UNCHANGED <<kind, main, pipeline, isLoaded, isEos, eos, resourceVars, quit, reply, tellVars,
                 faults>>

\* The end of stream comes after what was posted before it.  unloadImpl takes the bus
\* watch away with the pipeline.
TakeEos ==
  /\ bus = "loop" /\ eos = "posted" /\ ~message /\ pipeline # "null"
  /\ eos' = "taken" /\ isEos' = TRUE /\ bus' = "eos"
  /\ UNCHANGED <<kind, main, pipeline, isLoaded, resourceVars, quit, reply, tellVars, faults>>

\* Mutant: a recording is unloaded at its end of stream too.
EndOfStreamUnloads ==
  /\ bus = "eos"
  /\ told' = subscribed
  /\ bus' = IF pipeline # "null" THEN "unload" ELSE "loop"
  /\ UNCHANGED <<kind, main, pipeline, isLoaded, isEos, eos, resourceVars, quit, reply, message,
                 subscribed, faults>>

\* Mutant: a snapshot is unloaded before subscribers are told.
EndOfStreamUntold ==
  /\ bus = "eos"
  /\ IF kind = "Snapshot" /\ pipeline # "null" THEN bus' = "unload" /\ UNCHANGED told
     ELSE bus' = "loop" /\ told' = subscribed
  /\ UNCHANGED <<kind, main, pipeline, isLoaded, isEos, eos, resourceVars, quit, reply, message,
                 subscribed, faults>>

\* Subscribers are told; a snapshot unloads itself.
EndOfStream ==
  /\ bus = "eos"
  /\ told' = subscribed
  /\ bus' = IF kind = "Snapshot" /\ pipeline # "null" THEN "unload" ELSE "loop"
  /\ UNCHANGED <<kind, main, pipeline, isLoaded, isEos, eos, resourceVars, quit, reply, message,
                 subscribed, faults>>

BusUnload ==
  /\ bus = "unload"
  /\ pipeline' = "null" /\ bus' = "notify"
  /\ UNCHANGED <<kind, main, isLoaded, isEos, eos, resourceVars, quit, reply, tellVars, faults>>

BusUnloadReturns ==
  /\ bus = "notify"
  /\ quit' = TRUE /\ bus' = "loop"
  /\ UNCHANGED <<kind, main, pipeline, isLoaded, isEos, eos, resourceVars, reply, tellVars,
                 faults>>

-----------------------------------------------------------------------------
\* The end of the process.

\* The main loop has returned; the service destroys its ResourceRequestor first.
Close ==
  /\ main = "loop" /\ quit
  /\ \E refused \in BOOLEAN : DestroyResource(refused)
  /\ main' = "join"
  /\ UNCHANGED <<kind, bus, pipeline, isLoaded, isEos, eos, quit, reply, tellVars>>

\* The destructor of the recorder finds no pipeline to unload (SingleUnload) and waits
\* for the record-pipeline thread to leave its loop.
Join ==
  /\ main = "join" /\ bus = "loop"
  /\ main' = "exited" /\ bus' = "joined"
  /\ UNCHANGED <<kind, pipeline, isLoaded, isEos, eos, resourceVars, quit, reply, tellVars,
                 faults>>

\* Two threads have gone past the check of pipeline_ in unloadImpl.
DoubleUnload ==
  \/ main = "unload" /\ (bus = "unload" \/ pipeline = "null")
  \/ bus = "unload" /\ pipeline = "null"

\* The bus thread uses a pipeline that has been unloaded.
StaleDraw == bus = "dot" /\ pipeline = "null"

\* The process may die of it, and uMediaServer sees it gone.
Crash ==
  /\ DoubleUnload \/ StaleDraw
  /\ main' = "exited" /\ bus' = "joined" /\ pipeline' = "null" /\ granted' = FALSE
  /\ UNCHANGED <<kind, isLoaded, isEos, eos, held, stray, quit, reply, tellVars, faults>>

-----------------------------------------------------------------------------

Main ==
  \/ LoadAcquire \/ LoadLaunch \/ LoadReturns
  \/ SendEos \/ ResetEos \/ Poll \/ Unload \/ UnloadReturns \/ StopReturns
  \/ Close \/ Join

BusThread == TakeMessage \/ Draw \/ TakeEos \/ EndOfStream \/ BusUnload \/ BusUnloadReturns

Call == Subscribe \/ Stop \/ Pause \/ Resume \/ \E k \in Kinds : Start(k) \/ StartExits(k)

Next == Call \/ Main \/ BusThread \/ PostError \/ PostEos \/ PolicyAction \/ Crash

Spec == Init /\ [][Next]_vars

\* Both threads run when they can, and GStreamer does deliver an end of stream that no
\* error stops.  No call need come.
FairSpec == Spec /\ WF_vars(Main) /\ WF_vars(BusThread) /\ WF_vars(PostEos)

-----------------------------------------------------------------------------
\* Properties.

\* Until one of what has happened, a property is claimed.
Until(what) == faults \cap what = {}

\* pipeline_ is unloaded by one thread at a time and once, although main thread, bus thread
\* and destructor all unload and none locks; until a snapshot is stopped.
SingleUnload ==
  Until({"lateStop"}) =>
    ~DoubleUnload /\ (main \in {"join", "exited"} => pipeline = "null")

\* The bus thread goes on using pipeline_ after it has told subscribers of a change of
\* state; stop unloads only when it is through, because the end of stream it waits for is
\* behind that message in the same queue.
DrawsLive ==
  Until({"lateStop", "slowEos", "playFail", "error"}) => ~StaleDraw

\* A recording that has played is unloaded only after its end of stream got through,
\* so that the muxer has finished the file; paused recordings too.
Finalised ==
  [][Unload /\ kind \in {"Video", "Audio"} /\ pipeline # "created" =>
       ~Until({"slowEos", "playFail", "error"}) \/ eos \in {"posted", "taken"}]_vars

\* When the process of a snapshot that played is about to end, its subscriber has been told
\* the end of stream: the service, which polls for that, never waits for a process that
\* has gone without a word.
EndIsTold ==
  Until({"lateStop"}) =>
    (quit /\ kind = "Snapshot" /\ eos # "none" /\ subscribed => told)

\* What uMediaServer has granted is released at most once, whoever releases it, until
\* uMediaServer takes it back.
ReleasedOnce == Until({"policy"}) => ~stray

\* and at least once by the time the process ends by itself.
AllReleased == Until({"releaseFail"}) => (main = "exited" => ~granted)

\* So stop, the destructor and the policy action give it back once between them.
GivenBackOnce == ReleasedOnce /\ AllReleased

-----------------------------------------------------------------------------
\* The process implements PipelineContract.

Phase ==
  CASE main = "exited" -> "exited"
    [] main \notin {"loop", "join", "exited"} -> IF isLoaded THEN "stopping" ELSE "loading"
    [] main \in {"loop", "join"} ->
         IF quit THEN "quitting"
         ELSE IF ~isLoaded THEN "idle"
         ELSE IF kind = "Snapshot" THEN "capturing"
         ELSE IF pipeline = "paused" THEN "paused" ELSE "loaded"

\* What was asked for, and the last answer, of a process that is there.
Asked ==
  CASE main = "exited" \/ kind = "none" -> "none"
    [] main # "exited" /\ kind \in {"Video", "Audio"} -> "recording"
    [] main # "exited" /\ kind = "Snapshot" -> "snapshot"
    [] main # "exited" /\ kind = "nothing" -> "nothing"

Answer == IF main = "exited" THEN "none" ELSE reply

Contract == INSTANCE PipelineContract WITH phase <- Phase, kind <- Asked, reply <- Answer

\* Seen from the service the process is idle, loads, and ends once, and answers as the
\* contract says, whatever its threads, GStreamer and uMediaServer do.
ImplementsContract == Contract!Spec

\* Unless its pipeline fails it does return from its calls, end its snapshots and go away.
ImplementsFairness == []Until({"playFail", "error"}) => Contract!Fairness
=============================================================================
