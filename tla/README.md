# TLA+ models of com.webos.service.mediarecorder

`com.webos.service.mediarecorder` records camera and microphone to files for other
applications. Clients open a *recorder*, set it up, start, pause, resume and stop it,
and take snapshots while it records. For each recording and each snapshot the service
forks a process, `g-record-pipeline`, that runs a GStreamer pipeline and is itself a
Luna (luna-service2) service.

This directory models the service, the pipeline process and the snapshots, checks the
models with TLC and proves the most important safety properties with TLAPS. Paths
below are those of the repository; `file:line` is a line of its source.

## 1. The system

| part | state | operations | talks to |
|---|---|---|---|
| `MediaRecorderManager` (`src/media_recorder_manager.cpp`) | `recorders`, a map from random id to recorder | twelve Luna methods, all on one GMainLoop thread | calls `MediaRecorder`, answers the client |
| `MediaRecorder` (`src/media_recorder.cpp`) | `state`, sources, settings, `record_process`, `record_client`, `record_uri`, `snapshot_client`, `mEos` | open, close, set*, start, stop, pause, resume, takeSnapshot, `snapshotCb` | forks `Process`, calls the pipeline through `LSConnector`, asks the camera service for its format |
| `Process` (`src/process/process.cpp`) | `_pid` | `fork`/`exec` in the constructor, `wait` in the destructor | the operating system |
| `LSConnector`, `LunaClient` (`src/ls_connector/`) | a thread with its own GMainContext, a bus handle, `subscribeKey_`, `handlers_` | `callSync`, `subscribe`, `unsubscribe` | the bus; calls back on its own thread |
| `GenerateUniqueID` | a random generator | a fresh bus name for each child | |
| `ErrorManager`, `json_utils.h` | tables | codes and texts, optional members of a request | |
| `RecordPipelineService` (`pipeline/src/service/`) | `recorder_`, `isLoaded_`, `resourceRequestor_`, the main loop | start, stop, pause, resume, subscribe, `Notify` | drives a `BaseRecordPipeline`, tells its subscribers |
| `BaseRecordPipeline` and its Video, Audio and Snapshot subclasses (`pipeline/src/recordpipeline/`) | `pipeline_`, `isEos`, a bus thread | Load, Unload, Play, Pause, `sendEos`, `handleBusMessage` | GStreamer, `Notify` |
| `PipelineFactory`, `ElementFactory` | none | choose the subclass and the elements | |
| `ResourceRequestor` (`pipeline/src/resourcefacilitator/`) | `acquiredResource_` | acquire, release, policy action, destructor | uMediaServer's resource manager |
| `BufferEncoder` (`bufferencoder/`) | `pipeline_`, `encoder_`, `bitrate_` | Initialize, EncodeBuffer, UpdateEncodingParams, Destroy | GStreamer |
| test application (`tests/com.sample.record.test/`) | a client's view of one recorder | GUI | the service |

What is hard in it:

* **Blocking inside a single-threaded service.** A handler blocks in `callSync` and in
  `wait()`; the children go on, die, answer late. Whatever blocks for ever stops every
  client.
* **`wait()` takes any child.** A `Process` destructor may take the exit of another
  recorder's child.
* **Half-done operations.** `start` forks, registers a client, asks the camera, checks
  the format and calls the child, and may return after each of these.
* **Two threads without locks**, twice: `mEos`, `subscribeKey_` and `handlers_` in the
  service, `pipeline_` and `isEos` in the child.
* **Lost and late messages**: a reply after the timeout, an end of stream before `mEos`
  is cleared, the end of stream of a snapshot that was given up.
* **Callbacks from threads nobody joins**: the encoder library calls its owner from a
  streaming thread that may outlive the pipeline the owner knows of.
* **Names from two clocks**: a file name is made of two readings; nothing looks whether the
  file is there.
* **Resources of another process**: what uMediaServer granted must be given back once.

`PROJECT.json` lists each hazard at its line with the properties that cover it.

What makes each part correct:

* the service: a request is answered true exactly when it did what it asks for; no
  recorder is touched by another's request; `state` follows the pipeline; a recorder
  that records has a child and a usable client; children and `Process` objects match;
  every request is answered.
* a snapshot: `mEos` is believed only for the snapshot it is about; a capture is not
  missed; subscriptions do not pile up.
* the pipeline process: it answers and ends as the service relies on; the pipeline is
  unloaded once, by one thread, after the file is finished; resources are released once.
* the encoder library: the encoder has the rate asked for last, and nobody is called back
  from, or feeds, a pipeline that was given up.
* file names: the path that is answered is that of the file that was recorded.

## 2. The modules

| module | models | refines or uses |
|---|---|---|
| `RecorderContract` | what clients are promised about a recorder | |
| `RecorderService` | the service process: manager, recorders, `Process`, `callSync`, its children as black boxes, the bus | implements `RecorderContract` |
| `RecorderSystem` | the service, each child a process of its own that keeps `PipelineContract` | uses `RecorderService` and `PipelineContract`, implements the former |
| `PipelineContract` | what a child promises the service, and which calls it takes for granted | |
| `RecordPipeline` | one child: both threads, GStreamer, uMediaServer | implements `PipelineContract` |
| `Snapshot` | the snapshots of one recorder: main thread, callback thread, subscriptions, children | |
| `CallSync` | one `LSConnector` and its calls: the caller's thread and the connector's | under `resp` of `RecorderService` |
| `RecorderSettings` | the settings of one recorder from the requests to the pipelines | beside the life of a recorder in `RecorderService` |
| `RecordFileName` | the names of all files, the clock and which path is answered | beside it too |
| `BufferEncoder` | one encoder of the library: its owner and the streaming threads | on its own: the service does not use it |
| `MC*` | instances for TLC, with one `.cfg` for each run | |
| `*Proofs` | theorems and proofs | |

The modules overlap at five seams. The first is closed by refinement: `RecordPipeline` implements
`PipelineContract`; `RecorderSystem`, whose children are that contract, implements
`RecorderService`; and that implements `RecorderContract`. What the contract takes for granted, that a
child is started once and only recordings are paused and resumed, is `CallsFit` of `RecorderSystem`.
The fairness assumed of the children (a call is handled, a snapshot ends, a process that has quit
goes) is what `ImplementsFairness` checks of `RecordPipeline`. The other four are by their
properties, as follows. In `RecorderService` the poll of `mEos` is one step; `Snapshot` has the
threads under that step, and `PollSound` is its guard: while no snapshot was given up,
the poll ends only for one that has been captured. A call of
`RecorderService` is one step that gets its own reply, an error or a timeout; `CallSync` has
the two threads under it, and `OwnReply` and `Returns` say that much. `RecorderService` keeps
of the settings whether the file format fits the source; `RecorderSettings` has them all, with
each method as one step. Likewise it leaves out the paths: `RecordFileName` has the part of
`start` and `takeSnapshot` that makes one, with the clock going on in between.

### RecorderService

`svc` is the handler in progress: `svc.pc = "loop"` between requests, otherwise the place
where it blocks. A handler is one action up to the first `callSync` or `wait()`, and one
action after each. `HandleX` is the manager's method `x` (guards in the order of the code:
payload, id, state), `StartClient`, `StartCamera`, `StartFormat`, `StartLoad` are the parts
of `MediaRecorder::start`, `Snapshot*` those of `takeSnapshot`, `Reap` a `wait()` that returns.
`recorders[id]` holds `state`, the `Process` and the client of a recorder, whether its file
format fits its source (all the settings decide here), and whether a late end of stream may
come. `proc[p]` is what a child does, `inbox[p]` the calls it has not handled. `resp` is
the reply `callSync` waits for. A call without a bus handle fails at once (`Send`), a
call to a child that is gone is answered by the bus (`BusError`), any call may time out
(`CallTimeout`), and the call stays in the child's inbox when it does.

`Env` names what the surroundings may do: draw a used id, ask for an unfit format, ask
for a snapshot of an audio recording, refuse the camera format, fail to load, to pause, to
subscribe, be late, crash after or before loading, fail to fork. Properties that hold only
without some of these are checked with those left out, and what breaks them is said below.

### RecorderSystem

`child[p]` is the state of process `p` in the terms of `PipelineContract`: its phase, what it was
told to start and its last answer. Each action of a child is an action of the contract for `p`
together with what the service can tell of it: `Takes` begins the handler of the oldest call,
`StartReturns` and the contract's `StopReturns` end it, and only then is the call answered
(`Responds`) and does the child show itself loaded or quitting (`Seen`). So a caller may time out
while its call is in hand, and a process may die in a handler (`Dies`). `Subscribes` is a call
that `RecorderService` does not have, and changes nothing it can tell. `Killed` is a signal, which no
contract excludes. The service's actions are those of `RecorderService`; `Forked` keeps `child` in
step with what `fork` and `wait()` do to `proc`. `Env` means what it does there.

### RecordPipeline

`main` and `bus` are the program counters of the two threads. `unloadImpl` is split
between the check of `pipeline_`, its clearing and the notification that quits the main
loop, `sendEos` between sending the event, clearing `isEos` and the poll, and the handler of
a bus message where it goes on with `pipeline_` after its callback (`Draw`). `pipeline` is
`pipeline_` with the state of what it points to, `message` a change of state or an error that
waits on the bus in front of the end of stream. `held` is `acquiredResource_`, `granted` what
uMediaServer counts: the two differ when a release is refused or a policy action took the
resources. `told` is what subscribers know. Unreferencing twice is undefined: `Crash` may then
end the process, or it goes on. `faults` remembers what has gone wrong, so that one run has
everything and each property says until which fault it is claimed (`Until`).

### Snapshot

`n` numbers the snapshots of a recorder. The main thread subscribes (`LSCall`, then, as a step
of its own, the entry in `handlers_`), tells the child to start, clears `mEos`, polls it, gives
up after ten seconds and waits for the child. The callback sets `mEos`, then cancels the
subscription with the key stored *last*, then erases that key's handler. Keys are the numbers of
the snapshots; `handlers` are those with an entry, `subscribed` those that can still deliver.
`faults` has what was late, early, held up or refused.

### BufferEncoder

Pipelines are numbered as they are made, and the members are the number of the pipeline they
point into: `pipeline_`, `source_` and `encoder_` part ways when Initialize fails between them,
which it may do at each element. `gst` and `rate` are what GStreamer has of each pipeline. The
streaming thread of a pipeline that plays takes buffers and is in the owner's callback
(`calling`) for a while; setting a pipeline to NULL waits for it (`Destroyed`). `wanted` and
`replaced` are history: the rate the owner asked for since its last successful Initialize, and
whether it called Initialize over a pipeline that was playing, which nothing then stops.

### RecordFileName

`clock` counts hundredths, `LocalTime` maps its seconds to what `localtime` says, which goes back
when summer time ends. `createRecordFileName` is two steps, one for each reading
(`CreateRecordFileName`, `NameWithHundredths`), `Tick` may come between. A path is a folder and
a file name, that is a prefix and the two times. A folder is what its text begins with and the
place it leads to: `IsInTargetFolders` looks at the text alone, as the code does, so
`/tmp/../etc/` is taken and the file is elsewhere. What is asked for is a folder, or a path with
a file name, which may be one that the recorders make or will make too. `PipelineStarts` has the three ends of
`start`: recording, recording though the reply was lost, not recording; each has overwritten
`mRecordPath`. `written` and `answered` are history.

### CallSync

The owner's thread goes through the constructor, any number of `callSync`, the callers that
parse `resp`, and the destructor. The connector's thread starts, dispatches callbacks and ends.
A callback writes three times: it erases the string, fills it, and sets `bDone_`. A write to
the frame of a call that has returned hits the frame of a later call that lies in the same
place, or nothing that is modelled. Undefined behaviour is a choice: with `reorder`, `bDone_` is seen
before what was written ahead of it. `faults` records what went wrong, so that one run
has every fault and the properties still say what holds until the first.

### RecorderSettings

`Unsigned` is the manager's conversion of a number in a request to an unsigned int, which wraps
one that is negative or too large; `told` keeps the number as it was given. `Set*` store what the code stores, also of requests they refuse. `Start` overwrites the
size with the camera's, fails at the format or at its child, or builds `recording` through the
payload (`StartPayload`), `ParseOptionString` (`Parsed`), `CreateRecorder` and the pipelines'
`launch`. `told` is a history variable: what the client was last told is accepted. A refused
format stays in `mFormat` and makes starts fail, but cannot be built with.

## 3. The runs

| run | properties | shows |
|---|---|---|
| `hostile` | `TypeOK` `NoNullDereference` `ProcessBalance` `OwnChild` `RecordingWasStarted` `WaitHasReason` `ImplementsContract` | two recorders, two children, every fault |
| `orderly` | `StateMatchesPipeline` `ReapsOwn` | refusals, id clashes and failed forks, but no lost reply, crash or failed load |
| `live` | `WaitEnds` `CallsFit` `Answered` `ImplementsService` | `RecorderSystem`, under fairness: pipelines load; they may refuse to pause and crash later |
| `camera_fails` | `Answered`, violated | finding 1 |
| `load_fails` | `SwitchReachesLoaded`, violated | finding 2 |
| `snapshot_times_out` | `GivenUpSnapshotFails`, violated | finding 3 |
| `pipeline` | `TypeOK` `SingleUnload` `DrawsLive` `EndIsTold` `GivenBackOnce` `Finalised` `ImplementsContract` `ImplementsFairness` | every kind of pipeline, every fault of GStreamer, uMediaServer and the caller, under fairness |
| `snapshots` | `TypeOK` `PollSound` `NeverGivenUp` `SubscriptionsCancelled` `MapUnshared` `HandlersAlive` | five snapshots, every fault |
| `encoder` | `TypeOK` `RateApplied` `NoStray` `FedToCurrent` | three pipelines, every call in every order |
| `callsync` | `TypeOK` `OwnReply` `NoStrayWrite` `Returns` | three calls through one connector, every fault |
| `settings` | `TypeOK` `BuiltAsTold` `SnapshotFits` | every sequence of requests to one recorder after another, numbers that wrap among them |
| `names` | `TypeOK` `KeptFile` | two recorders, two files, seconds that begin, an hour that comes again, a folder that leads out of the target folders and a name that is asked for |

**Bounds.** Two recorders are enough for an id clash, for a wait that takes another
recorder's child and for two recorders that share one; recorders and pids are symmetric, and
symmetry is not used with liveness. Two pids let both recorders, or a recorder and its
snapshot, run; with three (`orderly`, `live`) a recorder, its snapshot and another
recorder run together. `MaxPending = 2` lets one call overtaken by its timeout wait
in front of the next. `hostile` has 993,441 states, `live`, where a call is also in hand for a
while, 176,301. `RecordPipeline` has no bounds: each process gets one `start`.
Its 9,508 states are all there are.
`MaxSnapshots = 5` has a late end of stream, or a callback that is held up, in each of the four
snapshots after it (296,512 states). Three pipelines of `BufferEncoder` let one be replaced while
it plays and one be destroyed while another is made; one buffer in each is enough for a streaming
thread to be in its callback, and the rates 0, 1, 2 have none, the one that is set and
another (68,705 states). `names` has seconds of two readings and five readings, so that a name can
straddle a second, two names can share a hundredth, and the third second has the local time of
the second. Two files are enough for one to take the name of the other: `KeptFile` is about
pairs. What is asked for is a target folder, a file in it with the name that a recording
begun in the second reading gets, a folder that leads out and one that leads in (690,319 states).
`CallSync` has `MaxCalls = 3`: the callback of one call may be held up until the next or the
one after; one poll (`Timeout = 1`) tells a poll that is ended by its count from one that is
ended by the callback. `RecorderSettings` has no bounds but its inputs: the range of video rates is
scaled to 3..9, sample rates are in thousands, and the largest int is 50, which is more than
5 * `MaxChannels` as the real one is, so that the largest unsigned int is 101. There are rates on
both sides of each boundary, and 104, 111 and 146 wrap to 2 channels, a rate of 9 and a sample rate
of 44, which are accepted (279,649 states).

**Deadlock** is checked except where a system may stop: the process of `RecordPipeline`
ends, a recorder of `Snapshot`, a connector of `CallSync` and an encoder are closed, and in
`orderly` and `camera_fails` the service can hang in `wait()` (finding 1). In the larger runs some other fault always ends the child.

**Fairness** (`FairSpec`). The service's thread continues when it can (`Continue`): it is
the only thread and runs a main loop. A call gets its reply, an error or its timeout (`Bus`):
`LSCallSetTimeout` and the bounded poll see to it. A child handles its calls, ends its snapshot
and exits after quitting: checked of `RecordPipeline` from the fairness of its two
threads and of GStreamer. In `RecorderSystem` that is one condition for each child
(`SystemFairness`): it goes on while it has a call to take or to answer, a snapshot to end or its
own end to reach. Requests, crashes and faults have none. In
`CallSync` each thread goes on, and nothing is asked of the bus: `callSync` returns by its own
count. `ImplementsFairness` is claimed of behaviours in which no pipeline refuses to play or posts
an error: a snapshot need not end otherwise.

**What the limited runs leave out, and why.** `Answered` is false with `cameraFail`,
`badFormat`, `loadFail`, `timeout`, `subscribeFail`, `audioSnapshot` and `idClash`: each leaves a
child alive that nobody tells to stop, under a destructor that waits for it. It is false
with `crashEarly` too: a child that dies before it answers `start` leaves a registered
client in an OPEN recorder, so the next start's client gets no bus name, its call never
leaves and its new child stays idle. `StateMatchesPipeline` is false when a reply is lost.
`ReapsOwn` is false when a child may die by itself.

`WaitHasReason` says what is true of `wait()` with all of these: if the service waits for a child
that was not told to end, then a recorder is being replaced by one of the same id
(`media_recorder_manager.cpp:91`), a start failed or its reply was lost and its child goes with the
next start or with the recorder, a stop was answered true by a child that had loaded nothing
(`record_pipeline_service.cpp:217`), or a snapshot could not be subscribed to
(`media_recorder.cpp:485`), was not told to start or started nothing. In each of these
the service may hang; the property is that there are no others.

The other properties are claimed until a fault they name, after which they may be false.
`NeverGivenUp`: after `fast`, as `mEos` is cleared (`media_recorder.cpp:522`) after the child
was told to start, so a capture that is over by then is waited for until ten seconds have
gone; after `stall`, as the callback then cancels the next snapshot's subscription.
`PollSound`, `SubscriptionsCancelled` and `MapUnshared`: after a snapshot was given up, as its
end of stream may come later and be taken for that of the next; `MapUnshared` also after `stall`,
when the callback erases from `handlers_` while the next subscription inserts into it. What it may
never do is free a handler in use: `HandlersAlive` excuses nothing. `SingleUnload`: after
`lateStop`, as a stop that comes as a late snapshot ends puts both threads past the check of
`pipeline_`. `DrawsLive` and `Finalised`: when the end of stream does not come in time or at all.
`ReleasedOnce`, the one half of `GivenBackOnce`: after `policy` (`requestor.cpp:290` does not clear `acquiredResource_`).
`NoStray`: after Initialize over a pipeline that plays, which overwrites
`pipeline_` and stops nothing. `KeptFile` lists the four reasons for which a file is
written over by a later one: one of the two was asked for by that name, both were begun in one
hundredth, a second began between the readings, or summer time ended.

`OwnReply` and `NoStrayWrite` are claimed until the first fault: after a `stall` of the
connector's thread the callback outlives its `callSync`, after `timerFail` the call has no end,
and after `reorder` the caller may parse half a reply. `BuiltAsTold` excepts
numbers that no unsigned int can have, which the manager wraps before `MediaRecorder` sees
them (`media_recorder_manager.cpp:355`, `419-424`), and an audio bit rate above the largest int,
which `setAudioFormat` accepts and the child cannot read. The run has the encoder `v4l2h264enc`, the one that is given the video bit rate; the proofs have any.

## 4. Findings

1. `media_recorder.cpp:331`: a start that fails keeps a child that never ends; the close that
   follows blocks the service in `wait()`.
2. `record_pipeline_service.cpp:199`: `start` answers true although nothing was loaded, so
   the service forwards `pause` to a pipeline that does not exist.
3. `media_recorder.cpp:547`: a snapshot given up is answered as a success, against the
   comment above it.

## 5. The theorems

All proofs are for any values of the constants. Each follows the same line: an inductive
invariant `IInv`, first checked by TLC; `Init => IInv`; `IInv /\ [Next]_vars => IInv'`, with
one step for each action; `IInv => property`.

* `RecorderServiceProofs`: `TypeCorrect` and `NullSafe` (`NoNullDereference`), for any sets of
  recorders and pids, any `MaxPending` and any `Env`. The property alone is not inductive: that a
  recorder gets to RECORDING with a child and a named client depends on `resp` being true only
  for a call that left through such a client to such a child (`StageInv`), and that the
  later parts of a handler find their recorder on what the handler holds at each label
  (`HandlerInv`).
  `Implements` (`ImplementsContract`): every step is one of `RecorderContract` or none. `AnswerInv`
  adds that no answer is out while a handler works and that the `wait()` of open and close ends in a
  success; `OpIs` names the operation each label stands for. An answer then maps by its
  code and by whether the phase of its recorder was replaced.
* `RecorderChildrenProofs`, first of `RecorderService`, for any sets of recorders and pids; any `Env`
  where none is named:
  `ChildrenAreOwn` (`OwnChild`) and `ChildrenBalance` (`ProcessBalance`). Every step does one of five
  things to the Process objects (`Moved`): none; the handler's own goes; a recorder's becomes the
  handler's; a recorder gets a new one; the handler gets a new one. That is proved once, action by
  action, and both theorems follow from it: handles stay distinct because a pid that is forked is
  held by nobody, and the two cardinalities change together. `RecorderWasStarted`
  (`RecordingWasStarted`): the first call in the inbox of a child that has handled none is its
  start (`InboxInv`), so a true reply to a start comes from a child that has handled it (`LoadInv`).
  `StateFollowsPipeline` (`StateMatchesPipeline`) and `WaitTakesOwn` (`ReapsOwn`) assume `Orderly`:
  `Env` without `loadFail`, `timeout`, `crash` and `crashEarly`. Then the only call there is is
  the one that is waited for (`OneCall`), the only child that ends is that of the object being
  destroyed (`OnlyOwnEnds`), and a pipeline is where the reply that has come in, or the state,
  says (`FollowsCalls`).
  `WaitsEnd` (`WaitEnds`) and `OpenHoldsNone` assume `Live`: `Env` with nothing but `crash` and
  `pauseFail`. When the service is in `wait()` for a child, that child has exited, is quitting or will
  end by itself, which is the safety core of `Answered`: an OPEN recorder has no child (`OpenInv`), a
  start or a snapshot is under way in the child it forked (`BegunInv`, `TakenInv`), and a stop
  that was answered has ended its child (`StoppedInv`). `OneStart`: no child is ever started twice,
  as the object a handler starts is one it has just forked and sent nothing (`FreshInv`).
  `WaitsHaveReason` (`WaitHasReason`) is for any `Env`: the Process of an OPEN recorder is in a start
  or is left of one that failed (`HalfInv`), a child that answered its stop with true is ending or had
  loaded nothing, and a snapshot that was told to start has begun or has that call before it
  (`WaitInv`).

  Then of `RecorderSystem`. `SystemImplements` (`ImplementsService`): what the service sees of a
  child is in step with what the process does (`InStep`: a call in hand is the head of the inbox,
  a process in the handler of `start` still shows as idle, and so on), from which each step is
  one of `RecorderService` or none. `CallsAreFit` (`CallsFit`) adds to `OneStart` and the call
  at the head of the inbox what each process was told to start (`KindInv`), and `SystemTypeCorrect`
  is the type of `child`. What was proved of the service then holds of the system: `SystemSafe`
  (its safety properties and `ImplementsContract`), `SystemWaitsEnd` under `Live`, and
  `SystemStateFollows` under `Orderly`: between requests the process of a recorder that records is
  loaded, that of one that is paused is paused.
* `RecordPipelineProofs`: `TypeCorrect`, `Implements` (`ImplementsContract`), `UnloadedOnce`
  (`SingleUnload`), `SubscriberTold` (`EndIsTold`), `NoStaleDraw` (`DrawsLive`), `GivenBack`
  (`GivenBackOnce`, from `NoStrayRelease` and `NothingKept`) and `RecordingFinalised` (`Finalised`), for
  any `Kinds`. `SnapshotEnds` is the safety core of `ImplementsFairness`: while no pipeline refuses to
  play or posts an error, a process that captures has an end of stream to come, or a thread on its
  way to quit (`EndsInv`). The invariant says which thread unloads what (`BusInv`, `StopInv`), what is there during
  Load (`LoadInv`); and, each until the faults that break it, who finds the pipeline there
  (`UnloadInv`), what is held and granted (`HeldInv`, `GrantedInv`) and how far the end of stream and
  the messages before it have come (`EosInv`, `DrawInv`).
* `SnapshotProofs`: `TypeCorrect`, `PollIsSound`, `NoneGivenUp` (`NeverGivenUp`), `NoneLeft`
  (`SubscriptionsCancelled`), `MapIsUnshared` and `HandlersNotFreed` (`HandlersAlive`), for any number
  of snapshots. `SentInv` says that until a give-up only the current snapshot can have an end of
  stream on its way; `SubscriptionInv` follows a callback that is held up across the next
  subscription; `HandlerInv` that the key a callback cancels is never newer than the current one;
  `PunctualInv` that what a poll waits for will come to a live subscription.
* `BufferEncoderProofs`: `TypeCorrect`, `RateIsApplied`, `NoneStray` and
  `FeedsCurrent`, for any rates, either build and any number of pipelines. `RateInv` ties `bitrate_` to
  what was asked for, `SourceInv` the source to the pipeline, `StrayInv` and `PipelineInv` each
  pipeline that plays, or stops, to the member and the owner's label.
* `RecordFileNameProofs`: `TypeCorrect` and `FilesKept` (`KeptFile`), for any recorders, folders,
  requests and local time. `TypeCorrect` says that the text of every path that is kept begins with
  a target folder, which does not keep the file inside one. `DoingInv` says that the path a recorder keeps is that of its own file while it
  records, `FilesInv` that a name has the two readings it was made of.
* `CallSyncProofs`: `TypeCorrect`, `RepliesMatch` (`OwnReply`), `FramesSafe` (`NoStrayWrite`)
  and `QuitIsHeard` (`QuitHeard`: a destructor that joins has told the connector's thread to end in a
  way it cannot miss), for any number of calls, any timeout and any `Env`. `SoundInv` is what a fault breaks: one callback at a
  time, that of the current call, while callSync is in its poll, and writes in order.
* `RecorderSettingsProofs`: `TypeCorrect`, `SettingsReachPipeline` (`BuiltAsTold`)
  and `SnapshotsFit`, for any sizes, any whole numbers in the requests and either encoder. `StoredAsTold` relates what is stored
  to what the client was told, `RecordedAsStored` the recording to what is stored: neither
  alone says that a recording has what the client was told.

Only model-checked: liveness (`Answered`, `ImplementsFairness`, `Returns`) and deadlock, which the
prover does not reach. What each rests on is proved: that a `wait()` has a child that ends
(`WaitsEnd`), that a snapshot has an end to come (`SnapshotEnds`), that a join is heard
(`QuitIsHeard`). Every other property of a passing run is a theorem.
`SwitchReachesLoaded` and `GivenUpSnapshotFails` are false, which their runs show.

## 6. Not modelled

* The frame rate, which goes the way of the size, and the elements that a platform's
  `gst_elements.conf` names, but for the encoder that takes a bit rate; a pipeline in `/etc` that
  overrides the one that is built.
* `callAsync`, `registerToService` and `callSync` in the default context, which nothing calls.
* Of `BufferEncoder`, the contents of buffers; of file names, `localtime` failing, the folder that
  cannot be written and the extension.
* Where a path leads in the file system. `isInTargetFolders` compares a prefix of the text, so that
  ".." takes a file out of the target folders; `RecordFileName` has such paths and no property says
  that files stay inside. Links, which do the same, are not modelled.
* Numbers in requests that are not whole.
* The random draws of ids and bus names: that a recorder id may clash is modelled, how
  often it does is not.
* The test application (a GUI), logging, parsers, configuration.
* GStreamer, luna-service2, uMediaServer and the camera service are modelled as the code uses
  them, by external actions.

## 7. Plan

1. done: `RecorderContract`, `RecorderService`, their runs; every safety property proved.
2. done: `PipelineContract`, `RecordPipeline`, their runs and proofs.
3. done: `Snapshot` with `handlers_`, its run and proofs.
4. done: `CallSync`, its run and proofs.
5. done: `RecorderSettings`, its run and proofs.
6. done: `RecordFileName`, its run and proofs.
7. done: `BufferEncoder`, its run and proofs.
8. done: `RecorderSystem`, in which the contract of the children takes their place, its run and
   proofs.
9. open: the composition of `Snapshot` with `RecorderService`, in place of
   the seam `PollSound`, by a contract of one snapshot that both implement; the overlap of several recorders' snapshots is in `RecorderService` only.
