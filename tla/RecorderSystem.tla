---------------------------- MODULE RecorderSystem ----------------------------
(***************************************************************************)
(* The recorder service together with its children: RecorderService in     *)
(* which each child is a process of its own that behaves as                *)
(* PipelineContract promises.  A call is in hand for a while before it is  *)
(* answered, and the process goes on meanwhile.                            *)
(*                                                                         *)
(* RecordPipeline implements PipelineContract, and this system implements  *)
(* RecorderService, so what is shown of RecorderService holds of the       *)
(* service with those processes.                                           *)
(***************************************************************************)
EXTENDS RecorderService

VARIABLE child  \* the process of each pid, as its contract has it

systemVars == <<vars, child>>

Pipeline(p) == INSTANCE PipelineContract WITH
  phase <- child[p].phase, kind <- child[p].kind, reply <- child[p].reply

Process(p) ==
  [phase : Pipeline(p)!Phases, kind : Pipeline(p)!StartKinds \cup {"none"},
   reply : Pipeline(p)!Replies]

New == [phase |-> "idle", kind |-> "none", reply |-> "none"]

\* What is left of a process that has ended.
Gone == [phase |-> "exited", kind |-> "none", reply |-> "none"]

SystemTypeOK == child \in [Pids -> UNION {Process(p) : p \in Pids}]

SystemInit == Init /\ child = [p \in Pids |-> Gone]

-----------------------------------------------------------------------------
\* The service.

\* Fork makes a new process, and wait() takes away one that has exited.
Forked ==
  child' = [p \in Pids |-> IF proc'[p] = proc[p] THEN child[p]
                           ELSE IF proc'[p] = "idle" THEN New ELSE Gone]

ServiceStep == (Request \/ Continue) /\ Forked

BusStep == Bus /\ UNCHANGED child

-----------------------------------------------------------------------------
\* The children.

\* The next state of p is one its contract has.
Moves(p) == \E next \in Process(p) : child' = [child EXCEPT ![p] = next]

\* The calls that start a process, by what they ask for.
StartKind == [load |-> "recording", capture |-> "snapshot", empty |-> "nothing"]

\* What the service can tell of p: a call in hand has not done anything yet.
Seen(p) ==
  CASE child'[p].phase = "idle" -> IF child'[p].kind = "none" THEN "idle" ELSE "empty"
    [] child'[p].phase \in {"loading", "stopping"} -> proc[p]
    [] OTHER -> child'[p].phase

Shows(p) == proc' = [proc EXCEPT ![p] = Seen(p)]

\* Mutant: a paused pipeline does not end the process.
TakesPlayingOnly(p) ==
  LET call == Head(inbox[p])
  IN \/ /\ call \in DOMAIN StartKind
        /\ Pipeline(p)!Start /\ child'[p].kind = StartKind[call]
     \/ /\ call = "stop"
        /\ IF child[p].phase = "paused" THEN child'[p] = [child[p] EXCEPT !.reply = "true"]
                                        ELSE Pipeline(p)!Stop
     \/ call = "pause" /\ Pipeline(p)!Pause
     \/ call = "resume" /\ Pipeline(p)!Resume

\* The handler of the oldest call begins.  Pipelines refuse to pause where Env says so.
Takes(p) ==
  LET call == Head(inbox[p])
  IN \/ /\ call \in DOMAIN StartKind
        /\ Pipeline(p)!Start /\ child'[p].kind = StartKind[call]
     \/ call = "stop" /\ Pipeline(p)!Stop
     \/ /\ call = "pause" /\ Pipeline(p)!Pause
        /\ child'[p].reply = "false" => "pauseFail" \in Env
     \/ /\ call = "resume" /\ Pipeline(p)!Resume
        /\ child'[p].reply = "false" => "pauseFail" \in Env

\* start returns, where Env says so without a pipeline.
StartReturns(p) ==
  /\ Pipeline(p)!StartReturns
  /\ child'[p].phase = "idle" \/ (child'[p].phase = "quitting" /\ child[p].kind = "recording") =>
       "loadFail" \in Env

InHand(p) == child[p].phase \in {"loading", "stopping"}

\* Mutant: stop is answered before the pipeline is unloaded.
RespondsFirst(p) ==
  IF child'[p].phase = "loading" THEN UNCHANGED <<inbox, resp>>
  ELSE IF child[p].phase = "stopping" THEN inbox' = [inbox EXCEPT ![p] = Tail(@)] /\ UNCHANGED resp
  ELSE /\ inbox' = IF child'[p].phase = "stopping" THEN inbox ELSE [inbox EXCEPT ![p] = Tail(@)]
       /\ Reply(p, IF child'[p].phase = "stopping" THEN "true" ELSE child'[p].reply)

\* A handler that has returned has answered, but for one of pause or resume that has nothing
\* to pause; the next call is handled after that.
Responds(p) ==
  IF InHand(p)' THEN UNCHANGED <<inbox, resp>>
  ELSE /\ inbox' = [inbox EXCEPT ![p] = Tail(@)]
       /\ IF child'[p].reply = "none" THEN UNCHANGED resp ELSE Reply(p, child'[p].reply)

\* The main loop of p.
Serves(p) ==
  /\ inbox[p] # << >>
  /\ Moves(p)
  /\ Takes(p) \/ StartReturns(p) \/ Pipeline(p)!StopReturns
  /\ Shows(p) /\ Responds(p)
  /\ UNCHANGED <<recorders, svc, returnValue>>

\* The subscription comes before the start of a snapshot; RecorderService has no call for it.
Subscribes(p) ==
  /\ inbox[p] # << >> /\ Head(inbox[p]) \in {"capture", "empty"} /\ child[p].reply = "none"
  /\ Moves(p) /\ Pipeline(p)!Subscribe
  /\ UNCHANGED vars

Captured(p) ==
  /\ proc[p] = "capturing" /\ Moves(p) /\ Pipeline(p)!EndOfStream
  /\ Shows(p)
  /\ UNCHANGED <<recorders, svc, resp, returnValue, inbox>>

\* The process is gone, with the calls it has not handled.
Ends(p) ==
  /\ Shows(p)
  /\ inbox' = [inbox EXCEPT ![p] = << >>]
  /\ UNCHANGED <<recorders, svc, resp, returnValue>>

Exits(p) == proc[p] = "quitting" /\ Moves(p) /\ Pipeline(p)!Exit /\ Ends(p)

\* It dies in the handler of start or of stop.
Dies(p) ==
  /\ inbox[p] # << >> /\ (IF InHand(p) THEN "crash" ELSE "crashEarly") \in Env
  /\ Moves(p) /\ Pipeline(p)!Crash
  /\ Ends(p)

\* A signal ends it, which no contract excludes.
Killed(p) ==
  /\ "crash" \in Env /\ proc[p] \in Running \ NotLoaded
  /\ child' = [child EXCEPT ![p] = Gone]
  /\ Ends(p)

-----------------------------------------------------------------------------

ProcessStep(p) ==
  Serves(p) \/ Subscribes(p) \/ Captured(p) \/ Exits(p) \/ Dies(p) \/ Killed(p)

SystemNext == ServiceStep \/ BusStep \/ \E p \in Pids : ProcessStep(p)

SystemSpec == SystemInit /\ [][SystemNext]_systemVars

\* The service goes on when it can, and a call that was made gets its reply, its error or its
\* timeout.  A child goes on while it has calls to take or to answer, a snapshot to end or
\* its own end to reach, the last three of which its contract's Fairness promises.
SystemFairness ==
  /\ WF_systemVars(Continue /\ Forked)
  /\ WF_systemVars(BusStep)
  /\ \A p \in Pids : WF_systemVars(Serves(p) \/ Captured(p) \/ Exits(p))

FairSystemSpec == SystemSpec /\ SystemFairness

-----------------------------------------------------------------------------
\* Properties.  Those of RecorderService are about the same variables.

\* A child whose main loop is free is never sent a call that its contract has no step for:
\* it is started once and first, and only recordings are paused and resumed, although
\* starts fail, calls are overtaken by their timeouts and pids are used again.
CallsFit ==
  \A p \in Pids : inbox[p] # << >> /\ child[p].phase \in {"idle", "loaded", "paused", "capturing"} =>
    LET call == Head(inbox[p])
    IN CASE call \in DOMAIN StartKind -> child[p].phase = "idle" /\ child[p].kind = "none"
         [] call = "stop" -> child[p].kind # "none"
         [] OTHER -> child[p].kind = "recording"

\* With children that keep the contract the service behaves as RecorderService says it
\* does with its own: handlers that take their time, answer late or die half way change
\* nothing that it can tell.
ImplementsService == Spec
=============================================================================
