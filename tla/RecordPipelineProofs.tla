------------------------- MODULE RecordPipelineProofs -------------------------
(***************************************************************************)
(* Proofs about RecordPipeline, for every kind of pipeline and whatever    *)
(* GStreamer, uMediaServer and the service do.                             *)
(***************************************************************************)
EXTENDS RecordPipeline, TLAPS

-----------------------------------------------------------------------------
\* The inductive invariant, whatever has gone wrong.

Recording == kind \in {"Video", "Audio"}

\* Before start nothing is there; nothing plays before Load has launched it.
LoadInv ==
  /\ kind = "none" =>
       main = "loop" /\ ~isLoaded /\ ~quit /\ eos = "none" /\ pipeline = "null"
  /\ main \in {"load", "launch"} => ~isLoaded /\ ~quit /\ eos = "none" /\ pipeline = "null"
  /\ kind = "none" \/ main \in {"load", "launch"} => bus = "loop" /\ ~message
  /\ kind = "none" \/ main = "load" => ~held /\ ~granted
  /\ main = "loaded" =>
       ~isLoaded /\ pipeline # "paused" /\ (pipeline # "null" \/ kind = "Snapshot")
  /\ isLoaded \/ main \in {"load", "launch", "loaded"} => Recording \/ kind = "Snapshot"
  /\ eos # "none" /\ ~isLoaded => quit \/ main = "loaded"

\* The bus thread unloads snapshots, after their end of stream, and nothing else.
BusInv ==
  /\ eos = "none" => bus \in {"loop", "dot", "joined"}
  /\ bus \in {"unload", "notify"} => kind = "Snapshot"
  /\ bus = "joined" <=> main = "exited"
  /\ bus \in {"dot", "unload"} =>
       pipeline # "null" \/ main \in {"notify", "release"} \/ (quit /\ main # "loaded")

\* The main thread unloads what has been loaded, or what Load could not listen to.
StopInv ==
  /\ main \in {"sendEos", "reset", "poll"} => Recording
  /\ main \in {"sendEos", "reset", "poll", "release"} => isLoaded
  /\ main \in {"unload", "notify"} /\ ~isLoaded => eos = "none" /\ bus = "loop" /\ ~message
  /\ main = "unload" /\ ~isLoaded => pipeline = "created"
  /\ main = "notify" /\ ~isLoaded => pipeline = "null"
  /\ main \in {"release", "join"} => quit
  /\ main = "loop" /\ isLoaded /\ ~quit /\ kind # "Snapshot" => pipeline # "null"

IInv == TypeOK /\ LoadInv /\ BusInv /\ StopInv

-----------------------------------------------------------------------------
\* What holds until something has gone wrong.

\* Until a snapshot is stopped the main thread unloads none that has played, and finds the
\* pipeline there.  What has been unloaded stays so.
UnloadInv ==
  Until({"lateStop"}) =>
    /\ main \in {"unload", "notify", "release"} => kind # "Snapshot" \/ eos = "none"
    /\ main \in {"sendEos", "reset", "poll", "unload"} => pipeline # "null" /\ ~quit
    /\ bus = "unload" => pipeline # "null"
    /\ quit \/ main \in {"notify", "release", "join", "exited"} \/ bus = "notify" =>
         pipeline = "null"

\* A snapshot that unloads itself has told its subscriber.
ToldInv ==
  Until({"lateStop"}) =>
    (kind = "Snapshot" /\ subscribed =>
       (bus \in {"unload", "notify"} \/ (quit /\ eos # "none") => told))

\* Until a policy action what is held is granted.
HeldInv == Until({"policy"}) => ~stray /\ (held => granted \/ main = "exited")

\* Until a release is refused what is granted is held, or was granted to a Load that failed.
GrantedInv ==
  Until({"releaseFail"}) =>
    /\ granted /\ ~held =>
         /\ main = "loop" /\ ~quit /\ ~isLoaded /\ kind # "none"
         /\ pipeline = "null" /\ bus = "loop" /\ eos = "none"
    /\ main \in {"join", "exited"} => ~granted

\* As long as pipelines play and end of streams come, those of recordings have been handled
\* when they are unloaded.
EosInv ==
  Until({"slowEos", "playFail", "error"}) =>
    /\ isEos => eos = "taken"
    /\ Recording /\ (main = "loop" => ~quit) /\ main \in {"loop", "loaded", "sendEos"} =>
         eos = "none"
    /\ main \in {"reset", "poll"} =>
         eos \in {"sent", "posted", "taken"} /\ (eos = "sent" => pipeline = "playing")
    /\ main = "unload" /\ Recording /\ pipeline # "created" => eos = "taken"

\* and so has all that was posted before.
DrawInv ==
  Until({"lateStop", "slowEos", "playFail", "error"}) =>
    /\ bus = "dot" => pipeline # "null"
    /\ pipeline = "created" => main = "unload" /\ bus = "loop" /\ ~message /\ eos = "none"
    /\ kind = "Snapshot" /\ pipeline \in {"playing", "paused"} => eos # "none"
    /\ Recording /\ eos = "taken" => ~message /\ bus # "dot"

\* As long as it plays, a snapshot that has been loaded has its end of stream ahead of it, or
\* is at it.
EndsInv ==
  Until({"playFail", "error", "lateStop"}) =>
    (kind = "Snapshot" /\ (main = "loaded" \/ (main = "loop" /\ isLoaded)) =>
       \/ quit \/ bus = "notify"
       \/ /\ pipeline = "playing"
          /\ eos \in {"sent", "posted"} \/ bus \in {"eos", "unload"})

-----------------------------------------------------------------------------

\* Nothing has been loaded, acquired or sent yet.
LEMMA InitIInv == Init => IInv
BY DEF Init, IInv, TypeOK, LoadInv, BusInv, StopInv, MainPcs, BusPcs, Recording

\* Each step leaves the types.
LEMMA NextTypeOK == TypeOK /\ [Next]_vars => TypeOK'
<1> DEFINE Places ==
             /\ kind \in AllKinds \cup {"none"} /\ main \in MainPcs /\ bus \in BusPcs
             /\ pipeline \in {"null", "created", "playing", "paused"}
             /\ eos \in {"none", "sent", "posted", "taken", "lost"}
             /\ reply \in {"none", "true", "false"}
           Flags ==
             /\ isLoaded \in BOOLEAN /\ isEos \in BOOLEAN /\ quit \in BOOLEAN
             /\ held \in BOOLEAN /\ granted \in BOOLEAN /\ stray \in BOOLEAN
             /\ message \in BOOLEAN /\ subscribed \in BOOLEAN /\ told \in BOOLEAN
<1> SUFFICES ASSUME TypeOK, [Next]_vars PROVE TypeOK'
  OBVIOUS
<1> USE PipelineAssumption DEF TypeOK, MainPcs, BusPcs, resourceVars, tellVars, Faults
<1>1. CASE Subscribe
  <2>1. faults' \subseteq Faults
    BY <1>1 DEF Subscribe, MainLoop
  <2>2. Places'
    BY <1>1 DEF Subscribe, MainLoop
  <2>3. Flags'
    BY <1>1 DEF Subscribe, MainLoop
  <2> QED
    BY <2>1, <2>2, <2>3
<1>2. CASE Stop
  BY <1>2 DEF Stop, MainLoop, Return
<1>3. CASE Pause \/ Resume
  <2>1. faults' \subseteq Faults
    BY <1>3 DEF Pause, Resume, Switch, PlayFails, MainLoop
  <2>2. Places'
    BY <1>3 DEF Pause, Resume, Switch, PlayFails, MainLoop
  <2>3. Flags'
    BY <1>3 DEF Pause, Resume, Switch, PlayFails, MainLoop
  <2> QED
    BY <2>1, <2>2, <2>3
<1>4. ASSUME NEW k \in Kinds, Start(k) PROVE TypeOK'
  BY <1>4 DEF Start, MainLoop, Return, AllKinds
<1>5. ASSUME NEW k \in Kinds, StartExits(k) PROVE TypeOK'
  BY <1>5 DEF StartExits, MainLoop, AllKinds
<1>6. CASE LoadAcquire
  <2>1. faults' \subseteq Faults
    BY <1>6 DEF LoadAcquire, GetSourceInfo, Return
  <2>2. Places'
    BY <1>6 DEF LoadAcquire, GetSourceInfo, Return
  <2>3. Flags'
    BY <1>6 DEF LoadAcquire, GetSourceInfo, Return
  <2> QED
    BY <2>1, <2>2, <2>3
<1>7. CASE LoadLaunch
  <2>1. faults' \subseteq Faults
    BY <1>7 DEF LoadLaunch, Playing, PlayFails, Return
  <2>2. Places'
    BY <1>7 DEF LoadLaunch, Playing, PlayFails, Return
  <2>3. Flags'
    BY <1>7 DEF LoadLaunch, Playing, PlayFails, Return
  <2> QED
    BY <2>1, <2>2, <2>3
<1>8. CASE LoadReturns
  BY <1>8 DEF LoadReturns, Return
<1>9. CASE SendEos
  <2>1. faults' \subseteq Faults
    BY <1>9 DEF SendEos, PlayFails
  <2>2. Places'
    BY <1>9 DEF SendEos, PlayFails
  <2>3. Flags'
    BY <1>9 DEF SendEos, PlayFails
  <2> QED
    BY <2>1, <2>2, <2>3
<1>10. CASE ResetEos
  <2>1. faults' \subseteq Faults
    BY <1>10 DEF ResetEos
  <2>2. Places'
    BY <1>10 DEF ResetEos
  <2>3. Flags'
    BY <1>10 DEF ResetEos
  <2> QED
    BY <2>1, <2>2, <2>3
<1>11. CASE Poll
  BY <1>11 DEF Poll, EosComing
<1>12. CASE Unload
  BY <1>12 DEF Unload
<1>13. CASE UnloadReturns
  BY <1>13 DEF UnloadReturns, Return
<1>14. CASE StopReturns
  <2>1. faults' \subseteq Faults
    BY <1>14 DEF StopReturns, ReleaseResource, SendRelease, Return
  <2>2. Places'
    BY <1>14 DEF StopReturns, ReleaseResource, SendRelease, Return
  <2>3. Flags'
    BY <1>14 DEF StopReturns, ReleaseResource, SendRelease, Return
  <2> QED
    BY <2>1, <2>2, <2>3
<1>15. CASE Close
  <2>1. faults' \subseteq Faults
    BY <1>15 DEF Close, DestroyResource, SendRelease
  <2>2. Places'
    BY <1>15 DEF Close, DestroyResource, SendRelease
  <2>3. Flags'
    BY <1>15 DEF Close, DestroyResource, SendRelease
  <2> QED
    BY <2>1, <2>2, <2>3
<1>16. CASE Join
  BY <1>16 DEF Join
<1>17. CASE TakeMessage
  <2>1. faults' \subseteq Faults
    BY <1>17 DEF TakeMessage
  <2>2. Places'
    BY <1>17 DEF TakeMessage
  <2>3. Flags'
    BY <1>17 DEF TakeMessage
  <2> QED
    BY <2>1, <2>2, <2>3
<1>18. CASE Draw
  BY <1>18 DEF Draw
<1>19. CASE TakeEos
  BY <1>19 DEF TakeEos
<1>20. CASE EndOfStream
  BY <1>20 DEF EndOfStream
<1>21. CASE BusUnload
  BY <1>21 DEF BusUnload
<1>22. CASE BusUnloadReturns
  BY <1>22 DEF BusUnloadReturns
<1>23. CASE PostError
  BY <1>23 DEF PostError
<1>24. CASE PostEos
  BY <1>24 DEF PostEos
<1>25. CASE PolicyAction
  BY <1>25 DEF PolicyAction
<1>26. CASE Crash
  <2>1. faults' \subseteq Faults
    BY <1>26 DEF Crash, DoubleUnload, StaleDraw
  <2>2. Places'
    BY <1>26 DEF Crash, DoubleUnload, StaleDraw
  <2>3. Flags'
    BY <1>26 DEF Crash, DoubleUnload, StaleDraw
  <2> QED
    BY <2>1, <2>2, <2>3
<1>27. CASE UNCHANGED vars
  BY <1>27 DEF vars
<1> QED
  BY <1>1, <1>2, <1>3, <1>4, <1>5, <1>6, <1>7, <1>8, <1>9, <1>10, <1>11, <1>12, <1>13,
     <1>14, <1>15, <1>16, <1>17, <1>18, <1>19, <1>20, <1>21, <1>22, <1>23, <1>24, <1>25,
     <1>26, <1>27
  DEF Next, Call, Main, BusThread

\* Each step of a handler, the bus thread, GStreamer and uMediaServer preserves it.
LEMMA NextIInv == IInv /\ [Next]_vars => IInv'
<1> DEFINE Inv == LoadInv /\ BusInv /\ StopInv
<1> SUFFICES ASSUME IInv, [Next]_vars PROVE Inv'
  BY NextTypeOK DEF IInv
<1> USE PipelineAssumption
    DEF IInv, TypeOK, LoadInv, BusInv, StopInv, MainPcs, BusPcs, Recording, resourceVars, tellVars
<1>1. CASE Subscribe
  BY <1>1 DEF Subscribe, MainLoop
<1>2. CASE Stop
  BY <1>2 DEF Stop, MainLoop, Return
<1>3. CASE Pause \/ Resume
  <2>1. LoadInv'
    BY <1>3 DEF Pause, Resume, Switch, PlayFails, MainLoop
  <2>2. BusInv'
    BY <1>3 DEF Pause, Resume, Switch, PlayFails, MainLoop
  <2>3. StopInv'
    BY <1>3 DEF Pause, Resume, Switch, PlayFails, MainLoop
  <2> QED
    BY <2>1, <2>2, <2>3
<1>4. ASSUME NEW k \in Kinds, Start(k) PROVE Inv'
  BY <1>4 DEF Start, MainLoop, Return, AllKinds
<1>5. ASSUME NEW k \in Kinds, StartExits(k) PROVE Inv'
  BY <1>5 DEF StartExits, MainLoop, AllKinds
<1>6. CASE LoadAcquire
  BY <1>6 DEF LoadAcquire, GetSourceInfo, Return
<1>7. CASE LoadLaunch
  <2>1. LoadInv'
    BY <1>7 DEF LoadLaunch, Playing, PlayFails, Return
  <2>2. BusInv'
    BY <1>7 DEF LoadLaunch, Playing, PlayFails, Return
  <2>3. StopInv'
    BY <1>7 DEF LoadLaunch, Playing, PlayFails, Return
  <2> QED
    BY <2>1, <2>2, <2>3
<1>8. CASE LoadReturns
  BY <1>8 DEF LoadReturns, Return
<1>9. CASE SendEos
  <2>1. LoadInv'
    BY <1>9 DEF SendEos, PlayFails
  <2>2. BusInv'
    BY <1>9 DEF SendEos, PlayFails
  <2>3. StopInv'
    BY <1>9 DEF SendEos, PlayFails
  <2> QED
    BY <2>1, <2>2, <2>3
<1>10. CASE ResetEos
  <2>1. LoadInv'
    BY <1>10 DEF ResetEos
  <2>2. BusInv'
    BY <1>10 DEF ResetEos
  <2>3. StopInv'
    BY <1>10 DEF ResetEos
  <2> QED
    BY <2>1, <2>2, <2>3
<1>11. CASE Poll
  BY <1>11 DEF Poll, EosComing
<1>12. CASE Unload
  BY <1>12 DEF Unload
<1>13. CASE UnloadReturns
  BY <1>13 DEF UnloadReturns, Return
<1>14. CASE StopReturns
  <2>1. LoadInv'
    BY <1>14 DEF StopReturns, ReleaseResource, SendRelease, Return
  <2>2. BusInv'
    BY <1>14 DEF StopReturns, ReleaseResource, SendRelease, Return
  <2>3. StopInv'
    BY <1>14 DEF StopReturns, ReleaseResource, SendRelease, Return
  <2> QED
    BY <2>1, <2>2, <2>3
<1>15. CASE Close
  <2>1. LoadInv'
    BY <1>15 DEF Close, DestroyResource, SendRelease
  <2>2. BusInv'
    BY <1>15 DEF Close, DestroyResource, SendRelease
  <2>3. StopInv'
    BY <1>15 DEF Close, DestroyResource, SendRelease
  <2> QED
    BY <2>1, <2>2, <2>3
<1>16. CASE Join
  BY <1>16 DEF Join
<1>17. CASE TakeMessage
  <2>1. LoadInv'
    BY <1>17 DEF TakeMessage
  <2>2. BusInv'
    BY <1>17 DEF TakeMessage
  <2>3. StopInv'
    BY <1>17 DEF TakeMessage
  <2> QED
    BY <2>1, <2>2, <2>3
<1>18. CASE Draw
  BY <1>18 DEF Draw
<1>19. CASE TakeEos
  BY <1>19 DEF TakeEos
<1>20. CASE EndOfStream
  BY <1>20 DEF EndOfStream
<1>21. CASE BusUnload
  BY <1>21 DEF BusUnload
<1>22. CASE BusUnloadReturns
  BY <1>22 DEF BusUnloadReturns
<1>23. CASE PostError
  <2>1. LoadInv'
    BY <1>23 DEF PostError
  <2>2. BusInv'
    BY <1>23 DEF PostError
  <2>3. StopInv'
    BY <1>23 DEF PostError
  <2> QED
    BY <2>1, <2>2, <2>3
<1>24. CASE PostEos
  BY <1>24 DEF PostEos
<1>25. CASE PolicyAction
  BY <1>25 DEF PolicyAction
<1>26. CASE Crash
  <2>1. LoadInv'
    BY <1>26 DEF Crash, DoubleUnload, StaleDraw
  <2>2. BusInv'
    BY <1>26 DEF Crash, DoubleUnload, StaleDraw
  <2>3. StopInv'
    BY <1>26 DEF Crash, DoubleUnload, StaleDraw
  <2> QED
    BY <2>1, <2>2, <2>3
<1>27. CASE UNCHANGED vars
  BY <1>27 DEF vars
<1> QED
  BY <1>1, <1>2, <1>3, <1>4, <1>5, <1>6, <1>7, <1>8, <1>9, <1>10, <1>11, <1>12, <1>13,
     <1>14, <1>15, <1>16, <1>17, <1>18, <1>19, <1>20, <1>21, <1>22, <1>23, <1>24, <1>25,
     <1>26, <1>27
  DEF Next, Call, Main, BusThread

\* It holds in every reachable state.
LEMMA SpecIInv == Spec => []IInv
BY InitIInv, NextIInv, PTL DEF Spec

\* Type correctness, whatever GStreamer and uMediaServer do.
THEOREM TypeCorrect == Spec => []TypeOK
<1>1. IInv => TypeOK
  BY DEF IInv
<1> QED
  BY <1>1, SpecIInv, PTL

-----------------------------------------------------------------------------
\* The contract.

\* Before start the process is idle.
LEMMA InitContract == Init => Contract!Init
BY DEF Init, Contract!Init, Phase, Asked, Answer

\* Each step is one that the contract allows, or none to it.
LEMMA NextContract == IInv /\ IInv' /\ [Next]_vars => [Contract!Next]_(Contract!vars)
<1> SUFFICES ASSUME IInv, IInv', [Next]_vars PROVE [Contract!Next]_(Contract!vars)
  OBVIOUS
<1> USE DEF IInv, TypeOK, LoadInv, BusInv, StopInv, MainPcs, BusPcs, Recording, resourceVars,
            tellVars, Contract!Next, Contract!vars, Phase, Asked, Answer
<1>1. CASE Subscribe
  BY <1>1 DEF Subscribe, MainLoop, Contract!Subscribe
<1>2. CASE Stop
  <2>0. main = "loop" /\ main' # "exited" /\ kind' = kind /\ kind # "none"
    BY <1>2 DEF Stop, MainLoop, Return
  <2>1. Asked' = Asked /\ Asked # "none" /\ Answer' = reply'
    BY <2>0 DEF AllKinds
  <2>2. CASE ~isLoaded
    BY <1>2, <2>1, <2>2 DEF Stop, MainLoop, Return, Contract!Stop
  <2>3. CASE isLoaded /\ pipeline = "null"
    BY <1>2, <2>1, <2>3 DEF Stop, MainLoop, Return, Contract!Stop
  <2>4. CASE isLoaded /\ pipeline # "null"
    BY <1>2, <2>1, <2>4 DEF Stop, MainLoop, Contract!Stop
  <2> QED
    BY <2>2, <2>3, <2>4
<1>3. CASE Pause \/ Resume
  BY <1>3 DEF Pause, Resume, Switch, PlayFails, MainLoop, Contract!Pause, Contract!Resume,
                Contract!Switch
<1>4. ASSUME NEW k \in Kinds, Start(k) PROVE [Contract!Next]_(Contract!vars)
  BY <1>4 DEF Start, MainLoop, Return, AllKinds, Contract!Start, Contract!StartKinds
<1>5. ASSUME NEW k \in Kinds, StartExits(k) PROVE [Contract!Next]_(Contract!vars)
  BY <1>5 DEF StartExits, MainLoop, AllKinds, Contract!Crash, Contract!Ended
<1>6. CASE LoadAcquire
  BY <1>6 DEF LoadAcquire, GetSourceInfo, Return, Contract!StartReturns
<1>7. CASE LoadLaunch
  BY <1>7 DEF LoadLaunch, Playing, PlayFails, Return, Contract!StartReturns
<1>8. CASE LoadReturns
  BY <1>8 DEF LoadReturns, Return, Contract!StartReturns
<1>9. CASE SendEos
  BY <1>9 DEF SendEos, PlayFails
<1>10. CASE ResetEos
  BY <1>10 DEF ResetEos
<1>11. CASE Poll
  BY <1>11 DEF Poll, EosComing
<1>12. CASE Unload
  BY <1>12 DEF Unload
<1>13. CASE UnloadReturns
  BY <1>13 DEF UnloadReturns, Return, Contract!StartReturns
<1>14. CASE StopReturns
  BY <1>14 DEF StopReturns, ReleaseResource, SendRelease, Return, Contract!StopReturns
<1>15. CASE Close
  BY <1>15 DEF Close, DestroyResource, SendRelease
<1>16. CASE Join
  BY <1>16 DEF Join, Contract!Exit, Contract!Ended
<1>17. CASE TakeMessage
  BY <1>17 DEF TakeMessage
<1>18. CASE Draw
  BY <1>18 DEF Draw
<1>19. CASE TakeEos
  BY <1>19 DEF TakeEos
<1>20. CASE EndOfStream
  BY <1>20 DEF EndOfStream
<1>21. CASE BusUnload
  BY <1>21 DEF BusUnload
<1>22. CASE BusUnloadReturns
  BY <1>22 DEF BusUnloadReturns, Contract!EndOfStream
<1>23. CASE PostError
  BY <1>23 DEF PostError
<1>24. CASE PostEos
  BY <1>24 DEF PostEos
<1>25. CASE PolicyAction
  BY <1>25 DEF PolicyAction
<1>26. CASE Crash
  BY <1>26 DEF Crash, DoubleUnload, StaleDraw, Contract!Crash, Contract!Exit,
                 Contract!Ended
<1>27. CASE UNCHANGED vars
  BY <1>27 DEF vars
<1> QED
  BY <1>1, <1>2, <1>3, <1>4, <1>5, <1>6, <1>7, <1>8, <1>9, <1>10, <1>11, <1>12, <1>13,
     <1>14, <1>15, <1>16, <1>17, <1>18, <1>19, <1>20, <1>21, <1>22, <1>23, <1>24, <1>25,
     <1>26, <1>27
  DEF Next, Call, Main, BusThread

\* The process answers its calls and ends as the service that forked it relies on,
\* however its two threads, GStreamer and uMediaServer interleave.
THEOREM Implements == Spec => ImplementsContract
BY InitContract, NextContract, SpecIInv, PTL DEF Spec, ImplementsContract, Contract!Spec

-----------------------------------------------------------------------------
\* One unload, until a snapshot is stopped.

\* What has been unloaded stays so.
LEMMA SpecUnloadInv == Spec => []UnloadInv
<1>1. Init => UnloadInv
  BY DEF Init, UnloadInv, Recording
<1>2. IInv /\ UnloadInv /\ [Next]_vars => UnloadInv'
  <2> SUFFICES ASSUME IInv, UnloadInv, [Next]_vars PROVE UnloadInv'
    OBVIOUS
  <2> USE DEF IInv, TypeOK, LoadInv, BusInv, StopInv, MainPcs, BusPcs, Recording, resourceVars,
              tellVars, Until, UnloadInv
  <2>1. CASE Subscribe
    BY <2>1 DEF Subscribe, MainLoop
  <2>2. CASE Stop
    BY <2>2 DEF Stop, MainLoop, Return
  <2>3. CASE Pause \/ Resume
    BY <2>3 DEF Pause, Resume, Switch, PlayFails, MainLoop
  <2>4. ASSUME NEW k \in Kinds, Start(k) PROVE UnloadInv'
    BY <2>4 DEF Start, MainLoop, Return, AllKinds
  <2>5. ASSUME NEW k \in Kinds, StartExits(k) PROVE UnloadInv'
    BY <2>5 DEF StartExits, MainLoop, AllKinds
  <2>6. CASE LoadAcquire
    BY <2>6 DEF LoadAcquire, GetSourceInfo, Return
  <2>7. CASE LoadLaunch
    BY <2>7 DEF LoadLaunch, Playing, PlayFails, Return
  <2>8. CASE LoadReturns
    BY <2>8 DEF LoadReturns, Return
  <2>9. CASE SendEos
    BY <2>9 DEF SendEos, PlayFails
  <2>10. CASE ResetEos
    BY <2>10 DEF ResetEos
  <2>11. CASE Poll
    BY <2>11 DEF Poll, EosComing
  <2>12. CASE Unload
    BY <2>12 DEF Unload
  <2>13. CASE UnloadReturns
    BY <2>13 DEF UnloadReturns, Return
  <2>14. CASE StopReturns
    BY <2>14 DEF StopReturns, ReleaseResource, SendRelease, Return
  <2>15. CASE Close
    BY <2>15 DEF Close, DestroyResource, SendRelease
  <2>16. CASE Join
    BY <2>16 DEF Join
  <2>17. CASE TakeMessage
    BY <2>17 DEF TakeMessage
  <2>18. CASE Draw
    BY <2>18 DEF Draw
  <2>19. CASE TakeEos
    BY <2>19 DEF TakeEos
  <2>20. CASE EndOfStream
    BY <2>20 DEF EndOfStream
  <2>21. CASE BusUnload
    BY <2>21 DEF BusUnload
  <2>22. CASE BusUnloadReturns
    BY <2>22 DEF BusUnloadReturns
  <2>23. CASE PostError
    BY <2>23 DEF PostError
  <2>24. CASE PostEos
    BY <2>24 DEF PostEos
  <2>25. CASE PolicyAction
    BY <2>25 DEF PolicyAction
  <2>26. CASE Crash
    BY <2>26 DEF Crash, DoubleUnload, StaleDraw
  <2>27. CASE UNCHANGED vars
    BY <2>27 DEF vars
  <2> QED
    BY <2>1, <2>2, <2>3, <2>4, <2>5, <2>6, <2>7, <2>8, <2>9, <2>10, <2>11, <2>12, <2>13,
       <2>14, <2>15, <2>16, <2>17, <2>18, <2>19, <2>20, <2>21, <2>22, <2>23, <2>24,
       <2>25, <2>26, <2>27
    DEF Next, Call, Main, BusThread
<1> QED
  BY <1>1, <1>2, SpecIInv, PTL DEF Spec

\* Main thread and bus thread are never both in unloadImpl, and neither unloads what the
\* other has unloaded, without a lock; the destructors find the pipeline unloaded.
THEOREM UnloadedOnce == Spec => []SingleUnload
<1>1. IInv /\ UnloadInv => SingleUnload
  BY DEF IInv, UnloadInv, BusInv, SingleUnload, DoubleUnload
<1> QED
  BY <1>1, SpecUnloadInv, SpecIInv, PTL

-----------------------------------------------------------------------------
\* A snapshot says that it has ended.

\* Subscribers are told before the pipeline is unloaded.
LEMMA SpecToldInv == Spec => []ToldInv
<1>1. Init => ToldInv
  BY DEF Init, ToldInv
<1>2. IInv /\ UnloadInv /\ ToldInv /\ [Next]_vars => ToldInv'
  <2> SUFFICES ASSUME IInv, UnloadInv, ToldInv, [Next]_vars PROVE ToldInv'
    OBVIOUS
  <2> USE DEF IInv, TypeOK, LoadInv, BusInv, StopInv, MainPcs, BusPcs, Recording, resourceVars,
              tellVars, Until, UnloadInv, ToldInv
  <2>1. CASE Subscribe
    BY <2>1 DEF Subscribe, MainLoop
  <2>2. CASE Stop
    BY <2>2 DEF Stop, MainLoop, Return
  <2>3. CASE Pause \/ Resume
    BY <2>3 DEF Pause, Resume, Switch, PlayFails, MainLoop
  <2>4. ASSUME NEW k \in Kinds, Start(k) PROVE ToldInv'
    BY <2>4 DEF Start, MainLoop, Return, AllKinds
  <2>5. ASSUME NEW k \in Kinds, StartExits(k) PROVE ToldInv'
    BY <2>5 DEF StartExits, MainLoop, AllKinds
  <2>6. CASE LoadAcquire
    BY <2>6 DEF LoadAcquire, GetSourceInfo, Return
  <2>7. CASE LoadLaunch
    BY <2>7 DEF LoadLaunch, Playing, PlayFails, Return
  <2>8. CASE LoadReturns
    BY <2>8 DEF LoadReturns, Return
  <2>9. CASE SendEos
    BY <2>9 DEF SendEos, PlayFails
  <2>10. CASE ResetEos
    BY <2>10 DEF ResetEos
  <2>11. CASE Poll
    BY <2>11 DEF Poll, EosComing
  <2>12. CASE Unload
    BY <2>12 DEF Unload
  <2>13. CASE UnloadReturns
    BY <2>13 DEF UnloadReturns, Return
  <2>14. CASE StopReturns
    BY <2>14 DEF StopReturns, ReleaseResource, SendRelease, Return
  <2>15. CASE Close
    BY <2>15 DEF Close, DestroyResource, SendRelease
  <2>16. CASE Join
    BY <2>16 DEF Join
  <2>17. CASE TakeMessage
    BY <2>17 DEF TakeMessage
  <2>18. CASE Draw
    BY <2>18 DEF Draw
  <2>19. CASE TakeEos
    BY <2>19 DEF TakeEos
  <2>20. CASE EndOfStream
    BY <2>20 DEF EndOfStream
  <2>21. CASE BusUnload
    BY <2>21 DEF BusUnload
  <2>22. CASE BusUnloadReturns
    BY <2>22 DEF BusUnloadReturns
  <2>23. CASE PostError
    BY <2>23 DEF PostError
  <2>24. CASE PostEos
    BY <2>24 DEF PostEos
  <2>25. CASE PolicyAction
    BY <2>25 DEF PolicyAction
  <2>26. CASE Crash
    BY <2>26 DEF Crash, DoubleUnload, StaleDraw
  <2>27. CASE UNCHANGED vars
    BY <2>27 DEF vars
  <2> QED
    BY <2>1, <2>2, <2>3, <2>4, <2>5, <2>6, <2>7, <2>8, <2>9, <2>10, <2>11, <2>12, <2>13,
       <2>14, <2>15, <2>16, <2>17, <2>18, <2>19, <2>20, <2>21, <2>22, <2>23, <2>24,
       <2>25, <2>26, <2>27
    DEF Next, Call, Main, BusThread
<1> QED
  BY <1>1, <1>2, SpecIInv, SpecUnloadInv, PTL DEF Spec

\* The subscriber of a snapshot has been told the end of stream when the process ends.
THEOREM SubscriberTold == Spec => []EndIsTold
<1>1. ToldInv => EndIsTold
  BY DEF ToldInv, EndIsTold
<1> QED
  BY <1>1, SpecToldInv, PTL

-----------------------------------------------------------------------------
\* The resources are released once.

\* What is held is what uMediaServer has granted.
LEMMA SpecHeldInv == Spec => []HeldInv
<1>1. Init => HeldInv
  BY DEF Init, HeldInv
<1>2. IInv /\ HeldInv /\ [Next]_vars => HeldInv'
  <2> SUFFICES ASSUME IInv, HeldInv, [Next]_vars PROVE HeldInv'
    OBVIOUS
  <2> USE DEF IInv, TypeOK, LoadInv, BusInv, StopInv, MainPcs, BusPcs, Recording, resourceVars,
              tellVars, Until, HeldInv
  <2>1. CASE Subscribe
    BY <2>1 DEF Subscribe, MainLoop
  <2>2. CASE Stop
    BY <2>2 DEF Stop, MainLoop, Return
  <2>3. CASE Pause \/ Resume
    BY <2>3 DEF Pause, Resume, Switch, PlayFails, MainLoop
  <2>4. ASSUME NEW k \in Kinds, Start(k) PROVE HeldInv'
    BY <2>4 DEF Start, MainLoop, Return, AllKinds
  <2>5. ASSUME NEW k \in Kinds, StartExits(k) PROVE HeldInv'
    BY <2>5 DEF StartExits, MainLoop, AllKinds
  <2>6. CASE LoadAcquire
    BY <2>6 DEF LoadAcquire, GetSourceInfo, Return
  <2>7. CASE LoadLaunch
    BY <2>7 DEF LoadLaunch, Playing, PlayFails, Return
  <2>8. CASE LoadReturns
    BY <2>8 DEF LoadReturns, Return
  <2>9. CASE SendEos
    BY <2>9 DEF SendEos, PlayFails
  <2>10. CASE ResetEos
    BY <2>10 DEF ResetEos
  <2>11. CASE Poll
    BY <2>11 DEF Poll, EosComing
  <2>12. CASE Unload
    BY <2>12 DEF Unload
  <2>13. CASE UnloadReturns
    BY <2>13 DEF UnloadReturns, Return
  <2>14. CASE StopReturns
    BY <2>14 DEF StopReturns, ReleaseResource, SendRelease, Return
  <2>15. CASE Close
    BY <2>15 DEF Close, DestroyResource, SendRelease
  <2>16. CASE Join
    BY <2>16 DEF Join
  <2>17. CASE TakeMessage
    BY <2>17 DEF TakeMessage
  <2>18. CASE Draw
    BY <2>18 DEF Draw
  <2>19. CASE TakeEos
    BY <2>19 DEF TakeEos
  <2>20. CASE EndOfStream
    BY <2>20 DEF EndOfStream
  <2>21. CASE BusUnload
    BY <2>21 DEF BusUnload
  <2>22. CASE BusUnloadReturns
    BY <2>22 DEF BusUnloadReturns
  <2>23. CASE PostError
    BY <2>23 DEF PostError
  <2>24. CASE PostEos
    BY <2>24 DEF PostEos
  <2>25. CASE PolicyAction
    BY <2>25 DEF PolicyAction
  <2>26. CASE Crash
    BY <2>26 DEF Crash, DoubleUnload, StaleDraw
  <2>27. CASE UNCHANGED vars
    BY <2>27 DEF vars
  <2> QED
    BY <2>1, <2>2, <2>3, <2>4, <2>5, <2>6, <2>7, <2>8, <2>9, <2>10, <2>11, <2>12, <2>13,
       <2>14, <2>15, <2>16, <2>17, <2>18, <2>19, <2>20, <2>21, <2>22, <2>23, <2>24,
       <2>25, <2>26, <2>27
    DEF Next, Call, Main, BusThread
<1> QED
  BY <1>1, <1>2, SpecIInv, PTL DEF Spec

\* stop and the destructor of ResourceRequestor release what was granted at most once
\* between them.
THEOREM NoStrayRelease == Spec => []ReleasedOnce
<1>1. HeldInv => ReleasedOnce
  BY DEF HeldInv, ReleasedOnce
<1> QED
  BY <1>1, SpecHeldInv, PTL

\* What uMediaServer has granted is held until it is released.
LEMMA SpecGrantedInv == Spec => []GrantedInv
<1>1. Init => GrantedInv
  BY DEF Init, GrantedInv
<1>2. IInv /\ GrantedInv /\ [Next]_vars => GrantedInv'
  <2> SUFFICES ASSUME IInv, GrantedInv, [Next]_vars PROVE GrantedInv'
    OBVIOUS
  <2> USE DEF IInv, TypeOK, LoadInv, BusInv, StopInv, MainPcs, BusPcs, Recording, resourceVars,
              tellVars, Until, GrantedInv
  <2>1. CASE Subscribe
    BY <2>1 DEF Subscribe, MainLoop
  <2>2. CASE Stop
    BY <2>2 DEF Stop, MainLoop, Return
  <2>3. CASE Pause \/ Resume
    BY <2>3 DEF Pause, Resume, Switch, PlayFails, MainLoop
  <2>4. ASSUME NEW k \in Kinds, Start(k) PROVE GrantedInv'
    BY <2>4 DEF Start, MainLoop, Return, AllKinds
  <2>5. ASSUME NEW k \in Kinds, StartExits(k) PROVE GrantedInv'
    BY <2>5 DEF StartExits, MainLoop, AllKinds
  <2>6. CASE LoadAcquire
    BY <2>6 DEF LoadAcquire, GetSourceInfo, Return
  <2>7. CASE LoadLaunch
    BY <2>7 DEF LoadLaunch, Playing, PlayFails, Return
  <2>8. CASE LoadReturns
    BY <2>8 DEF LoadReturns, Return
  <2>9. CASE SendEos
    BY <2>9 DEF SendEos, PlayFails
  <2>10. CASE ResetEos
    BY <2>10 DEF ResetEos
  <2>11. CASE Poll
    BY <2>11 DEF Poll, EosComing
  <2>12. CASE Unload
    BY <2>12 DEF Unload
  <2>13. CASE UnloadReturns
    BY <2>13 DEF UnloadReturns, Return
  <2>14. CASE StopReturns
    BY <2>14 DEF StopReturns, ReleaseResource, SendRelease, Return
  <2>15. CASE Close
    BY <2>15 DEF Close, DestroyResource, SendRelease
  <2>16. CASE Join
    BY <2>16 DEF Join
  <2>17. CASE TakeMessage
    BY <2>17 DEF TakeMessage
  <2>18. CASE Draw
    BY <2>18 DEF Draw
  <2>19. CASE TakeEos
    BY <2>19 DEF TakeEos
  <2>20. CASE EndOfStream
    BY <2>20 DEF EndOfStream
  <2>21. CASE BusUnload
    BY <2>21 DEF BusUnload
  <2>22. CASE BusUnloadReturns
    BY <2>22 DEF BusUnloadReturns
  <2>23. CASE PostError
    BY <2>23 DEF PostError
  <2>24. CASE PostEos
    BY <2>24 DEF PostEos
  <2>25. CASE PolicyAction
    BY <2>25 DEF PolicyAction
  <2>26. CASE Crash
    BY <2>26 DEF Crash, DoubleUnload, StaleDraw
  <2>27. CASE UNCHANGED vars
    BY <2>27 DEF vars
  <2> QED
    BY <2>1, <2>2, <2>3, <2>4, <2>5, <2>6, <2>7, <2>8, <2>9, <2>10, <2>11, <2>12, <2>13,
       <2>14, <2>15, <2>16, <2>17, <2>18, <2>19, <2>20, <2>21, <2>22, <2>23, <2>24,
       <2>25, <2>26, <2>27
    DEF Next, Call, Main, BusThread
<1> QED
  BY <1>1, <1>2, SpecIInv, PTL DEF Spec

\* Whichever way the process ends, nothing granted is left behind.
THEOREM NothingKept == Spec => []AllReleased
<1>1. GrantedInv => AllReleased
  BY DEF GrantedInv, AllReleased
<1> QED
  BY <1>1, SpecGrantedInv, PTL

\* What was granted is given back once, whoever does it.
THEOREM GivenBack == Spec => []GivenBackOnce
<1>1. ReleasedOnce /\ AllReleased => GivenBackOnce
  BY DEF GivenBackOnce
<1> QED
  BY <1>1, NoStrayRelease, NothingKept, PTL

-----------------------------------------------------------------------------
\* A recording is finished, and its bus idle, before it is unloaded.

\* The poll of sendEos does not end before the end of stream is handled.
LEMMA SpecEosInv == Spec => []EosInv
<1>1. Init => EosInv
  BY DEF Init, EosInv, Recording
<1>2. IInv /\ EosInv /\ [Next]_vars => EosInv'
  <2> SUFFICES ASSUME IInv, EosInv, [Next]_vars PROVE EosInv'
    OBVIOUS
  <2> USE DEF IInv, TypeOK, LoadInv, BusInv, StopInv, MainPcs, BusPcs, Recording, resourceVars,
              tellVars, Until, EosInv
  <2>1. CASE Subscribe
    BY <2>1 DEF Subscribe, MainLoop
  <2>2. CASE Stop
    BY <2>2 DEF Stop, MainLoop, Return
  <2>3. CASE Pause \/ Resume
    BY <2>3 DEF Pause, Resume, Switch, PlayFails, MainLoop
  <2>4. ASSUME NEW k \in Kinds, Start(k) PROVE EosInv'
    BY <2>4 DEF Start, MainLoop, Return, AllKinds
  <2>5. ASSUME NEW k \in Kinds, StartExits(k) PROVE EosInv'
    BY <2>5 DEF StartExits, MainLoop, AllKinds
  <2>6. CASE LoadAcquire
    BY <2>6 DEF LoadAcquire, GetSourceInfo, Return
  <2>7. CASE LoadLaunch
    BY <2>7 DEF LoadLaunch, Playing, PlayFails, Return
  <2>8. CASE LoadReturns
    BY <2>8 DEF LoadReturns, Return
  <2>9. CASE SendEos
    BY <2>9 DEF SendEos, PlayFails
  <2>10. CASE ResetEos
    BY <2>10 DEF ResetEos
  <2>11. CASE Poll
    BY <2>11 DEF Poll, EosComing
  <2>12. CASE Unload
    BY <2>12 DEF Unload
  <2>13. CASE UnloadReturns
    BY <2>13 DEF UnloadReturns, Return
  <2>14. CASE StopReturns
    BY <2>14 DEF StopReturns, ReleaseResource, SendRelease, Return
  <2>15. CASE Close
    BY <2>15 DEF Close, DestroyResource, SendRelease
  <2>16. CASE Join
    BY <2>16 DEF Join
  <2>17. CASE TakeMessage
    BY <2>17 DEF TakeMessage
  <2>18. CASE Draw
    BY <2>18 DEF Draw
  <2>19. CASE TakeEos
    BY <2>19 DEF TakeEos
  <2>20. CASE EndOfStream
    BY <2>20 DEF EndOfStream
  <2>21. CASE BusUnload
    BY <2>21 DEF BusUnload
  <2>22. CASE BusUnloadReturns
    BY <2>22 DEF BusUnloadReturns
  <2>23. CASE PostError
    BY <2>23 DEF PostError
  <2>24. CASE PostEos
    BY <2>24 DEF PostEos
  <2>25. CASE PolicyAction
    BY <2>25 DEF PolicyAction
  <2>26. CASE Crash
    BY <2>26 DEF Crash, DoubleUnload, StaleDraw
  <2>27. CASE UNCHANGED vars
    BY <2>27 DEF vars
  <2> QED
    BY <2>1, <2>2, <2>3, <2>4, <2>5, <2>6, <2>7, <2>8, <2>9, <2>10, <2>11, <2>12, <2>13,
       <2>14, <2>15, <2>16, <2>17, <2>18, <2>19, <2>20, <2>21, <2>22, <2>23, <2>24,
       <2>25, <2>26, <2>27
    DEF Next, Call, Main, BusThread
<1> QED
  BY <1>1, <1>2, SpecIInv, PTL DEF Spec

\* A recording that has played, paused or not, is unloaded only after its end of stream
\* has got through, although isEos is cleared after the event is sent.
THEOREM RecordingFinalised == Spec => Finalised
<1>1. EosInv /\ [Next]_vars =>
        [Unload /\ kind \in {"Video", "Audio"} /\ pipeline # "created" =>
           ~Until({"slowEos", "playFail", "error"}) \/ eos \in {"posted", "taken"}]_vars
  BY DEF EosInv, Unload, Recording
<1> QED
  BY <1>1, SpecEosInv, PTL DEF Spec, Finalised

\* The bus thread is through with what was posted before the end of stream.
LEMMA SpecDrawInv == Spec => []DrawInv
<1>1. Init => DrawInv
  BY DEF Init, DrawInv, Recording
<1>2. IInv /\ UnloadInv /\ EosInv /\ DrawInv /\ [Next]_vars => DrawInv'
  <2> SUFFICES ASSUME IInv, UnloadInv, EosInv, DrawInv, [Next]_vars PROVE DrawInv'
    OBVIOUS
  <2> USE DEF IInv, TypeOK, LoadInv, BusInv, StopInv, MainPcs, BusPcs, Recording, resourceVars,
              tellVars, Until, UnloadInv, EosInv, DrawInv
  <2>1. CASE Subscribe
    BY <2>1 DEF Subscribe, MainLoop
  <2>2. CASE Stop
    BY <2>2 DEF Stop, MainLoop, Return
  <2>3. CASE Pause \/ Resume
    BY <2>3 DEF Pause, Resume, Switch, PlayFails, MainLoop
  <2>4. ASSUME NEW k \in Kinds, Start(k) PROVE DrawInv'
    BY <2>4 DEF Start, MainLoop, Return, AllKinds
  <2>5. ASSUME NEW k \in Kinds, StartExits(k) PROVE DrawInv'
    BY <2>5 DEF StartExits, MainLoop, AllKinds
  <2>6. CASE LoadAcquire
    BY <2>6 DEF LoadAcquire, GetSourceInfo, Return
  <2>7. CASE LoadLaunch
    BY <2>7 DEF LoadLaunch, Playing, PlayFails, Return
  <2>8. CASE LoadReturns
    BY <2>8 DEF LoadReturns, Return
  <2>9. CASE SendEos
    BY <2>9 DEF SendEos, PlayFails
  <2>10. CASE ResetEos
    BY <2>10 DEF ResetEos
  <2>11. CASE Poll
    BY <2>11 DEF Poll, EosComing
  <2>12. CASE Unload
    BY <2>12 DEF Unload
  <2>13. CASE UnloadReturns
    BY <2>13 DEF UnloadReturns, Return
  <2>14. CASE StopReturns
    BY <2>14 DEF StopReturns, ReleaseResource, SendRelease, Return
  <2>15. CASE Close
    BY <2>15 DEF Close, DestroyResource, SendRelease
  <2>16. CASE Join
    BY <2>16 DEF Join
  <2>17. CASE TakeMessage
    BY <2>17 DEF TakeMessage
  <2>18. CASE Draw
    BY <2>18 DEF Draw
  <2>19. CASE TakeEos
    BY <2>19 DEF TakeEos
  <2>20. CASE EndOfStream
    BY <2>20 DEF EndOfStream
  <2>21. CASE BusUnload
    BY <2>21 DEF BusUnload
  <2>22. CASE BusUnloadReturns
    BY <2>22 DEF BusUnloadReturns
  <2>23. CASE PostError
    BY <2>23 DEF PostError
  <2>24. CASE PostEos
    BY <2>24 DEF PostEos
  <2>25. CASE PolicyAction
    BY <2>25 DEF PolicyAction
  <2>26. CASE Crash
    BY <2>26 DEF Crash, DoubleUnload, StaleDraw
  <2>27. CASE UNCHANGED vars
    BY <2>27 DEF vars
  <2> QED
    BY <2>1, <2>2, <2>3, <2>4, <2>5, <2>6, <2>7, <2>8, <2>9, <2>10, <2>11, <2>12, <2>13,
       <2>14, <2>15, <2>16, <2>17, <2>18, <2>19, <2>20, <2>21, <2>22, <2>23, <2>24,
       <2>25, <2>26, <2>27
    DEF Next, Call, Main, BusThread
<1> QED
  BY <1>1, <1>2, SpecIInv, SpecUnloadInv, SpecEosInv, PTL DEF Spec

\* stop never unloads the pipeline under the handler of an earlier message.
THEOREM NoStaleDraw == Spec => []DrawsLive
<1>1. DrawInv => DrawsLive
  BY DEF DrawInv, DrawsLive, StaleDraw
<1> QED
  BY <1>1, SpecDrawInv, PTL

-----------------------------------------------------------------------------
\* A snapshot ends by itself.

\* Only its own end of stream, which nothing stops, takes it out of what EndsInv lists.
LEMMA SpecEndsInv == Spec => []EndsInv
<1>1. Init => EndsInv
  BY DEF Init, EndsInv, Recording
<1>2. IInv /\ EndsInv /\ [Next]_vars => EndsInv'
  <2> SUFFICES ASSUME IInv, EndsInv, [Next]_vars PROVE EndsInv'
    OBVIOUS
  <2> USE DEF IInv, TypeOK, LoadInv, BusInv, StopInv, MainPcs, BusPcs, Recording, resourceVars,
              tellVars, Until, EndsInv
  <2>1. CASE Subscribe
    BY <2>1 DEF Subscribe, MainLoop
  <2>2. CASE Stop
    BY <2>2 DEF Stop, MainLoop, Return
  <2>3. CASE Pause \/ Resume
    BY <2>3 DEF Pause, Resume, Switch, PlayFails, MainLoop
  <2>4. ASSUME NEW k \in Kinds, Start(k) PROVE EndsInv'
    BY <2>4 DEF Start, MainLoop, Return, AllKinds
  <2>5. ASSUME NEW k \in Kinds, StartExits(k) PROVE EndsInv'
    BY <2>5 DEF StartExits, MainLoop, AllKinds
  <2>6. CASE LoadAcquire
    BY <2>6 DEF LoadAcquire, GetSourceInfo, Return
  <2>7. CASE LoadLaunch
    BY <2>7 DEF LoadLaunch, Playing, PlayFails, Return
  <2>8. CASE LoadReturns
    BY <2>8 DEF LoadReturns, Return
  <2>9. CASE SendEos
    BY <2>9 DEF SendEos, PlayFails
  <2>10. CASE ResetEos
    BY <2>10 DEF ResetEos
  <2>11. CASE Poll
    BY <2>11 DEF Poll, EosComing
  <2>12. CASE Unload
    BY <2>12 DEF Unload
  <2>13. CASE UnloadReturns
    BY <2>13 DEF UnloadReturns, Return
  <2>14. CASE StopReturns
    BY <2>14 DEF StopReturns, ReleaseResource, SendRelease, Return
  <2>15. CASE Close
    BY <2>15 DEF Close, DestroyResource, SendRelease
  <2>16. CASE Join
    BY <2>16 DEF Join
  <2>17. CASE TakeMessage
    BY <2>17 DEF TakeMessage
  <2>18. CASE Draw
    BY <2>18 DEF Draw
  <2>19. CASE TakeEos
    BY <2>19 DEF TakeEos
  <2>20. CASE EndOfStream
    BY <2>20 DEF EndOfStream
  <2>21. CASE BusUnload
    BY <2>21 DEF BusUnload
  <2>22. CASE BusUnloadReturns
    BY <2>22 DEF BusUnloadReturns
  <2>23. CASE PostError
    BY <2>23 DEF PostError
  <2>24. CASE PostEos
    BY <2>24 DEF PostEos
  <2>25. CASE PolicyAction
    BY <2>25 DEF PolicyAction
  <2>26. CASE Crash
    BY <2>26 DEF Crash, DoubleUnload, StaleDraw
  <2>27. CASE UNCHANGED vars
    BY <2>27 DEF vars
  <2> QED
    BY <2>1, <2>2, <2>3, <2>4, <2>5, <2>6, <2>7, <2>8, <2>9, <2>10, <2>11, <2>12, <2>13,
       <2>14, <2>15, <2>16, <2>17, <2>18, <2>19, <2>20, <2>21, <2>22, <2>23, <2>24,
       <2>25, <2>26, <2>27
    DEF Next, Call, Main, BusThread
<1> QED
  BY <1>1, <1>2, SpecIInv, PTL DEF Spec

\* What keeps the service from polling and waiting in vain: as long as pipelines play, a
\* snapshot that has been loaded quits, or its end of stream is still on its way or in the
\* hands of the bus thread, whatever messages and policy actions come between.
THEOREM SnapshotEnds ==
  Spec => [](Until({"playFail", "error", "lateStop"}) /\ kind = "Snapshot" /\ isLoaded /\ main = "loop" =>
               quit \/ EosComing \/ bus \in {"eos", "unload", "notify"})
<1>1. EndsInv =>
        (Until({"playFail", "error", "lateStop"}) /\ kind = "Snapshot" /\ isLoaded /\ main = "loop" =>
           quit \/ EosComing \/ bus \in {"eos", "unload", "notify"})
  BY DEF EndsInv, EosComing
<1> QED
  BY <1>1, SpecEndsInv, PTL
=============================================================================
