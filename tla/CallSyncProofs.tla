---------------------------- MODULE CallSyncProofs ----------------------------
(***************************************************************************)
(* Proofs about CallSync, for any number of calls, any timeout and any     *)
(* Env: types, and that, until a fault has happened, a callback writes     *)
(* only to the frame of its own call and every caller gets its own reply.  *)
(***************************************************************************)
EXTENDS CallSync, TLAPS

\* The callback of at most one call is to come or under way: that of the call whose
\* frame is there.
OneCallback ==
  /\ pending \subseteq {n}
  /\ pending # {} => pc \in InCallSync /\ ~done /\ callback.call = 0
  /\ callback.call # 0 => callback.call = n /\ pc \in InCallSync /\ ~done

\* It writes in the order of the code.
InOrder ==
  /\ callback.todo \in {{}, {"done"}, {"text", "done"}, Writes}
  /\ callback.todo = {} <=> callback.call = 0
  /\ callback.todo = {"done"} => resp = [of |-> n, what |-> callback.what]

\* A call in callSync is answered or will be, and before its poll ends.
Answering ==
  /\ pc \in InCallSync => done \/ Unanswered
  /\ pc \in InCallSync /\ done => resp.of = n /\ resp.what \in {"reply", "error"}
  /\ pc = "poll" /\ n \in pending => n \in armed
  /\ pc = "parse" => resp.of = n /\ resp.what \in {"reply", "error", "refused"}

SoundInv == faults = {} => OneCallback /\ InOrder /\ Answering /\ ~stray

IInv == TypeOK /\ SoundInv /\ OwnReply

\* Nothing has been called.
LEMMA InitIInv == Init => IInv
<1> SUFFICES ASSUME Init PROVE IInv
  OBVIOUS
<1> USE CallSyncAssumption DEF Init, NoCallback, Nothing
<1>1. TypeOK
  <2>1. Nothing \in Response
    BY DEF Response, Texts
  <2>2. NoCallback \in [call : 0..MaxCalls, what : {"reply", "error"}, todo : SUBSET Writes]
    <3>1. {} \in SUBSET Writes
      OBVIOUS
    <3> QED
      BY <3>1
  <2>3. parsed \in [call : 0..MaxCalls, resp : Response]
    BY <2>1
  <2>4. n \in 0..MaxCalls /\ cnt \in 0..Timeout
    OBVIOUS
  <2>5. pending \subseteq Calls /\ armed \subseteq 0..MaxCalls /\ faults \subseteq EnvFaults
    OBVIOUS
  <2>6. /\ pc \in {"constructor", "loop", "timer", "poll", "parse", "join", "closed"}
        /\ thread \in {"starting", "running", "quit", "ended"}
        /\ done \in BOOLEAN /\ stray \in BOOLEAN
    OBVIOUS
  <2> QED
    BY <2>1, <2>2, <2>3, <2>4, <2>5, <2>6, Zenon DEF TypeOK
<1>2. SoundInv /\ OwnReply
  BY DEF SoundInv, OwnReply, OneCallback, InOrder, Answering, InCallSync
<1> QED
  BY <1>1, <1>2 DEF IInv

\* Each step of either thread keeps the variables' types.
LEMMA NextTypeOK == TypeOK /\ [Next]_vars => TypeOK'
<1> SUFFICES ASSUME TypeOK, [Next]_vars PROVE TypeOK'
  OBVIOUS
<1> USE CallSyncAssumption DEF TypeOK, Calls, Response, Texts, Writes
<1>1. CASE Constructed
  BY <1>1 DEF Constructed
<1>2. CASE CallOneReply
  <2>1. n' \in 0..MaxCalls /\ n + 1 \in Calls
    BY <1>2 DEF CallOneReply
  <2>2. resp' \in Response
    BY <1>2, <2>1 DEF CallOneReply
  <2>3. pending' \subseteq Calls
    BY <1>2, <2>1 DEF CallOneReply
  <2> QED
    BY <1>2, <2>1, <2>2, <2>3 DEF CallOneReply
<1>3. CASE SetTimeout
  <2>1. faults' \subseteq EnvFaults
    BY <1>3 DEF SetTimeout, EnvFaults
  <2>2. armed' \subseteq 0..MaxCalls
    BY <1>3 DEF SetTimeout
  <2>3. pc' \in {"poll", "parse"} /\ cnt' \in 0..Timeout
    BY <1>3 DEF SetTimeout
  <2> QED
    BY <1>3, <2>1, <2>2, <2>3 DEF SetTimeout
<1>4. CASE Poll
  <2>1. faults' \subseteq EnvFaults
    BY <1>4 DEF Poll, EnvFaults
  <2>2. pc' \in {"poll", "parse"} /\ cnt' \in 0..Timeout
    BY <1>4 DEF Poll
  <2> QED
    BY <1>4, <2>1, <2>2 DEF Poll
<1>5. CASE Parse
  BY <1>5 DEF Parse
<1>6. CASE Quit
  BY <1>6 DEF Quit
<1>7. CASE Joined
  BY <1>7 DEF Joined
<1>8. CASE ThreadRuns
  BY <1>8 DEF ThreadRuns
<1>9. CASE ThreadEnds
  BY <1>9 DEF ThreadEnds
<1>10. ASSUME NEW k \in Calls, Dispatch(k) PROVE TypeOK'
  BY <1>10 DEF Dispatch
<1>11. ASSUME NEW w \in Writes, CallbackWrites(w) PROVE TypeOK'
  <2>1. faults' \subseteq EnvFaults
    BY <1>11 DEF CallbackWrites, EnvFaults
  <2>2. resp' \in Response
    BY <1>11 DEF CallbackWrites
  <2>3. callback' \in [call : 0..MaxCalls, what : {"reply", "error"}, todo : SUBSET Writes]
    <3>1. {} \in SUBSET Writes /\ callback.todo \ {w} \in SUBSET Writes
      OBVIOUS
    <3>2. NoCallback \in [call : 0..MaxCalls, what : {"reply", "error"}, todo : SUBSET Writes]
      BY <3>1, CallSyncAssumption DEF NoCallback
    <3> QED
      BY <1>11, <3>1, <3>2 DEF CallbackWrites
  <2>4. stray' \in BOOLEAN /\ done' \in BOOLEAN
    BY <1>11, Zenon DEF CallbackWrites
  <2> QED
    BY <1>11, <2>1, <2>2, <2>3, <2>4 DEF CallbackWrites
<1>12. CASE UNCHANGED vars
  BY <1>12 DEF vars
<1> QED
  BY <1>1, <1>2, <1>3, <1>4, <1>5, <1>6, <1>7, <1>8, <1>9, <1>10, <1>11, <1>12
  DEF Next, Owner, Caller, Thread, Write

\* A fault is never forgotten, so what holds until the first need be looked at
\* only in steps that are none.
LEMMA FaultsStay == [Next]_vars /\ faults' = {} => faults = {}
BY DEF Next, Owner, Caller, Thread, Write, vars, Constructed, CallOneReply, SetTimeout, Poll, Parse,
   Quit, Joined, ThreadRuns, ThreadEnds, Dispatch, CallbackWrites

\* The step that matters is the end of a poll that has run out: its call has been
\* answered, for its timer is armed and no thread has been stalled.
LEMMA NextSound == IInv /\ [Next]_vars => SoundInv' /\ OwnReply'
<1> SUFFICES ASSUME IInv, [Next]_vars, faults' = {}
             PROVE  (OneCallback /\ InOrder /\ Answering /\ ~stray /\ OwnReply)'
  BY DEF SoundInv, OwnReply
<1>0. faults = {} /\ OneCallback /\ InOrder /\ Answering /\ ~stray /\ OwnReply /\ TypeOK
  BY FaultsStay DEF IInv, SoundInv
<1> USE <1>0 DEF TypeOK, OneCallback, InOrder, Answering, OwnReply, Unanswered, InCallSync
<1>1. CASE Constructed
  BY <1>1 DEF Constructed
<1>2. CASE CallOneReply
  BY <1>2, CallSyncAssumption DEF CallOneReply, Calls
<1>3. CASE SetTimeout
  BY <1>3 DEF SetTimeout
<1>4. CASE Poll
  BY <1>4 DEF Poll
<1>5. CASE Parse
  BY <1>5 DEF Parse
<1>6. CASE Quit
  BY <1>6 DEF Quit
<1>7. CASE Joined
  BY <1>7 DEF Joined
<1>8. CASE ThreadRuns
  BY <1>8 DEF ThreadRuns
<1>9. CASE ThreadEnds
  BY <1>9 DEF ThreadEnds
<1>10. ASSUME NEW k \in Calls, Dispatch(k)
       PROVE  (OneCallback /\ InOrder /\ Answering /\ ~stray /\ OwnReply)'
  <2>1. k = n /\ pc \in InCallSync /\ ~done /\ callback'.call = n /\ pending' = {}
    BY <1>10 DEF Dispatch, Calls
  <2>2. callback'.todo = Writes /\ Writes # {} /\ Writes # {"done"}
    BY <1>10 DEF Dispatch, Writes
  <2>3. UNCHANGED <<pc, n, done, resp, armed, stray, parsed>>
    BY <1>10 DEF Dispatch
  <2>4. n # 0
    BY <2>1 DEF Calls
  <2>5. (OneCallback /\ InOrder)'
    BY <2>1, <2>2, <2>3, <2>4
  <2>6. (Answering /\ ~stray /\ OwnReply)'
    BY <1>10, <2>1, <2>3
  <2> QED
    BY <2>5, <2>6
<1>11. ASSUME NEW w \in Writes, CallbackWrites(w)
       PROVE  (OneCallback /\ InOrder /\ Answering /\ ~stray /\ OwnReply)'
  <2>1. NextWrite(w) /\ w \in callback.todo
    BY <1>11 DEF CallbackWrites
  <2>2. CASE w = "erase"
    BY <1>11, <2>1, <2>2 DEF CallbackWrites, NextWrite, LiveFrame, NoCallback, Writes
  <2>3. CASE w = "text"
    BY <1>11, <2>1, <2>3 DEF CallbackWrites, NextWrite, LiveFrame, NoCallback, Writes
  <2>4. CASE w = "done"
    BY <1>11, <2>1, <2>4 DEF CallbackWrites, NextWrite, LiveFrame, NoCallback, Writes
  <2> QED
    BY <2>2, <2>3, <2>4 DEF Writes
<1>12. CASE UNCHANGED vars
  BY <1>12 DEF vars
<1> QED
  BY <1>1, <1>2, <1>3, <1>4, <1>5, <1>6, <1>7, <1>8, <1>9, <1>10, <1>11, <1>12
  DEF Next, Owner, Caller, Thread, Write

\* The inductive invariant holds of every reachable state.
LEMMA Invariance == Spec => []IInv
<1>1. IInv /\ [Next]_vars => IInv'
  BY NextTypeOK, NextSound DEF IInv
<1> QED
  BY InitIInv, <1>1, PTL DEF Spec

\* Every variable keeps its type (callSync and the callback of LSCallOneReply).
THEOREM TypeCorrect == Spec => []TypeOK
<1>1. IInv => TypeOK
  BY DEF IInv
<1> QED
  BY Invariance, <1>1, PTL

\* A caller of callSync finds its own reply, whole, or an error for its own call.
THEOREM RepliesMatch == Spec => []OwnReply
<1>1. IInv => OwnReply
  BY DEF IInv
<1> QED
  BY Invariance, <1>1, PTL

\* No callback writes to the frame of a callSync that has returned.
THEOREM FramesSafe == Spec => []NoStrayWrite
<1>1. IInv => NoStrayWrite
  BY DEF IInv, SoundInv, NoStrayWrite
<1> QED
  BY Invariance, <1>1, PTL

\* The loop of the connector's thread runs when the constructor has returned, until the
\* destructor tells it to quit.
LoopInv ==
  /\ thread = "starting" => pc = "constructor"
  /\ thread = "running" => pc # "join"
  /\ thread \in {"quit", "ended"} => pc \in {"join", "closed"}

LEMMA NextLoop == TypeOK /\ LoopInv /\ [Next]_vars => LoopInv'
<1> SUFFICES ASSUME TypeOK, LoopInv, [Next]_vars PROVE LoopInv'
  OBVIOUS
<1> USE DEF LoopInv
<1>1. CASE Constructed
  BY <1>1 DEF Constructed
<1>2. CASE CallOneReply
  BY <1>2 DEF CallOneReply
<1>3. CASE SetTimeout \/ Poll \/ Parse
  BY <1>3 DEF SetTimeout, Poll, Parse
<1>4. CASE Quit
  BY <1>4 DEF Quit, TypeOK
<1>5. CASE Joined
  BY <1>5 DEF Joined
<1>6. CASE ThreadRuns \/ ThreadEnds
  BY <1>6 DEF ThreadRuns, ThreadEnds
<1>7. CASE UNCHANGED <<pc, thread>>
  BY <1>7
<1> QED
  BY <1>1, <1>2, <1>3, <1>4, <1>5, <1>6, <1>7
  DEF Next, Owner, Caller, Thread, Write, Dispatch, CallbackWrites, vars

\* The destructor joins a thread that has been told to quit, whatever it did before: no
\* request to quit is lost on a loop that does not run yet.
THEOREM QuitIsHeard == Spec => []QuitHeard
<1>1. Init => LoopInv
  BY DEF Init, LoopInv
<1>2. TypeOK /\ LoopInv => QuitHeard
  BY DEF TypeOK, LoopInv, QuitHeard
<1> QED
  BY <1>1, <1>2, NextLoop, TypeCorrect, PTL DEF Spec
=============================================================================
