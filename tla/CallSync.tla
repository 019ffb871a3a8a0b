------------------------------- MODULE CallSync -------------------------------
(***************************************************************************)
(* One LSConnector and the calls made through it: the owner's thread in    *)
(* LunaClient::callSync, and the connector's own thread, whose main loop   *)
(* runs the callback of LSCallOneReply.                                    *)
(*                                                                         *)
(* The callback writes through a pointer to the frame of callSync, ctx,    *)
(* and through that to resp, a string of callSync's caller.  callSync      *)
(* leaves by its own count of polls and not when the callback is done      *)
(* with, and the two threads share bDone_ and resp without a lock.         *)
(*                                                                         *)
(* RecorderService makes each of its calls in one step and gives it its    *)
(* own reply, an error or a timeout: that is OwnReply and Returns.  No     *)
(* caller looks at what callSync returns, so bRet_ is left out.            *)
(***************************************************************************)
EXTENDS Naturals

CONSTANTS
  MaxCalls,  \* BOUND: calls made through the connector
  Timeout,   \* the timeout argument of callSync, in polls
  Env        \* what the surroundings may do wrong

\* Members of Env:
\*   "stall"      the connector's thread is kept from running until the poll has ended
\*   "timerFail"  LSCallSetTimeout fails although the call is still to be answered
\*   "reorder"    the owner's processor sees bDone_ before what was written to resp
EnvFaults == {"stall", "timerFail", "reorder"}

ASSUME CallSyncAssumption ==
  MaxCalls \in Nat /\ Timeout \in Nat /\ Env \subseteq EnvFaults

VARIABLES
  pc,       \* where the owner's thread is
  thread,   \* the connector's thread
  n,        \* the current call; ctx and resp are its own in its LiveFrame
  cnt,      \* polls made
  done,     \* ctx.bDone_
  resp,     \* resp, and the call whose callback wrote it
  pending,  \* calls the bus has still to call back
  armed,    \* calls whose timeout has been set
  callback, \* the callback that runs, and what it has still to write
  parsed,   \* what the caller of the last finished call found in resp
  faults,   \* which of Env have happened
  stray     \* a callback has written to a frame that is not its call's

vars == <<pc, thread, n, cnt, done, resp, pending, armed, callback, parsed, faults, stray>>

Calls == 1..MaxCalls
Texts == {"empty",    \* nothing yet
          "refused",  \* nothing, for the call has not been sent
          "partial",  \* assign has begun
          "reply", "error"}
Writes == {"erase", "text", "done"}   \* assign, in two steps, and bDone_
Response == [of : 0..MaxCalls, what : Texts]

NoCallback == [call |-> 0, what |-> "reply", todo |-> {}]

TypeOK ==
  /\ pc \in {"constructor", "loop", "timer", "poll", "parse", "join", "closed"}
  /\ thread \in {"starting", "running", "quit", "ended"}
  /\ n \in 0..MaxCalls /\ cnt \in 0..Timeout
  /\ done \in BOOLEAN /\ stray \in BOOLEAN
  /\ resp \in Response
  /\ pending \subseteq Calls /\ armed \subseteq 0..MaxCalls
  /\ callback \in [call : 0..MaxCalls, what : {"reply", "error"}, todo : SUBSET Writes]
  /\ parsed \in [call : 0..MaxCalls, resp : Response]
  /\ faults \subseteq EnvFaults

Nothing == [of |-> 0, what |-> "empty"]

Init ==
  /\ pc = "constructor" /\ thread = "starting" /\ n = 0 /\ cnt = 0
  /\ done = FALSE /\ resp = Nothing /\ pending = {} /\ armed = {}
  /\ callback = NoCallback /\ parsed = [call |-> 0, resp |-> Nothing]
  /\ faults = {} /\ stray = FALSE

-----------------------------------------------------------------------------
\* The owner's thread.

\* The constructor has seen the main loop run.
Constructed ==
  /\ pc = "constructor" /\ thread = "running"
  /\ pc' = "loop"
  /\ UNCHANGED <<thread, n, cnt, done, resp, pending, armed, callback, parsed, faults, stray>>

\* LSCallOneReply, which refuses a call of a client that has no bus handle.
CallOneReply ==
  /\ pc = "loop" /\ n < MaxCalls
  /\ n' = n + 1
  /\ done' = FALSE
  /\ \/ /\ pc' = "timer" /\ pending' = pending \cup {n + 1}
        /\ resp' = [of |-> n + 1, what |-> "empty"]
     \/ /\ pc' = "parse" /\ UNCHANGED pending
        /\ resp' = [of |-> n + 1, what |-> "refused"]
  /\ UNCHANGED <<thread, cnt, armed, callback, parsed, faults, stray>>

\* The current call is still to be answered, or its callback has not returned.
Unanswered == n \in pending \/ callback.call = n

\* Mutant: the timeout is not set.
SetNoTimeout ==
  /\ pc = "timer"
  /\ pc' = "poll" /\ cnt' = 0
  /\ UNCHANGED <<thread, n, done, resp, pending, armed, callback, parsed, faults, stray>>

\* LSCallSetTimeout: where it fails, callSync returns at once.  It may fail for a
\* call whose reply has come already.
SetTimeout ==
  /\ pc = "timer"
  /\ \/ /\ armed' = armed \cup {n}
        /\ pc' = "poll" /\ cnt' = 0
        /\ UNCHANGED faults
     \/ /\ Unanswered => "timerFail" \in Env
        /\ faults' = IF Unanswered THEN faults \cup {"timerFail"} ELSE faults
        /\ pc' = "parse"
        /\ UNCHANGED <<armed, cnt>>
  /\ UNCHANGED <<thread, n, done, resp, pending, callback, parsed, stray>>

\* Mutant: the poll has no bound of its own.
PollForEver ==
  /\ pc = "poll"
  /\ IF done THEN pc' = "parse" ELSE UNCHANGED pc
  /\ UNCHANGED <<thread, n, cnt, done, resp, pending, armed, callback, parsed, faults, stray>>

\* Mutant: one turn more than the timeout has milliseconds.
PollOnceMore ==
  /\ pc = "poll"
  /\ IF ~done /\ cnt <= Timeout THEN cnt' = cnt + 1 /\ UNCHANGED pc
                                ELSE pc' = "parse" /\ UNCHANGED cnt
  /\ UNCHANGED <<thread, n, done, resp, pending, armed, callback, parsed, faults, stray>>

\* One turn of the poll, or its end.  Each turn sleeps a millisecond or more and the
\* bus's timer was set before the first: when the count runs out, that timer has run
\* out too, and only a stall of the connector's thread can have kept its callback back.
Poll ==
  /\ pc = "poll"
  /\ IF ~done /\ cnt < Timeout
     THEN cnt' = cnt + 1 /\ UNCHANGED <<pc, faults>>
     ELSE /\ LET stalled == ~done /\ Unanswered /\ (n \in armed \/ callback.call = n)
             IN /\ stalled => "stall" \in Env
                /\ faults' = IF stalled THEN faults \cup {"stall"} ELSE faults
          /\ pc' = "parse"
          /\ UNCHANGED cnt
  /\ UNCHANGED <<thread, n, done, resp, pending, armed, callback, parsed, stray>>

\* callSync has returned; its caller parses resp and returns.
Parse ==
  /\ pc = "parse"
  /\ parsed' = [call |-> n, resp |-> resp]
  /\ pc' = "loop"
  /\ UNCHANGED <<thread, n, cnt, done, resp, pending, armed, callback, faults, stray>>

\* The destructor: g_main_loop_quit does nothing to a loop that does not run yet.
Quit ==
  /\ pc = "loop"
  /\ thread' = IF thread = "running" THEN "quit" ELSE thread
  /\ pc' = "join"
  /\ UNCHANGED <<n, cnt, done, resp, pending, armed, callback, parsed, faults, stray>>

\* The thread has been joined, and the client unregistered from the bus.
Joined ==
  /\ pc = "join" /\ thread = "ended"
  /\ pending' = {} /\ pc' = "closed"
  /\ UNCHANGED <<thread, n, cnt, done, resp, armed, callback, parsed, faults, stray>>

-----------------------------------------------------------------------------
\* The connector's thread.

\* g_main_loop_run has set the loop's is_running.
ThreadRuns ==
  /\ thread = "starting"
  /\ thread' = "running"
  /\ UNCHANGED <<pc, n, cnt, done, resp, pending, armed, callback, parsed, faults, stray>>

ThreadEnds ==
  /\ thread = "quit" /\ callback.call = 0
  /\ thread' = "ended"
  /\ UNCHANGED <<pc, n, cnt, done, resp, pending, armed, callback, parsed, faults, stray>>

\* The bus has a reply for call k, or an error: its peer is gone, or its time is over.
Dispatch(k) ==
  /\ thread \in {"running", "quit"} /\ callback.call = 0
  /\ k \in pending
  /\ pending' = pending \ {k}
  /\ \E what \in {"reply", "error"} :
       callback' = [call |-> k, what |-> what, todo |-> Writes]
  /\ UNCHANGED <<pc, thread, n, cnt, done, resp, armed, parsed, faults, stray>>

\* Mutant: bDone_ is set before the payload has been assigned.
NextWriteDoneFirst(w) ==
  CASE w = "done"  -> TRUE
    [] w = "erase" -> "done" \notin callback.todo
    [] w = "text"  -> callback.todo = {"text"}

\* The callback's writes in the order of the code.
NextWrite(w) ==
  CASE w = "erase" -> TRUE
    [] w = "text"  -> "erase" \notin callback.todo
    [] w = "done"  -> callback.todo = {"done"}

\* ctx and resp of call k exist: callSync, or its caller, has not returned.
LiveFrame(k, pcs) == n = k /\ pc \in pcs
InCallSync == {"timer", "poll"}

\* The callback writes w.  In a frame that is gone it writes to the frame of a later
\* call that lies in the same place, if there is one, or to something else.
CallbackWrites(w) ==
  /\ w \in callback.todo
  /\ NextWrite(w) \/ (w = "done" /\ "reorder" \in Env)
  /\ LET k    == callback.call
         pcs  == IF w = "done" THEN InCallSync ELSE InCallSync \cup {"parse"}
         live == LiveFrame(k, pcs)
         left == callback.todo \ {w}
     IN /\ callback' = IF left = {} THEN NoCallback ELSE [callback EXCEPT !.todo = left]
        /\ faults' = IF NextWrite(w) THEN faults ELSE faults \cup {"reorder"}
        /\ stray' = (stray \/ ~live)
        /\ \/ /\ live \/ pc \in pcs
              /\ IF w = "done" THEN done' = TRUE /\ UNCHANGED resp
                 ELSE /\ resp' = [of |-> k, what |-> IF w = "text" THEN callback.what ELSE "partial"]
                      /\ UNCHANGED done
           \/ ~live /\ UNCHANGED <<done, resp>>
  /\ UNCHANGED <<pc, thread, n, cnt, pending, armed, parsed>>

-----------------------------------------------------------------------------

Caller == Constructed \/ SetTimeout \/ Poll \/ Parse \/ Joined
Owner  == Caller \/ CallOneReply \/ Quit
Write  == \E w \in Writes : CallbackWrites(w)
Thread == ThreadRuns \/ ThreadEnds \/ Write \/ \E k \in Calls : Dispatch(k)

Next == Owner \/ Thread

\* Each thread goes on when it can; nothing is asked of the bus.
Fairness == WF_vars(Caller) /\ WF_vars(ThreadRuns \/ ThreadEnds) /\ WF_vars(Write)

Spec == Init /\ [][Next]_vars
FairSpec == Spec /\ Fairness

-----------------------------------------------------------------------------
\* Properties.

\* What a caller finds in resp is the whole reply, or an error, for the call it has
\* made: a call that was sent never ends with an empty or a half-written resp or with
\* the reply to an earlier call.  (start, stop, pause and resume decide by resp alone.)
OwnReply ==
  faults = {} /\ parsed.call # 0 =>
    parsed.resp.of = parsed.call /\ parsed.resp.what \in {"reply", "error", "refused"}

\* No callback writes to the stack frame of a callSync that has returned: the bus's
\* timer ends every call before the poll does.
NoStrayWrite == faults = {} => ~stray

\* callSync returns, and so does the join of the destructor, whatever the bus and the
\* other thread do.
Returns == pc \in {"timer", "poll", "parse", "join"} ~> pc \in {"loop", "closed"}

\* The request to quit is not lost on a loop that has not begun to run: the thread that
\* the destructor joins ends.
QuitHeard == pc = "join" => thread \in {"quit", "ended"}
=============================================================================
