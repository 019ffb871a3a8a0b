------------------------------ MODULE Snapshot ------------------------------
(***************************************************************************)
(* The snapshots of one MediaRecorder: takeSnapshot on the main thread of  *)
(* the service, snapshotCb on the "snapshot" thread of snapshot_client,    *)
(* and one g-record-pipeline child for each snapshot.                      *)
(*                                                                         *)
(* The two threads share mEos, subscribeKey_ and the map handlers_ without *)
(* a lock, and a snapshot that was given up may still send its end of      *)
(* stream, so what the callback does can hit a later snapshot than the one *)
(* it is about.  RecorderService abstracts this module: PollSound is the   *)
(* guard of its SnapshotEos.                                               *)
(***************************************************************************)
EXTENDS Naturals

CONSTANT MaxSnapshots  \* BOUND: snapshots of the recorder

ASSUME SnapshotAssumption == MaxSnapshots \in Nat

\* What may go wrong:
\*   "slow"           ten seconds go by before a snapshot has been captured
\*   "fast"           a snapshot is captured before mEos is cleared for it
\*   "stall"          the callback is held up until the next snapshot subscribes
\*   "subscribeFail"  LSCall refuses the subscription
Faults == {"slow", "fast", "stall", "subscribeFail"}

VARIABLES
  pc,         \* where the main thread is
  n,          \* the current snapshot; it is also its subscription's key
  mEos,
  key,        \* subscribeKey_
  subscribed, \* the keys whose subscription has not been cancelled
  handlers,   \* the keys with an entry in handlers_
  callback,   \* the snapshot whose end of stream snapshotCb is handling, or 0
  erasing,    \* the key it has cancelled and is erasing from handlers_, or 0
  child,      \* the child of each snapshot
  sent,       \* snapshots whose end of stream was sent and has not arrived
  gaveUp,     \* some snapshot was given up
  faults      \* history: what has gone wrong

vars == <<pc, n, mEos, key, subscribed, handlers, callback, erasing, child, sent, gaveUp,
          faults>>

\* What subscribe and unsubscribe share.
mapVars == <<key, subscribed, handlers, callback, erasing>>

Snapshots == 1..MaxSnapshots

TypeOK ==
  /\ pc \in {"loop", "subscribe", "insert", "start", "clear", "poll", "stop", "wait", "join",
             "closed"}
  /\ n \in 0..MaxSnapshots /\ key \in 0..MaxSnapshots
  /\ callback \in 0..MaxSnapshots /\ erasing \in 0..MaxSnapshots
  /\ mEos \in BOOLEAN /\ gaveUp \in BOOLEAN
  /\ subscribed \subseteq Snapshots /\ handlers \subseteq Snapshots /\ sent \subseteq Snapshots
  /\ child \in [Snapshots -> {"none", "forked", "told", "captured", "stopped", "gone"}]
  /\ faults \subseteq Faults

InitWithKey(k) ==
  /\ pc = "loop" /\ n = 0 /\ mEos = FALSE /\ key = k /\ callback = 0 /\ erasing = 0
  /\ subscribed = {} /\ handlers = {} /\ sent = {} /\ gaveUp = FALSE /\ faults = {}
  /\ child = [s \in Snapshots |-> "none"]

\* Mutant: subscribeKey_ has no initializer.
InitAnyKey == InitWithKey(MaxSnapshots + 1)

Init == InitWithKey(0)

-----------------------------------------------------------------------------
\* The main thread: takeSnapshot.

TakeSnapshot ==
  /\ pc = "loop" /\ n < MaxSnapshots
  /\ n' = n + 1
  /\ child' = [child EXCEPT ![n + 1] = "forked"]
  /\ pc' = "subscribe"
  /\ UNCHANGED <<mEos, mapVars, sent, gaveUp, faults>>

\* LSCall, with the key it stores and the handler that goes into handlers_ next.
LSCall(k) ==
  \/ /\ key' = k /\ subscribed' = subscribed \cup {n}
     /\ faults' = faults \cup (IF callback = 0 THEN {} ELSE {"stall"})
     /\ pc' = "insert"
  \/ /\ faults' = faults \cup {"subscribeFail"}
     /\ pc' = "wait"
     /\ UNCHANGED <<key, subscribed>>

\* Mutant: the key of the first subscription is kept.
SubscribeKeepsKey ==
  /\ pc = "subscribe"
  /\ LSCall(IF key = 0 THEN n ELSE key)
  /\ UNCHANGED <<n, mEos, handlers, callback, erasing, child, sent, gaveUp>>

\* Mutant: a client that has subscribed before does not subscribe again.
SubscribeOnce ==
  /\ pc = "subscribe"
  /\ IF key = 0 THEN LSCall(n) ELSE pc' = "insert" /\ UNCHANGED <<key, subscribed, faults>>
  /\ UNCHANGED <<n, mEos, handlers, callback, erasing, child, sent, gaveUp>>

Subscribe ==
  /\ pc = "subscribe"
  /\ LSCall(n)
  /\ UNCHANGED <<n, mEos, handlers, callback, erasing, child, sent, gaveUp>>

\* The handler has been put into handlers_, in the place of one that has the same key.
Inserted ==
  /\ pc = "insert"
  /\ handlers' = handlers \cup {key}
  /\ child' = [child EXCEPT ![n] = "told"]
  /\ pc' = "start"
  /\ UNCHANGED <<n, mEos, key, subscribed, callback, erasing, sent, gaveUp, faults>>

\* callSync returns, whatever the reply.
StartReturns ==
  /\ pc = "start"
  /\ pc' = "clear"
  /\ UNCHANGED <<n, mEos, mapVars, child, sent, gaveUp, faults>>

\* Mutant: mEos keeps its value from the snapshot before.
KeepEos ==
  /\ pc = "clear"
  /\ pc' = "poll"
  /\ UNCHANGED <<n, mEos, mapVars, child, sent, gaveUp, faults>>

ClearEos ==
  /\ pc = "clear"
  /\ mEos' = FALSE /\ pc' = "poll"
  /\ UNCHANGED <<n, mapVars, child, sent, gaveUp, faults>>

\* Mutant: a start without an answer is not waited for.
CapturedAtOnce ==
  /\ pc = "poll"
  /\ pc' = "wait"
  /\ UNCHANGED <<n, mEos, mapVars, child, sent, gaveUp, faults>>

Captured ==
  /\ pc = "poll" /\ mEos
  /\ pc' = "wait"
  /\ UNCHANGED <<n, mEos, mapVars, child, sent, gaveUp, faults>>

\* What will set mEos for this snapshot is on its way.
EosComing == child[n] = "told" \/ (n \in sent /\ n \in subscribed)

\* Ten seconds went by; the child is told to stop.
GiveUp ==
  /\ pc = "poll"
  /\ gaveUp' = TRUE
  /\ faults' = faults \cup (IF mEos \/ EosComing THEN {"slow"} ELSE {})
  /\ pc' = "stop"
  /\ UNCHANGED <<n, mEos, mapVars, child, sent>>

StopReturns ==
  /\ pc = "stop"
  /\ child' = [child EXCEPT ![n] = IF @ = "told" THEN "stopped" ELSE @]
  /\ pc' = "wait"
  /\ UNCHANGED <<n, mEos, mapVars, sent, gaveUp, faults>>

\* The destructor of snapshot_process has waited for the child.
Waited ==
  /\ pc = "wait" /\ child[n] = "gone"
  /\ pc' = "loop"
  /\ UNCHANGED <<n, mEos, mapVars, child, sent, gaveUp, faults>>

\* The recorder is destroyed: the loop of snapshot_client is told to quit.
Close ==
  /\ pc = "loop"
  /\ pc' = "join"
  /\ UNCHANGED <<n, mEos, mapVars, child, sent, gaveUp, faults>>

\* Its thread has ended.
Closed ==
  /\ pc = "join" /\ callback = 0
  /\ pc' = "closed"
  /\ UNCHANGED <<n, mEos, mapVars, child, sent, gaveUp, faults>>

-----------------------------------------------------------------------------
\* The snapshot thread: snapshotCb.

\* The message of a cancelled subscription goes nowhere.
EosArrives(s) ==
  /\ callback = 0 /\ s \in sent /\ pc \notin {"join", "closed"}
  /\ sent' = sent \ {s}
  /\ IF s \in subscribed THEN mEos' = TRUE /\ callback' = s
     ELSE UNCHANGED <<mEos, callback>>
  /\ UNCHANGED <<pc, n, key, subscribed, handlers, erasing, child, gaveUp, faults>>

\* Mutant: the entry is erased before the subscription is cancelled.
EraseFirst ==
  /\ callback # 0 /\ erasing = 0
  /\ handlers' = handlers \ {key} /\ erasing' = key
  /\ UNCHANGED <<pc, n, mEos, key, subscribed, callback, child, sent, gaveUp, faults>>

\* unsubscribe cancels the subscription made last.
Unsubscribe ==
  /\ callback # 0 /\ erasing = 0
  /\ subscribed' = subscribed \ {key} /\ erasing' = key
  /\ UNCHANGED <<pc, n, mEos, key, handlers, callback, child, sent, gaveUp, faults>>

\* Its handler has been erased.
Erased ==
  /\ erasing # 0
  /\ handlers' = handlers \ {erasing} /\ erasing' = 0 /\ callback' = 0
  /\ UNCHANGED <<pc, n, mEos, key, subscribed, child, sent, gaveUp, faults>>

-----------------------------------------------------------------------------
\* The children, as RecordPipeline has them.

\* A snapshot has been captured: its end of stream is sent and the child ends.
Capture(s) ==
  /\ child[s] = "told"
  /\ child' = [child EXCEPT ![s] = "captured"]
  /\ sent' = sent \cup {s}
  /\ faults' = faults \cup (IF pc \in {"poll", "stop"} THEN {} ELSE {"fast"})
  /\ UNCHANGED <<pc, n, mEos, mapVars, gaveUp>>

ChildExit(s) ==
  /\ child[s] \in {"captured", "stopped"}
  /\ child' = [child EXCEPT ![s] = "gone"]
  /\ UNCHANGED <<pc, n, mEos, mapVars, sent, gaveUp, faults>>

-----------------------------------------------------------------------------

Main ==
  \/ TakeSnapshot \/ Subscribe \/ Inserted \/ StartReturns \/ ClearEos \/ Captured \/ GiveUp
  \/ StopReturns \/ Waited \/ Close \/ Closed

Callback == Unsubscribe \/ Erased \/ \E s \in Snapshots : EosArrives(s)

Next == Main \/ Callback \/ \E s \in Snapshots : Capture(s) \/ ChildExit(s)

Spec == Init /\ [][Next]_vars

-----------------------------------------------------------------------------
\* Properties.

\* The poll of mEos ends only for a snapshot that has been captured, as long as none
\* was given up before: no end of stream is taken for that of a later snapshot.
PollSound == pc = "poll" /\ mEos => gaveUp \/ child[n] \in {"captured", "gone"}

\* Unless a capture takes ten seconds or outruns the main thread, or the callback is held
\* up, no snapshot is given up: each has a live subscription when its end of stream
\* comes, whatever the callbacks of the snapshots before did to subscribeKey_ and mEos.
NeverGivenUp == gaveUp => faults \cap {"slow", "fast", "stall"} # {}

\* Between snapshots no subscription is left behind, although the callback cancels the
\* one made last and not its own; only a snapshot that was given up leaves one.
SubscriptionsCancelled == pc = "loop" /\ callback = 0 => gaveUp \/ subscribed = {}

\* Although handlers_ has no lock, the two threads are never in it at once, unless the
\* callback is held up or the end of stream of a snapshot that was given up comes in.
MapUnshared == pc = "insert" /\ erasing # 0 => gaveUp \/ "stall" \in faults

\* The handler of a subscription that can still deliver is never freed, whatever the
\* callback erases and whichever key the next subscription has stored by then.
HandlersAlive == subscribed \ (IF pc = "insert" THEN {n} ELSE {}) \subseteq handlers
=============================================================================
