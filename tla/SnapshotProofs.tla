---------------------------- MODULE SnapshotProofs ----------------------------
(***************************************************************************)
(* Proofs about Snapshot, for any number of snapshots and any Env.         *)
(***************************************************************************)
EXTENDS Snapshot, TLAPS

\* takeSnapshot is not in progress, and its last child has been waited for.
Idle == pc \in {"loop", "join", "closed"}

\* From the subscription to the end of the poll.
Subscribed == pc \in {"insert", "start", "clear", "poll"}

\* The children before the current one are gone, the later ones not forked, and the
\* current one has been told nothing before the subscription. Once takeSnapshot
\* waits for it, it is over, unless it was given up.
ChildrenInv ==
  /\ n = 0 => Idle
  /\ \A s \in Snapshots : (s < n => child[s] = "gone") /\ (s > n => child[s] = "none")
  /\ Idle /\ n > 0 => child[n] = "gone"
  /\ pc \in {"subscribe", "insert"} => child[n] = "forked"
  /\ pc = "wait" => gaveUp \/ child[n] # "told"

\* Until a snapshot is given up, an end of stream on its way is that of the
\* current one, and takeSnapshot does not return before it has arrived.
SentInv ==
  /\ \A s \in sent : child[s] \in {"captured", "gone"}
  /\ pc = "stop" => gaveUp
  /\ gaveUp \/ (\A s \in sent : s = n /\ ~Idle /\ pc \notin {"subscribe", "insert", "wait"})

\* PollSound, with what it needs: the end of stream it saw is no longer on its way.
EosInv ==
  pc = "poll" /\ mEos => gaveUp \/ (child[n] \in {"captured", "gone"} /\ n \notin sent)

\* The callback of snapshot n finds its own subscription alone and last.
OwnCallback ==
  /\ child[n] # "forked" /\ key = n
  /\ \/ erasing = 0 /\ subscribed = {n}
     \/ erasing = n /\ subscribed = {}

\* One that was held up until the next subscription may cancel that one, and the current
\* snapshot will then be given up.
LateCallback ==
  \/ /\ pc \in {"subscribe", "wait"} /\ child[n] = "forked" /\ key = n - 1
     /\ \/ erasing = 0 /\ subscribed = {n - 1}
        \/ erasing = n - 1 /\ subscribed = {}
  \/ /\ Subscribed /\ "stall" \in faults /\ key = n
     /\ \/ erasing = 0 /\ subscribed = {n - 1, n}
        \/ erasing = n - 1 /\ subscribed = {n}
        \/ erasing = n /\ subscribed = {n - 1}

\* Until a snapshot is given up, these are all the callbacks there can be.
SubscriptionInv ==
  gaveUp \/
    /\ callback \in {0, n - 1, n}
    /\ callback = n /\ n > 0 => OwnCallback
    /\ callback = n - 1 /\ n > 1 => LateCallback
    /\ callback = 0 /\ Subscribed =>
         subscribed \in {{}, {n - 1}} \/ (subscribed = {n} /\ key = n)
    /\ callback = 0 /\ ~Subscribed => subscribed = {}
    /\ pc = "poll" /\ mEos => callback = n \/ (callback = 0 /\ subscribed = {})

\* A key is erased after its subscription was cancelled and before it is used again:
\* it never is.
HandlerInv ==
  /\ HandlersAlive
  /\ key <= n /\ erasing <= n /\ erasing \notin subscribed
  /\ erasing # 0 => callback # 0
  /\ pc = "subscribe" => key < n /\ erasing < n
  /\ pc = "insert" => key = n

\* While nothing was late, early or held up, the end of stream that the poll waits for
\* has come, or will come to a live subscription.
PunctualInv ==
  \/ faults \cap {"slow", "fast", "stall"} # {}
  \/ /\ ~gaveUp
     /\ Subscribed => callback = 0 \/ (pc = "poll" /\ mEos)
     /\ pc \in {"insert", "start", "clear"} => subscribed = {n}
     /\ pc \in {"start", "clear"} => child[n] = "told"
     /\ pc = "poll" => mEos \/ (subscribed = {n} /\ EosComing)

IInv ==
  TypeOK /\ ChildrenInv /\ SentInv /\ EosInv /\ SubscriptionInv /\ HandlerInv /\ PunctualInv

\* Before the first snapshot nothing has been forked or sent.
LEMMA InitIInv == Init => IInv
<1> SUFFICES ASSUME Init PROVE IInv
  OBVIOUS
<1> USE SnapshotAssumption DEF Init, InitWithKey
<1>1. TypeOK
  <2>1. child \in [Snapshots -> {"none", "forked", "told", "captured", "stopped", "gone"}]
    BY Zenon
  <2>2. 0 \in 0..MaxSnapshots
    OBVIOUS
  <2>3. pc \in {"loop", "subscribe", "insert", "start", "clear", "poll", "stop", "wait", "join",
                "closed"}
    OBVIOUS
  <2>4. mEos \in BOOLEAN /\ gaveUp \in BOOLEAN
    OBVIOUS
  <2>5. {} \in SUBSET Snapshots /\ {} \in SUBSET Faults
    OBVIOUS
  <2> QED
    BY <2>1, <2>2, <2>3, <2>4, <2>5, Zenon DEF TypeOK
<1>2. ChildrenInv
  BY DEF ChildrenInv, Idle, Snapshots
<1>3. SentInv /\ EosInv /\ SubscriptionInv
  BY DEF SentInv, EosInv, SubscriptionInv, Subscribed
<1>4. HandlerInv /\ PunctualInv
  BY DEF HandlerInv, HandlersAlive, PunctualInv, Subscribed
<1> QED
  BY <1>1, <1>2, <1>3, <1>4 DEF IInv

\* No step leaves the types.
LEMMA TypeStep == IInv /\ [Next]_vars => TypeOK'
<1> SUFFICES ASSUME IInv, [Next]_vars PROVE TypeOK'
  OBVIOUS
<1> USE SnapshotAssumption DEF IInv, TypeOK, Snapshots, Faults, mapVars
<1>1. CASE TakeSnapshot
  BY <1>1 DEF TakeSnapshot
<1>2. CASE Subscribe
  <2>1. n \in Snapshots
    BY <1>2 DEF Subscribe, ChildrenInv, Idle
  <2>2. faults' \subseteq Faults
    <3>1. {"stall"} \subseteq Faults /\ {"subscribeFail"} \subseteq Faults
      OBVIOUS
    <3> QED
      BY <1>2, <3>1 DEF Subscribe, LSCall
  <2>3. key' \in 0..MaxSnapshots /\ subscribed' \subseteq Snapshots
    BY <1>2, <2>1 DEF Subscribe, LSCall
  <2>4. pc' \in {"insert", "wait"}
    BY <1>2 DEF Subscribe, LSCall
  <2> QED
    BY <1>2, <2>2, <2>3, <2>4 DEF Subscribe
<1>3. CASE Inserted
  <2>1. n \in Snapshots /\ key = n
    BY <1>3 DEF Inserted, ChildrenInv, Idle, HandlerInv
  <2> QED
    BY <1>3, <2>1 DEF Inserted
<1>4. CASE StartReturns
  BY <1>4 DEF StartReturns
<1>5. CASE ClearEos
  BY <1>5 DEF ClearEos
<1>6. CASE Captured
  BY <1>6 DEF Captured
<1>7. CASE GiveUp
  BY <1>7 DEF GiveUp, EosComing
<1>8. CASE StopReturns
  BY <1>8 DEF StopReturns
<1>9. CASE Waited
  BY <1>9 DEF Waited
<1>10. CASE Close
  BY <1>10 DEF Close
<1>11. CASE Closed
  BY <1>11 DEF Closed
<1>12. CASE Unsubscribe
  BY <1>12 DEF Unsubscribe
<1>13. CASE Erased
  BY <1>13 DEF Erased
<1>14. ASSUME NEW s \in Snapshots, EosArrives(s) PROVE TypeOK'
  <2>1. s \in 0..MaxSnapshots
    OBVIOUS
  <2>2. mEos' \in BOOLEAN /\ callback' \in 0..MaxSnapshots
    BY <1>14, <2>1, Zenon DEF EosArrives
  <2>3. sent' \subseteq Snapshots
    BY <1>14 DEF EosArrives
  <2> QED
    BY <1>14, <2>2, <2>3 DEF EosArrives
<1>15. ASSUME NEW s \in Snapshots, Capture(s) PROVE TypeOK'
  BY <1>15 DEF Capture
<1>16. ASSUME NEW s \in Snapshots, ChildExit(s) PROVE TypeOK'
  BY <1>16 DEF ChildExit
<1>17. CASE UNCHANGED vars
  BY <1>17 DEF vars
<1> QED
  BY <1>1, <1>2, <1>3, <1>4, <1>5, <1>6, <1>7, <1>8, <1>9,
     <1>10, <1>11, <1>12, <1>13, <1>14, <1>15, <1>16, <1>17 DEF Next, Main, Callback

\* Children end, and are waited for, in the order of the snapshots.
LEMMA ChildrenStep == IInv /\ [Next]_vars => ChildrenInv'
<1> SUFFICES ASSUME IInv, [Next]_vars PROVE ChildrenInv'
  OBVIOUS
<1> USE SnapshotAssumption DEF IInv, TypeOK, ChildrenInv, SentInv, EosInv, Idle, Snapshots, mapVars
<1>1. CASE TakeSnapshot
  BY <1>1 DEF TakeSnapshot
<1>2. CASE Subscribe
  BY <1>2 DEF Subscribe, LSCall
<1>3. CASE Inserted
  BY <1>3 DEF Inserted
<1>4. CASE StartReturns
  BY <1>4 DEF StartReturns
<1>5. CASE ClearEos
  BY <1>5 DEF ClearEos
<1>6. CASE Captured
  BY <1>6 DEF Captured
<1>7. CASE GiveUp
  BY <1>7 DEF GiveUp, EosComing
<1>8. CASE StopReturns
  BY <1>8 DEF StopReturns
<1>9. CASE Waited
  BY <1>9 DEF Waited
<1>10. CASE Close
  BY <1>10 DEF Close
<1>11. CASE Closed
  BY <1>11 DEF Closed
<1>12. CASE Unsubscribe
  BY <1>12 DEF Unsubscribe
<1>13. CASE Erased
  BY <1>13 DEF Erased
<1>14. ASSUME NEW s \in Snapshots, EosArrives(s) PROVE ChildrenInv'
  BY <1>14 DEF EosArrives
<1>15. ASSUME NEW s \in Snapshots, Capture(s) PROVE ChildrenInv'
  BY <1>15 DEF Capture
<1>16. ASSUME NEW s \in Snapshots, ChildExit(s) PROVE ChildrenInv'
  BY <1>16 DEF ChildExit
<1>17. CASE UNCHANGED vars
  BY <1>17 DEF vars
<1> QED
  BY <1>1, <1>2, <1>3, <1>4, <1>5, <1>6, <1>7, <1>8, <1>9,
     <1>10, <1>11, <1>12, <1>13, <1>14, <1>15, <1>16, <1>17 DEF Next, Main, Callback

\* Each end of stream has arrived before its snapshot returns.
LEMMA SentStep == IInv /\ [Next]_vars => (SentInv /\ EosInv)'
<1> SUFFICES ASSUME IInv, [Next]_vars PROVE (SentInv /\ EosInv)'
  OBVIOUS
<1> USE SnapshotAssumption DEF IInv, TypeOK, ChildrenInv, SentInv, EosInv, Idle, Snapshots, mapVars
<1>1. CASE TakeSnapshot
  BY <1>1 DEF TakeSnapshot
<1>2. CASE Subscribe
  BY <1>2 DEF Subscribe, LSCall
<1>3. CASE Inserted
  BY <1>3 DEF Inserted
<1>4. CASE StartReturns
  BY <1>4 DEF StartReturns
<1>5. CASE ClearEos
  BY <1>5 DEF ClearEos
<1>6. CASE Captured
  BY <1>6 DEF Captured
<1>7. CASE GiveUp
  BY <1>7 DEF GiveUp, EosComing
<1>8. CASE StopReturns
  BY <1>8 DEF StopReturns
<1>9. CASE Waited
  BY <1>9 DEF Waited
<1>10. CASE Close
  BY <1>10 DEF Close
<1>11. CASE Closed
  BY <1>11 DEF Closed
<1>12. CASE Unsubscribe
  BY <1>12 DEF Unsubscribe
<1>13. CASE Erased
  BY <1>13 DEF Erased
<1>14. ASSUME NEW s \in Snapshots, EosArrives(s) PROVE (SentInv /\ EosInv)'
  BY <1>14 DEF EosArrives
<1>15. ASSUME NEW s \in Snapshots, Capture(s) PROVE (SentInv /\ EosInv)'
  BY <1>15 DEF Capture
<1>16. ASSUME NEW s \in Snapshots, ChildExit(s) PROVE (SentInv /\ EosInv)'
  BY <1>16 DEF ChildExit
<1>17. CASE UNCHANGED vars
  BY <1>17 DEF vars
<1> QED
  BY <1>1, <1>2, <1>3, <1>4, <1>5, <1>6, <1>7, <1>8, <1>9,
     <1>10, <1>11, <1>12, <1>13, <1>14, <1>15, <1>16, <1>17 DEF Next, Main, Callback

\* No step makes another callback.
LEMMA SubscriptionStep == IInv /\ [Next]_vars => SubscriptionInv'
<1> SUFFICES ASSUME IInv, [Next]_vars PROVE SubscriptionInv'
  OBVIOUS
<1> USE SnapshotAssumption DEF IInv, TypeOK, ChildrenInv, SentInv, EosInv, SubscriptionInv, HandlerInv,
                               OwnCallback, LateCallback, Subscribed, Idle, Snapshots, mapVars
<1>1. CASE TakeSnapshot
  BY <1>1 DEF TakeSnapshot
<1>2. CASE Subscribe
  <2>1. CASE pc' = "insert"
    <3>1. /\ key' = n /\ subscribed' = subscribed \cup {n}
          /\ UNCHANGED <<n, mEos, callback, erasing, child, gaveUp>>
          /\ callback # 0 => "stall" \in faults'
      BY <1>2, <2>1 DEF Subscribe, LSCall
    <3>2. n \in Snapshots /\ child[n] = "forked" /\ pc = "subscribe"
      BY <1>2 DEF Subscribe
    <3>3. CASE callback = 0
      <4>1. gaveUp \/ subscribed' = {n}
        BY <3>1, <3>2, <3>3
      <4>2. n > 0 /\ callback' = 0
        BY <3>1, <3>2, <3>3
      <4> QED
        BY <2>1, <3>1, <4>1, <4>2
    <3>4. CASE callback # 0 /\ ~gaveUp
      <4>1. callback = n - 1 /\ n > 1 /\ key = n - 1 /\ erasing \in {0, n - 1}
        BY <3>2, <3>4
      <4>2. (erasing = 0 /\ subscribed = {n - 1}) \/ (erasing = n - 1 /\ subscribed = {})
        BY <3>2, <3>4, <4>1
      <4>3. LateCallback'
        BY <2>1, <3>1, <3>2, <3>4, <4>1, <4>2
      <4> QED
        BY <2>1, <3>1, <3>2, <3>4, <4>1, <4>3
    <3> QED
      BY <3>1, <3>3, <3>4
  <2>2. CASE pc' = "wait"
    BY <1>2, <2>2 DEF Subscribe, LSCall
  <2> QED
    BY <1>2, <2>1, <2>2 DEF Subscribe, LSCall
<1>3. CASE Inserted
  BY <1>3 DEF Inserted
<1>4. CASE StartReturns
  BY <1>4 DEF StartReturns
<1>5. CASE ClearEos
  BY <1>5 DEF ClearEos
<1>6. CASE Captured
  BY <1>6 DEF Captured
<1>7. CASE GiveUp
  BY <1>7 DEF GiveUp, EosComing
<1>8. CASE StopReturns
  BY <1>8 DEF StopReturns
<1>9. CASE Waited
  BY <1>9 DEF Waited
<1>10. CASE Close
  BY <1>10 DEF Close
<1>11. CASE Closed
  BY <1>11 DEF Closed
<1>12. CASE Unsubscribe
  BY <1>12 DEF Unsubscribe
<1>13. CASE Erased
  BY <1>13 DEF Erased
<1>14. ASSUME NEW s \in Snapshots, EosArrives(s) PROVE SubscriptionInv'
  BY <1>14 DEF EosArrives
<1>15. ASSUME NEW s \in Snapshots, Capture(s) PROVE SubscriptionInv'
  BY <1>15 DEF Capture
<1>16. ASSUME NEW s \in Snapshots, ChildExit(s) PROVE SubscriptionInv'
  BY <1>16 DEF ChildExit
<1>17. CASE UNCHANGED vars
  BY <1>17 DEF vars
<1> QED
  BY <1>1, <1>2, <1>3, <1>4, <1>5, <1>6, <1>7, <1>8, <1>9,
     <1>10, <1>11, <1>12, <1>13, <1>14, <1>15, <1>16, <1>17 DEF Next, Main, Callback

\* No step frees the handler of a live subscription.
LEMMA HandlerStep == IInv /\ [Next]_vars => HandlerInv'
<1> SUFFICES ASSUME IInv, [Next]_vars PROVE HandlerInv'
  OBVIOUS
<1> USE SnapshotAssumption DEF IInv, TypeOK, HandlerInv, HandlersAlive, Snapshots, mapVars
<1>1. CASE TakeSnapshot
  BY <1>1 DEF TakeSnapshot
<1>2. CASE Subscribe
  <2>1. CASE pc' = "insert"
    <3>1. /\ key' = n /\ subscribed' = subscribed \cup {n}
          /\ UNCHANGED <<n, handlers, callback, erasing>>
      BY <1>2, <2>1 DEF Subscribe, LSCall
    <3>2. subscribed \subseteq handlers /\ erasing < n
      BY <1>2 DEF Subscribe
    <3> QED
      BY <2>1, <3>1, <3>2
  <2>2. CASE pc' = "wait"
    BY <1>2, <2>2 DEF Subscribe, LSCall
  <2> QED
    BY <1>2, <2>1, <2>2 DEF Subscribe, LSCall
<1>3. CASE Inserted
  BY <1>3 DEF Inserted
<1>4. CASE StartReturns
  BY <1>4 DEF StartReturns
<1>5. CASE ClearEos
  BY <1>5 DEF ClearEos
<1>6. CASE Captured
  BY <1>6 DEF Captured
<1>7. CASE GiveUp
  BY <1>7 DEF GiveUp, EosComing
<1>8. CASE StopReturns
  BY <1>8 DEF StopReturns
<1>9. CASE Waited
  BY <1>9 DEF Waited
<1>10. CASE Close
  BY <1>10 DEF Close
<1>11. CASE Closed
  BY <1>11 DEF Closed
<1>12. CASE Unsubscribe
  BY <1>12 DEF Unsubscribe
<1>13. CASE Erased
  BY <1>13 DEF Erased
<1>14. ASSUME NEW s \in Snapshots, EosArrives(s) PROVE HandlerInv'
  BY <1>14 DEF EosArrives
<1>15. ASSUME NEW s \in Snapshots, Capture(s) PROVE HandlerInv'
  BY <1>15 DEF Capture
<1>16. ASSUME NEW s \in Snapshots, ChildExit(s) PROVE HandlerInv'
  BY <1>16 DEF ChildExit
<1>17. CASE UNCHANGED vars
  BY <1>17 DEF vars
<1> QED
  BY <1>1, <1>2, <1>3, <1>4, <1>5, <1>6, <1>7, <1>8, <1>9,
     <1>10, <1>11, <1>12, <1>13, <1>14, <1>15, <1>16, <1>17 DEF Next, Main, Callback

\* Only a fault makes a snapshot give up.
LEMMA PunctualStep == IInv /\ [Next]_vars => PunctualInv'
<1> SUFFICES ASSUME IInv, [Next]_vars PROVE PunctualInv'
  OBVIOUS
<1> USE SnapshotAssumption DEF IInv, TypeOK, ChildrenInv, SentInv, EosInv, SubscriptionInv, PunctualInv,
                               OwnCallback, LateCallback, Subscribed, EosComing, Idle, Snapshots, mapVars
<1>1. CASE TakeSnapshot
  BY <1>1 DEF TakeSnapshot
<1>2. CASE Subscribe
  BY <1>2 DEF Subscribe, LSCall
<1>3. CASE Inserted
  BY <1>3 DEF Inserted
<1>4. CASE StartReturns
  BY <1>4 DEF StartReturns
<1>5. CASE ClearEos
  BY <1>5 DEF ClearEos
<1>6. CASE Captured
  BY <1>6 DEF Captured
<1>7. CASE GiveUp
  BY <1>7 DEF GiveUp
<1>8. CASE StopReturns
  BY <1>8 DEF StopReturns
<1>9. CASE Waited
  BY <1>9 DEF Waited
<1>10. CASE Close
  BY <1>10 DEF Close
<1>11. CASE Closed
  BY <1>11 DEF Closed
<1>12. CASE Unsubscribe
  BY <1>12 DEF Unsubscribe
<1>13. CASE Erased
  BY <1>13 DEF Erased
<1>14. ASSUME NEW s \in Snapshots, EosArrives(s) PROVE PunctualInv'
  BY <1>14 DEF EosArrives
<1>15. ASSUME NEW s \in Snapshots, Capture(s) PROVE PunctualInv'
  BY <1>15 DEF Capture
<1>16. ASSUME NEW s \in Snapshots, ChildExit(s) PROVE PunctualInv'
  BY <1>16 DEF ChildExit
<1>17. CASE UNCHANGED vars
  BY <1>17 DEF vars
<1> QED
  BY <1>1, <1>2, <1>3, <1>4, <1>5, <1>6, <1>7, <1>8, <1>9,
     <1>10, <1>11, <1>12, <1>13, <1>14, <1>15, <1>16, <1>17 DEF Next, Main, Callback

\* Each step of either thread and of the children preserves the invariant.
LEMMA NextIInv == IInv /\ [Next]_vars => IInv'
BY TypeStep, ChildrenStep, SentStep, SubscriptionStep, HandlerStep, PunctualStep DEF IInv

\* The invariant holds in every reachable state.
LEMMA SpecIInv == Spec => []IInv
BY InitIInv, NextIInv, PTL DEF Spec

\* Type correctness: no key, callback or end of stream of a snapshot never taken.
THEOREM TypeCorrect == Spec => []TypeOK
<1>1. IInv => TypeOK
  BY DEF IInv
<1> QED
  BY <1>1, SpecIInv, PTL

\* However slow or fast captures are and wherever the callback is held up, the poll of
\* mEos ends early only for a snapshot that has been captured, or after one was given up.
THEOREM PollIsSound == Spec => []PollSound
<1>1. IInv => PollSound
  BY DEF IInv, EosInv, PollSound
<1> QED
  BY <1>1, SpecIInv, PTL

\* Wherever the callback is held up, a subscription is left behind only by a snapshot
\* that was given up.
THEOREM NoneLeft == Spec => []SubscriptionsCancelled
<1>1. IInv => SubscriptionsCancelled
  BY DEF IInv, SubscriptionInv, SubscriptionsCancelled, Subscribed
<1> QED
  BY <1>1, SpecIInv, PTL

\* Unless a capture is late or outruns the main thread, or a callback is held up, no
\* snapshot is given up, however many were taken before.
THEOREM NoneGivenUp == Spec => []NeverGivenUp
<1>1. IInv => NeverGivenUp
  BY DEF IInv, PunctualInv, NeverGivenUp
<1> QED
  BY <1>1, SpecIInv, PTL

\* Until a snapshot is given up or a callback held up, the waits of the main thread keep
\* the two threads apart in handlers_, which has no lock.
THEOREM MapIsUnshared == Spec => []MapUnshared
<1>1. IInv => MapUnshared
  <2> SUFFICES ASSUME IInv, pc = "insert", erasing # 0, ~gaveUp PROVE "stall" \in faults
    BY DEF MapUnshared
  <2>1. n \in Nat /\ n > 0 /\ callback \in {n - 1, n} /\ callback # 0
    BY SnapshotAssumption DEF IInv, TypeOK, ChildrenInv, SubscriptionInv, HandlerInv, Idle
  <2>2. ~OwnCallback
    BY DEF IInv, ChildrenInv, OwnCallback
  <2>3. LateCallback
    BY <2>1, <2>2 DEF IInv, SubscriptionInv
  <2> QED
    BY <2>3 DEF LateCallback
<1> QED
  BY <1>1, SpecIInv, PTL

\* A message always finds its handler, whatever the callbacks erase.
THEOREM HandlersNotFreed == Spec => []HandlersAlive
<1>1. IInv => HandlersAlive
  BY DEF IInv, HandlerInv
<1> QED
  BY <1>1, SpecIInv, PTL
=============================================================================
