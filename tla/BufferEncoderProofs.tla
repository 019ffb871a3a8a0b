------------------------- MODULE BufferEncoderProofs -------------------------
(***************************************************************************)
(* Proofs about BufferEncoder, for either build, any bit rates and any     *)
(* number of pipelines and buffers.                                        *)
(***************************************************************************)
EXTENDS BufferEncoder, TLAPS

\* Where the owner's thread is, against the pipeline it would stop.
PipelineInv ==
  /\ pipeline_ <= made /\ source_ <= made /\ encoder_ <= made
  /\ \A p \in Pipelines : p > made => gst[p] = "none" /\ rate[p] = 0
  /\ \A p \in calling : gst[p] \in {"playing", "stopping"}
  /\ pc \in {"stop", "delete"} => pipeline_ # 0 /\ gst[pipeline_] = "stopping"
  /\ \A p \in Pipelines : gst[p] = "stopping" => p = pipeline_ /\ pc \in {"stop", "delete"}
  /\ pc \in {"idle", "create"} /\ pipeline_ # 0 => gst[pipeline_] \in {"built", "playing"}
  /\ pc = "create" => made < MaxPipelines

\* The member that is fed is of the pipeline that Destroy would stop.
SourceInv == source_ # 0 /\ pipeline_ # 0 => source_ = pipeline_

\* bitrate_ is compared with what is asked for, so it has to be what was.
RateInv ==
  /\ RateApplied
  /\ ready => bitrate_ = wanted \/ pipeline_ = 0
  /\ pc = "create" => ~ready

\* Between buffer_callback_ and the new pipeline, none plays.
StrayInv ==
  /\ NoStray
  /\ pc = "create" => replaced \/ \A p \in Pipelines : gst[p] # "playing" /\ p \notin calling

IInv == TypeOK /\ PipelineInv /\ SourceInv /\ RateInv /\ StrayInv

\* Nothing has been made.
LEMMA InitIInv == Init => IInv
<1> SUFFICES ASSUME Init PROVE IInv
  OBVIOUS
<1> USE EncoderAssumption DEF Init, InitWith
<1>1. TypeOK
  <2>1. /\ gst \in [Pipelines -> {"none", "built", "playing", "stopping", "null"}]
        /\ rate \in [Pipelines -> Rates \cup {0}]
    BY Zenon
  <2>2. queued \in [Pipelines -> 0..MaxQueued]
    <3>1. 0 \in 0..MaxQueued
      OBVIOUS
    <3> QED
      BY <3>1, Zenon
  <2>3. 0 \in OrNull /\ {} \in SUBSET Pipelines
    BY DEF OrNull
  <2>4. ready \in BOOLEAN /\ replaced \in BOOLEAN
    OBVIOUS
  <2>5. pc \in {"idle", "create", "stop", "delete", "gone"} /\ 0 \in Rates \cup {0}
    OBVIOUS
  <2> QED
    BY <2>1, <2>2, <2>3, <2>4, <2>5, Zenon DEF TypeOK
<1>2. PipelineInv /\ SourceInv
  BY DEF PipelineInv, SourceInv, Pipelines
<1>3. RateInv /\ StrayInv
  BY DEF RateInv, StrayInv, RateApplied, NoStray, Pipelines
<1> QED
  BY <1>1, <1>2, <1>3 DEF IInv

\* No step leaves the types.
LEMMA TypeStep == IInv /\ [Next]_vars => TypeOK'
<1> SUFFICES ASSUME IInv, [Next]_vars PROVE TypeOK'
  OBVIOUS
<1> USE EncoderAssumption DEF IInv, TypeOK, PipelineInv, Pipelines, OrNull
<1>1. CASE Initialize
  BY <1>1 DEF Initialize
<1>2. CASE NoPipeline
  BY <1>2 DEF NoPipeline
<1>3. CASE NoSource
  BY <1>3 DEF NoSource, NewPipeline
<1>4. ASSUME NEW profile \in Profiles, NoEncoder(profile) PROVE TypeOK'
  BY <1>4 DEF NoEncoder, NewPipeline
<1>5. ASSUME NEW profile \in Profiles, NotStarted(profile) PROVE TypeOK'
  BY <1>5 DEF NotStarted, NewPipeline
<1>6. ASSUME NEW profile \in Profiles, Started(profile) PROVE TypeOK'
  BY <1>6 DEF Started, NewPipeline
<1>7. CASE Destroy("idle", "stop")
  BY <1>7 DEF Destroy
<1>8. CASE Destroy("gone", "delete")
  BY <1>8 DEF Destroy
<1>9. CASE Destroyed
  BY <1>9 DEF Destroyed, Stopped
<1>10. CASE EncodeBuffer
  BY <1>10 DEF EncodeBuffer
<1>11. ASSUME NEW b \in Rates, UpdateEncodingParams(b) PROVE TypeOK'
  BY <1>11 DEF UpdateEncodingParams
<1>12. ASSUME NEW p \in Pipelines, OnEncodedBuffer(p) PROVE TypeOK'
  BY <1>12 DEF OnEncodedBuffer
<1>13. ASSUME NEW p \in Pipelines, CallbackReturns(p) PROVE TypeOK'
  BY <1>13 DEF CallbackReturns
<1>14. CASE UNCHANGED vars
  BY <1>14 DEF vars
<1> QED
  BY <1>1, <1>2, <1>3, <1>4, <1>5, <1>6, <1>7, <1>8,
     <1>9, <1>10, <1>11, <1>12, <1>13, <1>14 DEF Next, Owner, CreatePipeline

\* A pipeline is stopped by the thread that made it, and only once.
LEMMA PipelineStep == IInv /\ [Next]_vars => PipelineInv'
<1> SUFFICES ASSUME IInv, [Next]_vars PROVE PipelineInv'
  OBVIOUS
<1> USE EncoderAssumption DEF IInv, TypeOK, PipelineInv, Pipelines, OrNull
<1>1. CASE Initialize
  BY <1>1 DEF Initialize
<1>2. CASE NoPipeline
  BY <1>2 DEF NoPipeline
<1>3. CASE NoSource
  BY <1>3 DEF NoSource, NewPipeline
<1>4. ASSUME NEW profile \in Profiles, NoEncoder(profile) PROVE PipelineInv'
  BY <1>4 DEF NoEncoder, NewPipeline
<1>5. ASSUME NEW profile \in Profiles, NotStarted(profile) PROVE PipelineInv'
  BY <1>5 DEF NotStarted, NewPipeline
<1>6. ASSUME NEW profile \in Profiles, Started(profile) PROVE PipelineInv'
  BY <1>6 DEF Started, NewPipeline
<1>7. CASE Destroy("idle", "stop")
  BY <1>7 DEF Destroy
<1>8. CASE Destroy("gone", "delete")
  BY <1>8 DEF Destroy
<1>9. CASE Destroyed
  BY <1>9 DEF Destroyed, Stopped
<1>10. CASE EncodeBuffer
  BY <1>10 DEF EncodeBuffer
<1>11. ASSUME NEW b \in Rates, UpdateEncodingParams(b) PROVE PipelineInv'
  BY <1>11 DEF UpdateEncodingParams
<1>12. ASSUME NEW p \in Pipelines, OnEncodedBuffer(p) PROVE PipelineInv'
  BY <1>12 DEF OnEncodedBuffer
<1>13. ASSUME NEW p \in Pipelines, CallbackReturns(p) PROVE PipelineInv'
  BY <1>13 DEF CallbackReturns
<1>14. CASE UNCHANGED vars
  BY <1>14 DEF vars
<1> QED
  BY <1>1, <1>2, <1>3, <1>4, <1>5, <1>6, <1>7, <1>8,
     <1>9, <1>10, <1>11, <1>12, <1>13, <1>14 DEF Next, Owner, CreatePipeline

\* source_ is assigned whenever pipeline_ is, unless that becomes null.
LEMMA SourceStep == IInv /\ [Next]_vars => SourceInv'
<1> SUFFICES ASSUME IInv, [Next]_vars PROVE SourceInv'
  OBVIOUS
<1> USE EncoderAssumption DEF IInv, TypeOK, PipelineInv, SourceInv, Pipelines, OrNull
<1>1. CASE Initialize
  BY <1>1 DEF Initialize
<1>2. CASE NoPipeline
  BY <1>2 DEF NoPipeline
<1>3. CASE NoSource
  BY <1>3 DEF NoSource, NewPipeline
<1>4. ASSUME NEW profile \in Profiles, NoEncoder(profile) PROVE SourceInv'
  BY <1>4 DEF NoEncoder, NewPipeline
<1>5. ASSUME NEW profile \in Profiles, NotStarted(profile) PROVE SourceInv'
  BY <1>5 DEF NotStarted, NewPipeline
<1>6. ASSUME NEW profile \in Profiles, Started(profile) PROVE SourceInv'
  BY <1>6 DEF Started, NewPipeline
<1>7. CASE Destroy("idle", "stop")
  BY <1>7 DEF Destroy
<1>8. CASE Destroy("gone", "delete")
  BY <1>8 DEF Destroy
<1>9. CASE Destroyed
  BY <1>9 DEF Destroyed, Stopped
<1>10. CASE EncodeBuffer
  BY <1>10 DEF EncodeBuffer
<1>11. ASSUME NEW b \in Rates, UpdateEncodingParams(b) PROVE SourceInv'
  BY <1>11 DEF UpdateEncodingParams
<1>12. ASSUME NEW p \in Pipelines, OnEncodedBuffer(p) PROVE SourceInv'
  BY <1>12 DEF OnEncodedBuffer
<1>13. ASSUME NEW p \in Pipelines, CallbackReturns(p) PROVE SourceInv'
  BY <1>13 DEF CallbackReturns
<1>14. CASE UNCHANGED vars
  BY <1>14 DEF vars
<1> QED
  BY <1>1, <1>2, <1>3, <1>4, <1>5, <1>6, <1>7, <1>8,
     <1>9, <1>10, <1>11, <1>12, <1>13, <1>14 DEF Next, Owner, CreatePipeline

\* bitrate_ follows the rate asked for, and is reset with the encoder.
LEMMA RateStep == IInv /\ [Next]_vars => RateInv'
<1> SUFFICES ASSUME IInv, [Next]_vars PROVE RateInv'
  OBVIOUS
<1> USE EncoderAssumption DEF IInv, TypeOK, PipelineInv, RateInv, RateApplied, Pipelines, OrNull
<1>1. CASE Initialize
  BY <1>1 DEF Initialize
<1>2. CASE NoPipeline
  BY <1>2 DEF NoPipeline
<1>3. CASE NoSource
  BY <1>3 DEF NoSource, NewPipeline
<1>4. ASSUME NEW profile \in Profiles, NoEncoder(profile) PROVE RateInv'
  BY <1>4 DEF NoEncoder, NewPipeline
<1>5. ASSUME NEW profile \in Profiles, NotStarted(profile) PROVE RateInv'
  BY <1>5 DEF NotStarted, NewPipeline
<1>6. ASSUME NEW profile \in Profiles, Started(profile) PROVE RateInv'
  BY <1>6 DEF Started, NewPipeline
<1>7. CASE Destroy("idle", "stop")
  BY <1>7 DEF Destroy
<1>8. CASE Destroy("gone", "delete")
  BY <1>8 DEF Destroy
<1>9. CASE Destroyed
  BY <1>9 DEF Destroyed, Stopped
<1>10. CASE EncodeBuffer
  BY <1>10 DEF EncodeBuffer
<1>11. ASSUME NEW b \in Rates, UpdateEncodingParams(b) PROVE RateInv'
  BY <1>11 DEF UpdateEncodingParams
<1>12. ASSUME NEW p \in Pipelines, OnEncodedBuffer(p) PROVE RateInv'
  BY <1>12 DEF OnEncodedBuffer
<1>13. ASSUME NEW p \in Pipelines, CallbackReturns(p) PROVE RateInv'
  BY <1>13 DEF CallbackReturns
<1>14. CASE UNCHANGED vars
  BY <1>14 DEF vars
<1> QED
  BY <1>1, <1>2, <1>3, <1>4, <1>5, <1>6, <1>7, <1>8,
     <1>9, <1>10, <1>11, <1>12, <1>13, <1>14 DEF Next, Owner, CreatePipeline

\* No step leaves a pipeline playing that cannot be stopped.
LEMMA StrayStep == IInv /\ [Next]_vars => StrayInv'
<1> SUFFICES ASSUME IInv, [Next]_vars PROVE StrayInv'
  OBVIOUS
<1> USE EncoderAssumption DEF IInv, TypeOK, PipelineInv, StrayInv, NoStray, Pipelines, OrNull
<1>1. CASE Initialize
  BY <1>1 DEF Initialize
<1>2. CASE NoPipeline
  BY <1>2 DEF NoPipeline
<1>3. CASE NoSource
  BY <1>3 DEF NoSource, NewPipeline
<1>4. ASSUME NEW profile \in Profiles, NoEncoder(profile) PROVE StrayInv'
  BY <1>4 DEF NoEncoder, NewPipeline
<1>5. ASSUME NEW profile \in Profiles, NotStarted(profile) PROVE StrayInv'
  BY <1>5 DEF NotStarted, NewPipeline
<1>6. ASSUME NEW profile \in Profiles, Started(profile) PROVE StrayInv'
  BY <1>6 DEF Started, NewPipeline
<1>7. CASE Destroy("idle", "stop")
  BY <1>7 DEF Destroy
<1>8. CASE Destroy("gone", "delete")
  BY <1>8 DEF Destroy
<1>9. CASE Destroyed
  BY <1>9 DEF Destroyed, Stopped
<1>10. CASE EncodeBuffer
  BY <1>10 DEF EncodeBuffer
<1>11. ASSUME NEW b \in Rates, UpdateEncodingParams(b) PROVE StrayInv'
  BY <1>11 DEF UpdateEncodingParams
<1>12. ASSUME NEW p \in Pipelines, OnEncodedBuffer(p) PROVE StrayInv'
  BY <1>12 DEF OnEncodedBuffer
<1>13. ASSUME NEW p \in Pipelines, CallbackReturns(p) PROVE StrayInv'
  BY <1>13 DEF CallbackReturns
<1>14. CASE UNCHANGED vars
  BY <1>14 DEF vars
<1> QED
  BY <1>1, <1>2, <1>3, <1>4, <1>5, <1>6, <1>7, <1>8,
     <1>9, <1>10, <1>11, <1>12, <1>13, <1>14 DEF Next, Owner, CreatePipeline

\* Each step of the owner and of the streaming threads preserves the invariant.
LEMMA NextIInv == IInv /\ [Next]_vars => IInv'
BY TypeStep, PipelineStep, SourceStep, RateStep, StrayStep DEF IInv

\* The invariant holds in every reachable state.
LEMMA SpecIInv == Spec => []IInv
BY InitIInv, NextIInv, PTL DEF Spec

\* Type correctness: the members point to pipelines that were made, or are null.
THEOREM TypeCorrect == Spec => []TypeOK
<1>1. IInv => TypeOK
  BY DEF IInv
<1> QED
  BY <1>1, SpecIInv, PTL

\* The encoder of a pipeline that Initialize returned has the bit rate asked for last,
\* through any failures, destructions and repetitions of a rate.
THEOREM RateIsApplied == Spec => []RateApplied
<1>1. IInv => RateApplied
  BY DEF IInv, RateInv
<1> QED
  BY <1>1, SpecIInv, PTL

\* As long as no playing pipeline is replaced, what plays can be stopped: nobody is
\* called back after Destroy, nor while the callback is replaced.
THEOREM NoneStray == Spec => []NoStray
<1>1. IInv => NoStray
  BY DEF IInv, StrayInv
<1> QED
  BY <1>1, SpecIInv, PTL

\* Buffers are only fed to the pipeline that Destroy would stop.
THEOREM FeedsCurrent == Spec => FedToCurrent
<1>1. IInv /\ [Next]_vars =>
        [\A p \in Pipelines : queued'[p] > queued[p] => p = pipeline_ /\ gst[p] # "null"]_vars
  <2> SUFFICES ASSUME IInv, Next, NEW q \in Pipelines, queued'[q] > queued[q]
               PROVE  q = pipeline_ /\ gst[q] # "null"
    BY DEF vars
  <2> USE EncoderAssumption DEF IInv, TypeOK, PipelineInv, SourceInv, Pipelines, OrNull
  <2>0. queued[q] \in Nat /\ queued' # queued
    OBVIOUS
  <2>1. CASE EncodeBuffer
    BY <2>1 DEF EncodeBuffer
  <2>2. CASE Destroyed
    BY <2>0, <2>2 DEF Destroyed, Stopped
  <2>3. ASSUME NEW p \in Pipelines, OnEncodedBuffer(p) PROVE FALSE
    BY <2>0, <2>3 DEF OnEncodedBuffer
  <2>4. CASE Initialize \/ CreatePipeline
    BY <2>0, <2>4 DEF Initialize, CreatePipeline, NoPipeline, NoSource, NoEncoder, NotStarted,
                      Started, NewPipeline
  <2>5. CASE Destroy("idle", "stop") \/ Destroy("gone", "delete")
    BY <2>0, <2>5 DEF Destroy
  <2>6. ASSUME NEW b \in Rates, UpdateEncodingParams(b) PROVE FALSE
    BY <2>0, <2>6 DEF UpdateEncodingParams
  <2>7. ASSUME NEW p \in Pipelines, CallbackReturns(p) PROVE FALSE
    BY <2>0, <2>7 DEF CallbackReturns
  <2> QED
    BY <2>1, <2>2, <2>3, <2>4, <2>5, <2>6, <2>7 DEF Next, Owner
<1> QED
  BY <1>1, SpecIInv, PTL DEF Spec, FedToCurrent
=============================================================================
