---------------------------- MODULE BufferEncoder ----------------------------
(***************************************************************************)
(* One BufferEncoder of the encoder library: the thread of its owner, who  *)
(* initialises, feeds, retunes and destroys it, and the streaming threads  *)
(* of the GStreamer pipelines it has made, which call the owner back.      *)
(*                                                                         *)
(* Initialize may fail at each element, and leaves what it had made so far *)
(* in the members; Destroy stops a pipeline but neither frees it nor       *)
(* clears the members that point into it.                                  *)
(***************************************************************************)
EXTENDS Naturals

CONSTANTS
  V4l2,          \* the build: GST_V4L2_ENCODER is defined
  Rates,         \* the bit rates asked for; 0 may be among them
  MaxPipelines,  \* BOUND: pipelines made
  MaxQueued      \* BOUND: buffers in a pipeline

ASSUME EncoderAssumption ==
  /\ V4l2 \in BOOLEAN /\ Rates \subseteq Nat
  /\ MaxPipelines \in Nat /\ MaxQueued \in Nat

VARIABLES
  pc,         \* what the owner's thread is doing
  made,       \* number of pipelines made; a pipeline is known by its number
  pipeline_,  \* the member, 0 when null
  source_,    \* the pipeline that source_ was made for, 0 when null
  encoder_,   \* the pipeline that encoder_ was made for, 0 when null
  bitrate_,
  gst,        \* the state of each pipeline
  rate,       \* the bit rate set on the encoder of each pipeline, 0 for its default
  queued,     \* the buffers in each pipeline
  calling,    \* the pipelines whose streaming thread is in the owner's callback
  ready,      \* what the last Initialize returned
  wanted,     \* history: the bit rate asked for since then, 0 for none
  replaced    \* history: Initialize was called over a pipeline that was playing

vars == <<pc, made, pipeline_, source_, encoder_, bitrate_, gst, rate, queued, calling, ready,
          wanted, replaced>>

Pipelines == 1..MaxPipelines
OrNull == 0..MaxPipelines

\* VideoCodecProfile, as CreateEncoder tells them apart.
Profiles == {"h264", "vp8", "other"}

TypeOK ==
  /\ pc \in {"idle", "create", "stop", "delete", "gone"}
  /\ made \in OrNull /\ pipeline_ \in OrNull /\ source_ \in OrNull /\ encoder_ \in OrNull
  /\ bitrate_ \in Rates \cup {0} /\ wanted \in Rates \cup {0}
  /\ gst \in [Pipelines -> {"none", "built", "playing", "stopping", "null"}]
  /\ rate \in [Pipelines -> Rates \cup {0}]
  /\ queued \in [Pipelines -> 0..MaxQueued]
  /\ calling \subseteq Pipelines
  /\ ready \in BOOLEAN /\ replaced \in BOOLEAN

InitWith(p) ==
  /\ pc = "idle" /\ made = 0
  /\ pipeline_ = p /\ source_ = 0 /\ encoder_ = 0 /\ bitrate_ = 0
  /\ gst = [q \in Pipelines |-> "none"]
  /\ rate = [q \in Pipelines |-> 0]
  /\ queued = [q \in Pipelines |-> 0]
  /\ calling = {} /\ ready = FALSE /\ wanted = 0 /\ replaced = FALSE

\* Mutant: pipeline_ has no initializer.
InitAnyPipeline == InitWith(MaxPipelines + 1)

Init == InitWith(0)

-----------------------------------------------------------------------------
\* Initialize.

\* buffer_callback_ is moved in, whatever it replaces.
Initialize ==
  /\ pc = "idle" /\ made < MaxPipelines
  /\ replaced' = (replaced \/ \E p \in Pipelines : p = pipeline_ /\ gst[p] = "playing")
  /\ ready' = FALSE
  /\ pc' = "create"
  /\ UNCHANGED <<made, pipeline_, source_, encoder_, bitrate_, gst, rate, queued, calling,
                 wanted>>

\* gst_pipeline_new fails.
NoPipeline ==
  /\ pc = "create"
  /\ pipeline_' = 0
  /\ pc' = "idle"
  /\ UNCHANGED <<made, source_, encoder_, bitrate_, gst, rate, queued, calling, ready, wanted,
                 replaced>>

\* A new pipeline that is left in state s.
NewPipeline(s) ==
  /\ pc = "create"
  /\ made' = made + 1 /\ pipeline_' = made + 1
  /\ gst' = [gst EXCEPT ![made + 1] = s]
  /\ pc' = "idle"
  /\ UNCHANGED <<rate, queued, calling, replaced>>

\* Mutant: source_ keeps the element of the pipeline before.
NoSourceKept ==
  /\ NewPipeline("built")
  /\ UNCHANGED <<source_, encoder_, bitrate_, ready, wanted>>

NoSource ==
  /\ NewPipeline("built")
  /\ source_' = 0
  /\ UNCHANGED <<encoder_, bitrate_, ready, wanted>>

\* CreateEncoder does not know the profile, or cannot make the element.
NoEncoder(profile) ==
  /\ NewPipeline("built")
  /\ source_' = made + 1
  /\ encoder_' = (IF profile = "other" THEN encoder_ ELSE 0)
  /\ UNCHANGED <<bitrate_, ready, wanted>>

\* The encoder has been made, and CreateSink or LinkElements fails, or the pipeline does
\* not start, or not in all its parts.
NotStarted(profile) ==
  /\ profile # "other"
  /\ \E s \in {"built", "playing"} : NewPipeline(s)
  /\ source_' = made + 1 /\ encoder_' = made + 1
  /\ UNCHANGED <<bitrate_, ready, wanted>>

\* Mutant: the bit rate of the pipeline before is remembered.
StartedKeepsRate(profile) ==
  /\ profile = "h264" \/ (profile = "vp8" /\ ~V4l2)
  /\ NewPipeline("playing")
  /\ source_' = made + 1 /\ encoder_' = made + 1
  /\ wanted' = 0 /\ ready' = TRUE
  /\ UNCHANGED bitrate_

\* VP8 does not link to the H.264 filter of the V4L2 build.
Started(profile) ==
  /\ profile = "h264" \/ (profile = "vp8" /\ ~V4l2)
  /\ NewPipeline("playing")
  /\ source_' = made + 1 /\ encoder_' = made + 1
  /\ bitrate_' = 0 /\ wanted' = 0 /\ ready' = TRUE

-----------------------------------------------------------------------------
\* The owner's other calls.

Stopped(p) ==
  /\ gst' = [gst EXCEPT ![p] = "null"]
  /\ queued' = [queued EXCEPT ![p] = 0]

\* Destroy, and the destructor, which calls it: then, and while the pipeline stops, the
\* owner's thread is at these labels.
Destroy(next, busy) ==
  /\ pc = "idle"
  /\ IF pipeline_ = 0 THEN pc' = next /\ UNCHANGED gst
     ELSE pc' = busy /\ gst' = [gst EXCEPT ![pipeline_] = "stopping"]
  /\ UNCHANGED <<made, pipeline_, source_, encoder_, bitrate_, rate, queued, calling, ready,
                 wanted, replaced>>

\* Mutant: a callback in progress is not waited for.
DestroyedAtOnce ==
  /\ pc \in {"stop", "delete"}
  /\ Stopped(pipeline_)
  /\ pipeline_' = 0
  /\ pc' = (IF pc = "stop" THEN "idle" ELSE "gone")
  /\ UNCHANGED <<made, source_, encoder_, bitrate_, rate, calling, ready, wanted, replaced>>

\* A pipeline stops when its streaming thread has left the callback.
Destroyed ==
  /\ pc \in {"stop", "delete"}
  /\ pipeline_ \notin calling
  /\ Stopped(pipeline_)
  /\ pipeline_' = 0
  /\ pc' = (IF pc = "stop" THEN "idle" ELSE "gone")
  /\ UNCHANGED <<made, source_, encoder_, bitrate_, rate, calling, ready, wanted, replaced>>

\* A buffer is taken by source_; nothing changes when it is refused.
EncodeBuffer ==
  /\ pc = "idle" /\ pipeline_ # 0 /\ source_ # 0
  /\ queued[source_] < MaxQueued
  /\ queued' = [queued EXCEPT ![source_] = @ + 1]
  /\ UNCHANGED <<pc, made, pipeline_, source_, encoder_, bitrate_, gst, rate, calling, ready,
                 wanted, replaced>>

UpdateEncodingParams(bitrate) ==
  /\ pc = "idle"
  /\ wanted' = (IF bitrate > 0 THEN bitrate ELSE wanted)
  /\ IF encoder_ # 0 /\ bitrate > 0 /\ bitrate_ # bitrate
     THEN rate' = [rate EXCEPT ![encoder_] = bitrate] /\ bitrate_' = bitrate
     ELSE UNCHANGED <<rate, bitrate_>>
  /\ UNCHANGED <<pc, made, pipeline_, source_, encoder_, gst, queued, calling, ready, replaced>>

-----------------------------------------------------------------------------
\* The streaming thread of pipeline p: OnEncodedBuffer.

\* A sample has been pulled; an empty one is not passed on.
OnEncodedBuffer(p) ==
  /\ gst[p] = "playing" /\ queued[p] > 0 /\ p \notin calling
  /\ queued' = [queued EXCEPT ![p] = @ - 1]
  /\ calling' \in {calling, calling \cup {p}}
  /\ UNCHANGED <<pc, made, pipeline_, source_, encoder_, bitrate_, gst, rate, ready, wanted,
                 replaced>>

CallbackReturns(p) ==
  /\ p \in calling
  /\ calling' = calling \ {p}
  /\ UNCHANGED <<pc, made, pipeline_, source_, encoder_, bitrate_, gst, rate, queued, ready,
                 wanted, replaced>>

-----------------------------------------------------------------------------

CreatePipeline ==
  \/ NoPipeline \/ NoSource
  \/ \E profile \in Profiles : NoEncoder(profile) \/ NotStarted(profile) \/ Started(profile)

Owner ==
  \/ Initialize \/ CreatePipeline
  \/ Destroy("idle", "stop") \/ Destroy("gone", "delete") \/ Destroyed
  \/ EncodeBuffer \/ \E b \in Rates : UpdateEncodingParams(b)

Next == Owner \/ \E p \in Pipelines : OnEncodedBuffer(p) \/ CallbackReturns(p)

Spec == Init /\ [][Next]_vars

-----------------------------------------------------------------------------
\* Properties.

\* While a pipeline plays for its owner, its encoder has the bit rate asked for last,
\* although a rate equal to bitrate_ is not set again, bitrate_ outlives the encoder it
\* was set on, and a failed Initialize leaves it beside another encoder.
RateApplied ==
  ready /\ pipeline_ # 0 => encoder_ = pipeline_ /\ rate[pipeline_] = wanted

\* A pipeline that plays, or is in the owner's callback, is the one pipeline_ points to, so
\* that Destroy and the destructor stop its streaming thread and nobody is called back
\* after them; an Initialize that fails half way does not change that.  Nor is
\* buffer_callback_ replaced under a streaming thread that is calling it.  Both are claimed
\* until Initialize is called over a pipeline that plays, which overwrites pipeline_.
NoStray ==
  replaced \/ /\ \A p \in Pipelines : gst[p] = "playing" \/ p \in calling => p = pipeline_
              /\ pc = "create" => calling = {}

\* What source_ takes goes to the pipeline that Destroy would stop, also after any
\* failures to initialise: no buffer is fed to one that was given up.
FedToCurrent ==
  [][\A p \in Pipelines : queued'[p] > queued[p] => p = pipeline_ /\ gst[p] # "null"]_vars
=============================================================================
