--------------------------- MODULE RecorderSettings ---------------------------
(***************************************************************************)
(* The settings of one MediaRecorder on their way from the client's        *)
(* requests to the GStreamer pipelines of its children: what the set*      *)
(* methods store, what start and takeSnapshot send, what the child's       *)
(* ParseOptionString reads of it and what launch builds.                   *)
(*                                                                         *)
(* RecorderService has the life of the recorder and its children; here     *)
(* each method is one step.  File names are left out.                      *)
(***************************************************************************)
EXTENDS Integers

CONSTANTS
  Sizes,          \* frame sizes the camera can have
  Rates,          \* numbers that clients give for bit rates,
  SampleRates, ChannelCounts,       \* sample rates and numbers of channels
  SupportedSampleRates, MaxChannels,  \* of isSupportedAudioFormat
  DefaultSampleRate,                \* of mAudioFormatDefault
  MinVideoRate, MaxVideoRate,       \* the range of setVideoFormat
  IntMax,         \* the largest int
  VideoEncoder    \* the video encoder of the platform's gst_elements.conf

\* The largest unsigned int.
UnsignedMax == 2 * IntMax + 1

ASSUME SettingsAssumption ==
  /\ Rates \subseteq Int /\ SampleRates \subseteq Int /\ ChannelCounts \subseteq Int
  /\ Sizes \subseteq Nat \ {0}
  /\ MinVideoRate \in Nat \ {0} /\ MaxVideoRate \in Nat /\ IntMax \in Nat
  /\ MaxVideoRate <= IntMax /\ 5 * MaxChannels <= IntMax
  /\ MaxChannels \in Nat /\ 2 <= MaxChannels
  /\ SupportedSampleRates \subseteq 0..IntMax /\ DefaultSampleRate \in SupportedSampleRates
  /\ VideoEncoder \in {"v4l2h264enc", "other"}

VARIABLES
  state,         \* of the recorder
  source,        \* videoSrc and audioSrc: which of the two there are
  mFormat,
  mVideoFormat,
  mAudioFormat,
  recording,     \* what the pipeline of the recording is built with
  snapshot,      \* and that of the last snapshot of this recording
  told           \* what the client was last told is accepted

vars == <<state, source, mFormat, mVideoFormat, mAudioFormat, recording, snapshot, told>>

Formats == {"MP4", "M4A", "AVI"}   \* one for video, one for audio, any other

\* A camera that does not tell its size has size 0.
FrameSizes == Sizes \cup {0}
DefaultSize == 0    \* 1280x720: always overwritten before it is sent

VideoFormat == [codec : {"H264"}, size : FrameSizes, bitRate : Nat]
AudioFormat == [codec : {"AAC"}, sampleRate : Nat, channels : Nat, bitRate : Nat]

\* An audio request in the numbers that were given.
AudioRequest == [codec : {"AAC"}, sampleRate : Int, channels : Int, bitRate : Int]

NoVideo == [codec |-> "none", size |-> 0, bitRate |-> 0]
NoAudio == [codec |-> "none", sampleRate |-> 0, channels |-> 0, bitRate |-> 0]

VideoDefault == [codec |-> "H264", size |-> DefaultSize, bitRate |-> 0]
AudioDefault == [codec |-> "AAC", sampleRate |-> DefaultSampleRate, channels |-> 2, bitRate |-> 0]

Pipeline == [format : Formats, size : FrameSizes, videoRate : Nat,
             audio : AudioFormat \cup {NoAudio}]
NoPipeline == [format |-> "none", size |-> 0, videoRate |-> 0, audio |-> NoAudio]

Image == [codec : {"JPEG"}, size : FrameSizes]
NoImage == [codec |-> "none", size |-> 0]

TypeOK ==
  /\ state \in {"CLOSE", "OPEN", "RECORDING", "PAUSE"}
  /\ source \in [video : BOOLEAN, audio : BOOLEAN]
  /\ mFormat \in Formats \cup {""}
  /\ mVideoFormat \in VideoFormat
  /\ mAudioFormat \in AudioFormat \cup {NoAudio}
  /\ recording \in Pipeline \cup {NoPipeline}
  /\ snapshot \in Image \cup {NoImage}
  /\ told \in [format : Formats \cup {""}, videoRate : Int, audio : AudioRequest \cup {NoAudio}]

\* A MediaRecorder that has not been opened.
Fresh(v, a) ==
  /\ source' = [video |-> v, audio |-> a]
  /\ mFormat' = "" /\ mVideoFormat' = VideoDefault
  /\ mAudioFormat' = IF a THEN AudioDefault ELSE NoAudio
  /\ told' = [format |-> "", videoRate |-> 0, audio |-> mAudioFormat']

Init ==
  /\ state = "CLOSE" /\ source = [video |-> FALSE, audio |-> FALSE]
  /\ mFormat = "" /\ mVideoFormat = VideoDefault /\ mAudioFormat = NoAudio
  /\ recording = NoPipeline /\ snapshot = NoImage
  /\ told = [format |-> "", videoRate |-> 0, audio |-> NoAudio]

-----------------------------------------------------------------------------
\* What is supported.

IsSupportedVideoFileFormat(format) == format = "MP4"
IsSupportedAudioFileFormat(format) == format = "M4A"
IsSupportedVideoCodec(codec) == codec = "H264"

\* Mutant: any image will do.
IsSupportedImageFileFormatAny(format) == format # ""

IsSupportedImageFileFormat(format) == format = "JPEG"

\* Any bit rate will do.
IsSupportedAudioFormat(codec, sampleRate, channels) ==
  /\ codec = "AAC" /\ sampleRate \in SupportedSampleRates
  /\ channels \in 1..MaxChannels

\* The file format is one the recorder's source can have.
IsSupportedFileFormat(format) ==
  IF source.video THEN IsSupportedVideoFileFormat(format)
                  ELSE IsSupportedAudioFileFormat(format)

-----------------------------------------------------------------------------
\* The client's requests.

\* get_optional<unsigned int> of a whole number: one that does not fit is wrapped.
Unsigned(number) == number % (UnsignedMax + 1)

Open(v, a) ==
  /\ state = "CLOSE" /\ (v \/ a)
  /\ Fresh(v, a)
  /\ state' = "OPEN"
  /\ UNCHANGED <<recording, snapshot>>

\* The manager destroys the recorder it has closed.
Close ==
  /\ state = "OPEN"
  /\ state' = "CLOSE"
  /\ UNCHANGED <<source, mFormat, mVideoFormat, mAudioFormat, recording, snapshot, told>>

\* The format is stored, whatever the answer.
SetOutputFormat(format) ==
  /\ state = "OPEN"
  /\ mFormat' = format
  /\ told' = IF IsSupportedFileFormat(format) THEN [told EXCEPT !.format = format] ELSE told
  /\ UNCHANGED <<state, source, mVideoFormat, mAudioFormat, recording, snapshot>>

\* The codec is stored before the bit rate is looked at.
SetVideoFormat(codec, number) ==
  /\ state = "OPEN" /\ source.video
  /\ IsSupportedVideoCodec(codec)
  /\ IF Unsigned(number) \in MinVideoRate..MaxVideoRate
     THEN /\ mVideoFormat' = [codec |-> codec, size |-> mVideoFormat.size,
                              bitRate |-> Unsigned(number)]
          /\ told' = [told EXCEPT !.videoRate = number]
     ELSE /\ mVideoFormat' = [codec |-> codec, size |-> mVideoFormat.size,
                              bitRate |-> mVideoFormat.bitRate]
          /\ UNCHANGED told
  /\ UNCHANGED <<state, source, mFormat, mAudioFormat, recording, snapshot>>

\* Mutant: the bit rate that one channel needs will do.
AudioRateOfOne(channels, bitRate) ==
  IF bitRate > 0 /\ bitRate < 5 THEN channels * 5 ELSE bitRate

\* AAC wants a bit rate of five for each channel, or 0 for its own choice.
AudioRate(channels, bitRate) ==
  IF bitRate > 0 /\ bitRate < channels * 5 THEN channels * 5 ELSE bitRate

SetAudioFormat(codec, sampleRate, channels, bitRate) ==
  /\ state = "OPEN" /\ source.audio
  /\ IsSupportedAudioFormat(codec, Unsigned(sampleRate), Unsigned(channels))
  /\ mAudioFormat' = [codec |-> codec, sampleRate |-> Unsigned(sampleRate),
                      channels |-> Unsigned(channels),
                      bitRate |-> AudioRate(Unsigned(channels), Unsigned(bitRate))]
  /\ told' = [told EXCEPT !.audio = [codec |-> codec, sampleRate |-> sampleRate,
                                     channels |-> channels, bitRate |-> bitRate]]
  /\ UNCHANGED <<state, source, mFormat, mVideoFormat, recording, snapshot>>

-----------------------------------------------------------------------------
\* start, and what its child makes of the payload.

\* getCameraFormat: the size that the camera answered.
CameraFormat(size) ==
  [codec |-> mVideoFormat.codec, size |-> size, bitRate |-> mVideoFormat.bitRate]

\* A format that was not set is that of the source.
DefaultFormat == IF source.video THEN "MP4" ELSE "M4A"

StartPayload(video, format) ==
  [video |-> IF source.video THEN video ELSE NoVideo,
   audio |-> IF source.audio THEN mAudioFormat ELSE NoAudio,
   format |-> format]

\* asNumber<int> of an unsigned number, stored unsigned: any number, if it does not fit.
AsInt(number) == IF number <= IntMax THEN {number} ELSE 0..UnsignedMax

\* ParseOptionString: of the numbers in the payload only the audio bit rate may not fit.
Parsed(payload) ==
  {[video |-> payload.video, format |-> payload.format,
    audio |-> [codec |-> payload.audio.codec, sampleRate |-> payload.audio.sampleRate,
               channels |-> payload.audio.channels, bitRate |-> rate]] :
     rate \in AsInt(payload.audio.bitRate)}

\* Only v4l2h264enc is given the bit rate, and only if it is not 0.  Where it is
\* not given one, 0 here, an encoder has its own.
VideoRate(bitRate) == IF VideoEncoder = "v4l2h264enc" THEN bitRate ELSE 0

\* launch of the three pipelines, where /etc has no pipeline that overrides them.
\* Each keeps format_, but its muxer is that of its kind.
VideoLaunch(parsed) ==
  [format |-> parsed.format, size |-> parsed.video.size,
   videoRate |-> VideoRate(parsed.video.bitRate), audio |-> parsed.audio]

AudioLaunch(parsed) ==
  [format |-> parsed.format, size |-> 0, videoRate |-> 0, audio |-> parsed.audio]

SnapshotLaunch(image) == image

\* CreateRecorder: with video and audio the pipeline is that of video.
CreateRecorder(parsed) ==
  IF parsed.video # NoVideo THEN VideoLaunch(parsed) ELSE AudioLaunch(parsed)

\* Mutant: the format is not checked again.
FormatToSendUnchecked(format) == format # "none"

\* start goes on with a format that is not set or is one of the source.
FormatToSend(format) == format = "" \/ IsSupportedFileFormat(format)

\* Mutant: the size is that of the recording before.
StartOldSize(size) ==
  /\ state = "OPEN" /\ FormatToSend(mFormat)
  /\ LET format == IF mFormat = "" THEN DefaultFormat ELSE mFormat
     IN /\ mVideoFormat' = IF source.video THEN CameraFormat(size) ELSE mVideoFormat
        /\ mFormat' = format
        /\ \E parsed \in Parsed(StartPayload(mVideoFormat, format)) :
             recording' = CreateRecorder(parsed)
  /\ state' = "RECORDING"
  /\ UNCHANGED <<source, mAudioFormat, snapshot, told>>

\* start: the camera answers with its size, or start fails; the child answers, or it fails.
Start(size) ==
  /\ state = "OPEN"
  /\ mVideoFormat' = IF source.video THEN CameraFormat(size) ELSE mVideoFormat
  /\ IF FormatToSend(mFormat)
     THEN LET format == IF mFormat = "" THEN DefaultFormat ELSE mFormat
          IN /\ mFormat' = format
             /\ \/ /\ \E parsed \in Parsed(StartPayload(mVideoFormat', format)) :
                        recording' = CreateRecorder(parsed)
                   /\ state' = "RECORDING"
                \/ UNCHANGED <<state, recording>>
     ELSE UNCHANGED <<state, mFormat, recording>>
  /\ UNCHANGED <<source, mAudioFormat, snapshot, told>>

Pause  == /\ state = "RECORDING" /\ state' = "PAUSE"
          /\ UNCHANGED <<source, mFormat, mVideoFormat, mAudioFormat, recording, snapshot, told>>
Resume == /\ state = "PAUSE" /\ state' = "RECORDING"
          /\ UNCHANGED <<source, mFormat, mVideoFormat, mAudioFormat, recording, snapshot, told>>

Stop ==
  /\ state \in {"RECORDING", "PAUSE"}
  /\ state' = "OPEN" /\ recording' = NoPipeline /\ snapshot' = NoImage
  /\ UNCHANGED <<source, mFormat, mVideoFormat, mAudioFormat, told>>

\* takeSnapshot: its child is built with the size the recording was started with.
TakeSnapshot(format) ==
  /\ state = "RECORDING"
  /\ IsSupportedImageFileFormat(format) /\ source.video
  /\ snapshot' = SnapshotLaunch([codec |-> format, size |-> mVideoFormat.size])
  /\ UNCHANGED <<state, source, mFormat, mVideoFormat, mAudioFormat, recording, told>>

-----------------------------------------------------------------------------

Next ==
  \/ \E v, a \in BOOLEAN : Open(v, a)
  \/ Close \/ Pause \/ Resume \/ Stop
  \/ \E format \in Formats \cup {""} : SetOutputFormat(format)
  \/ \E codec \in {"H264", "VP8"}, rate \in Rates : SetVideoFormat(codec, rate)
  \/ \E codec \in {"AAC", "AMR"}, sampleRate \in SampleRates, channels \in ChannelCounts,
        rate \in Rates : SetAudioFormat(codec, sampleRate, channels, rate)
  \/ \E size \in FrameSizes : Start(size)
  \/ \E format \in {"JPEG", "PNG"} : TakeSnapshot(format)

Spec == Init /\ [][Next]_vars

-----------------------------------------------------------------------------
\* Properties.

Recording == state \in {"RECORDING", "PAUSE"}

\* A number that an unsigned int can have.
Fits(number) == number \in 0..UnsignedMax

\* The least bit rate for so many channels that is not below the one asked for, which
\* the audio encoder does not fail with; 0 leaves it the choice.
UsableRate(channels, rate) == IF rate = 0 \/ rate >= 5 * channels THEN rate ELSE 5 * channels

\* A recording's pipeline has the settings its client was last told are accepted, or the
\* defaults: nothing of a request that was refused, nothing accepted after start, no
\* mixture of two audio requests, and no audio bit rate that is too small for the channels
\* (media_recorder.cpp:603, "prevent pipeline errors").  Numbers that do not fit their type
\* on the way, and an audio bit rate that is no int, are excepted.
BuiltAsTold ==
  Recording =>
    /\ recording.format = IF told.format = "" THEN DefaultFormat ELSE told.format
    /\ Fits(told.videoRate) => recording.videoRate = VideoRate(told.videoRate)
    /\ recording.audio.codec = told.audio.codec
    /\ Fits(told.audio.sampleRate) => recording.audio.sampleRate = told.audio.sampleRate
    /\ Fits(told.audio.channels) => recording.audio.channels = told.audio.channels
    /\ Fits(told.audio.channels) /\ told.audio.bitRate \in 0..IntMax =>
         recording.audio.bitRate = UsableRate(told.audio.channels, told.audio.bitRate)

\* A snapshot is asked for in the size of the recording it is taken from: the stored
\* size is that of the recording, whatever other starts came to.
SnapshotFits == Recording /\ snapshot # NoImage => snapshot.size = recording.size
=============================================================================
