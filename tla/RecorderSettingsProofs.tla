------------------------ MODULE RecorderSettingsProofs ------------------------
(***************************************************************************)
(* RecorderSettings, for any sizes, rates and encoder: type correctness,   *)
(* BuiltAsTold and SnapshotFits.                                           *)
(*                                                                         *)
(* Neither of the two is inductive: what start sends is what is stored, so  *)
(* the invariant says how the stored settings follow from what the client  *)
(* was told, and how the recording follows from those that are stored.     *)
(***************************************************************************)
EXTENDS RecorderSettings, TLAPS

\* An audio request as it is stored.
Stored(audio) ==
  [codec |-> audio.codec, sampleRate |-> Unsigned(audio.sampleRate),
   channels |-> Unsigned(audio.channels),
   bitRate |-> AudioRate(Unsigned(audio.channels), Unsigned(audio.bitRate))]

\* What is stored against what the client was told.
StoredAsTold ==
  /\ mVideoFormat.bitRate = Unsigned(told.videoRate)
  /\ ~source.video => told.videoRate = 0
  /\ told.format \in {"", DefaultFormat}
  /\ mAudioFormat = Stored(told.audio)
  /\ mAudioFormat.channels <= MaxChannels
  /\ ~source.audio => mAudioFormat = NoAudio

\* The recording against what is stored: no request changes either while it lasts.
RecordedAsStored ==
  /\ Recording =>
       /\ recording.format = DefaultFormat
       /\ recording.videoRate = VideoRate(mVideoFormat.bitRate)
       /\ source.video => recording.size = mVideoFormat.size
       /\ recording.audio.codec = mAudioFormat.codec
       /\ recording.audio.sampleRate = mAudioFormat.sampleRate
       /\ recording.audio.channels = mAudioFormat.channels
       /\ mAudioFormat.bitRate <= IntMax => recording.audio.bitRate = mAudioFormat.bitRate
  /\ snapshot # NoImage =>
       Recording /\ source.video /\ snapshot.size = mVideoFormat.size

IInv == TypeOK /\ StoredAsTold /\ RecordedAsStored

-----------------------------------------------------------------------------
\* The operators on rates and formats.

\* A number that an unsigned int can have stays what it is.
LEMMA UnsignedType ==
  ASSUME NEW number \in Int
  PROVE  /\ Unsigned(number) \in Nat
         /\ Fits(number) => Unsigned(number) = number
<1>1. UnsignedMax \in Nat
  BY SettingsAssumption DEF UnsignedMax
<1>2. \A m \in Nat : /\ number % (m + 1) \in Nat
                     /\ number \in 0..m => number % (m + 1) = number
  OBVIOUS
<1> QED
  BY <1>1, <1>2 DEF Unsigned, Fits

\* So do the defaults.
LEMMA UnsignedOwn ==
  /\ Unsigned(0) = 0 /\ Unsigned(2) = 2 /\ Unsigned(DefaultSampleRate) = DefaultSampleRate
  /\ DefaultSampleRate \in Nat
<1>1. 0 \in 0..UnsignedMax /\ 2 \in 0..UnsignedMax /\ DefaultSampleRate \in 0..UnsignedMax
  BY SettingsAssumption DEF UnsignedMax
<1> QED
  BY <1>1, UnsignedType DEF Fits

\* The audio of no request, and that of a recorder that has just been opened.
LEMMA StoredOwn == Stored(NoAudio) = NoAudio /\ Stored(AudioDefault) = AudioDefault
<1>1. Stored(NoAudio) = NoAudio
  <2>1. /\ NoAudio.codec = "none" /\ NoAudio.sampleRate = 0
        /\ NoAudio.channels = 0 /\ NoAudio.bitRate = 0
    BY DEF NoAudio
  <2>2. \A channels : AudioRate(channels, 0) = 0
    BY DEF AudioRate
  <2> QED
    BY <2>1, <2>2, UnsignedOwn DEF Stored, NoAudio
<1>2. Stored(AudioDefault) = AudioDefault
  <2>1. /\ AudioDefault.codec = "AAC" /\ AudioDefault.sampleRate = DefaultSampleRate
        /\ AudioDefault.channels = 2 /\ AudioDefault.bitRate = 0
    BY DEF AudioDefault
  <2>2. AudioRate(2, 0) = 0
    BY DEF AudioRate
  <2> QED
    BY <2>1, <2>2, UnsignedOwn DEF Stored, AudioDefault
<1> QED
  BY <1>1, <1>2

LEMMA AudioRateType ==
  ASSUME NEW channels \in Nat, NEW bitRate \in Nat
  PROVE  /\ AudioRate(channels, bitRate) \in Nat
         /\ AudioRate(channels, bitRate) = UsableRate(channels, bitRate)
  BY DEF AudioRate, UsableRate

LEMMA AudioRateFits ==
  ASSUME NEW channels \in Nat, NEW bitRate \in Nat,
         channels <= MaxChannels, bitRate <= IntMax
  PROVE  AudioRate(channels, bitRate) <= IntMax
  BY SettingsAssumption DEF AudioRate

LEMMA VideoRateType ==
  /\ \A bitRate \in Nat : VideoRate(bitRate) \in Nat
  /\ VideoRate(Unsigned(0)) = 0
  BY UnsignedOwn DEF VideoRate

\* With one format for each source, a start that goes on sends that of its source.
LEMMA OneFormat ==
  ASSUME NEW format
  PROVE  /\ IsSupportedFileFormat(format) <=> format = DefaultFormat
         /\ DefaultFormat \in Formats /\ DefaultFormat # ""
  BY DEF IsSupportedFileFormat, IsSupportedVideoFileFormat, IsSupportedAudioFileFormat,
         DefaultFormat, Formats

\* ParseOptionString changes nothing but an audio bit rate that is no int.
LEMMA ParsedSame ==
  ASSUME TypeOK, NEW video, NEW format,
         NEW parsed \in Parsed(StartPayload(video, format))
  PROVE  /\ parsed.format = format
         /\ parsed.video = IF source.video THEN video ELSE NoVideo
         /\ parsed.audio \in AudioFormat \cup {NoAudio}
         /\ source.audio => /\ parsed.audio.codec = mAudioFormat.codec
                             /\ parsed.audio.sampleRate = mAudioFormat.sampleRate
                             /\ parsed.audio.channels = mAudioFormat.channels
         /\ source.audio /\ mAudioFormat.bitRate <= IntMax =>
              parsed.audio.bitRate = mAudioFormat.bitRate
         /\ ~source.audio => parsed.audio = NoAudio
<1> DEFINE audio == IF source.audio THEN mAudioFormat ELSE NoAudio
<1>1. audio \in AudioFormat \cup {NoAudio}
  BY DEF TypeOK
<1>2. PICK rate \in AsInt(audio.bitRate) :
        parsed = [video |-> IF source.video THEN video ELSE NoVideo, format |-> format,
                  audio |-> [codec |-> audio.codec, sampleRate |-> audio.sampleRate,
                             channels |-> audio.channels, bitRate |-> rate]]
  BY DEF Parsed, StartPayload
<1>3. audio.bitRate <= IntMax => rate = audio.bitRate
  BY <1>2 DEF AsInt
<1>4. rate \in Nat
  <2>1. CASE audio \in AudioFormat
    BY <1>2, <2>1, SettingsAssumption DEF AsInt, AudioFormat
  <2>2. CASE audio = NoAudio
    BY <1>2, <2>2, SettingsAssumption DEF AsInt, NoAudio
  <2> QED BY <1>1, <2>1, <2>2
<1>5. audio.bitRate <= IntMax => parsed.audio = audio
  <2>1. CASE audio \in AudioFormat
    BY <1>2, <1>3, <2>1 DEF AudioFormat
  <2>2. CASE audio = NoAudio
    BY <1>2, <1>3, <2>2 DEF NoAudio
  <2> QED BY <1>1, <2>1, <2>2
<1>6. audio = NoAudio => parsed.audio = NoAudio
  BY <1>5, SettingsAssumption DEF NoAudio
<1>7. parsed.audio \in AudioFormat \cup {NoAudio}
  <2>1. CASE audio \in AudioFormat
    BY <1>2, <1>4, <2>1 DEF AudioFormat
  <2> QED BY <1>1, <1>6, <2>1
<1>8. /\ parsed.audio.codec = audio.codec /\ parsed.audio.sampleRate = audio.sampleRate
      /\ parsed.audio.channels = audio.channels /\ parsed.audio.bitRate = rate
  BY <1>2
<1> QED BY <1>2, <1>3, <1>6, <1>7, <1>8

-----------------------------------------------------------------------------

\* What a client has been told of a recorder it has not set up.
LEMMA FirstTold ==
  ASSUME NEW audio \in AudioRequest \cup {NoAudio}
  PROVE  [format |-> "", videoRate |-> 0, audio |-> audio] \in
           [format : Formats \cup {""}, videoRate : Int, audio : AudioRequest \cup {NoAudio}]
  OBVIOUS

LEMMA InitInvariant == Init => IInv
<1> SUFFICES ASSUME Init PROVE IInv
  OBVIOUS
<1>1. TypeOK
  <2>1. mVideoFormat \in VideoFormat
    BY DEF Init, FrameSizes, DefaultSize, VideoFormat, VideoDefault
  <2> QED BY <2>1, FirstTold DEF Init, TypeOK
<1>2. StoredAsTold
  <2>1. mAudioFormat = NoAudio /\ told.audio = NoAudio
    BY DEF Init
  <2>2. mAudioFormat = Stored(told.audio)
    BY <2>1, StoredOwn
  <2>3. mAudioFormat.channels <= MaxChannels
    BY <2>1, SettingsAssumption DEF NoAudio
  <2> QED BY <2>1, <2>2, <2>3, UnsignedOwn DEF Init, StoredAsTold, VideoDefault
<1>3. RecordedAsStored
  BY DEF Init, RecordedAsStored, Recording
<1> QED BY <1>1, <1>2, <1>3 DEF IInv

LEMMA OpenInvariant ==
  ASSUME IInv, NEW v \in BOOLEAN, NEW a \in BOOLEAN, Open(v, a)
  PROVE  IInv'
<1> USE DEF IInv
<1>1. /\ mAudioFormat' = IF a THEN AudioDefault ELSE NoAudio
      /\ told'.audio = mAudioFormat' /\ told'.format = "" /\ told'.videoRate = 0
      /\ source' = [video |-> v, audio |-> a] /\ mVideoFormat' = VideoDefault
  BY DEF Open, Fresh
<1>a. AudioDefault \in AudioFormat /\ AudioDefault \in AudioRequest
  BY UnsignedOwn DEF AudioDefault, AudioFormat, AudioRequest
<1>2. TypeOK'
  <2>1. mAudioFormat' \in AudioFormat \cup {NoAudio} /\ mAudioFormat' \in AudioRequest \cup {NoAudio}
    BY <1>1, <1>a
  <2>2. mVideoFormat' \in VideoFormat
    BY <1>1 DEF VideoFormat, VideoDefault, FrameSizes, DefaultSize
  <2>3. told' = [format |-> "", videoRate |-> 0, audio |-> mAudioFormat']
    BY DEF Open, Fresh
  <2>4. told' \in [format : Formats \cup {""}, videoRate : Int,
                   audio : AudioRequest \cup {NoAudio}]
    BY <2>1, <2>3, FirstTold
  <2>5. UNCHANGED <<recording, snapshot>> /\ state' = "OPEN" /\ mFormat' = ""
    BY DEF Open, Fresh
  <2> QED BY <1>1, <2>1, <2>2, <2>4, <2>5 DEF TypeOK
<1>3. StoredAsTold'
  <2>1. mAudioFormat' = Stored(told'.audio)
    BY <1>1, StoredOwn
  <2>2. mAudioFormat'.channels <= MaxChannels
    <3>1. AudioDefault.channels <= MaxChannels /\ NoAudio.channels <= MaxChannels
      BY SettingsAssumption DEF AudioDefault, NoAudio
    <3> QED BY <1>1, <3>1
  <2>3. mVideoFormat'.bitRate = Unsigned(told'.videoRate)
    BY <1>1, UnsignedOwn DEF VideoDefault
  <2>4. ~source'.audio => mAudioFormat' = NoAudio
    BY <1>1
  <2> QED BY <1>1, <2>1, <2>2, <2>3, <2>4 DEF StoredAsTold
<1>4. RecordedAsStored'
  BY DEF Open, RecordedAsStored, Recording
<1> QED BY <1>2, <1>3, <1>4

\* The steps that change no setting.
LEMMA StateInvariant ==
  ASSUME IInv, Close \/ Pause \/ Resume \/ Stop
  PROVE  IInv'
<1> USE DEF IInv
<1>1. UNCHANGED <<source, mFormat, mVideoFormat, mAudioFormat, told>>
  BY DEF Close, Pause, Resume, Stop
<1>2. TypeOK'
  BY <1>1 DEF TypeOK, Close, Pause, Resume, Stop
<1>3. StoredAsTold'
  BY <1>1 DEF StoredAsTold, DefaultFormat
<1>4. RecordedAsStored'
  BY <1>1 DEF RecordedAsStored, Recording, DefaultFormat, Close, Pause, Resume, Stop
<1> QED BY <1>2, <1>3, <1>4

LEMMA SetOutputFormatInvariant ==
  ASSUME IInv, NEW format \in Formats \cup {""}, SetOutputFormat(format)
  PROVE  IInv'
<1> USE DEF IInv, SetOutputFormat
<1>1. told' = told \/ (format = DefaultFormat /\ told' = [told EXCEPT !.format = format])
  BY OneFormat
<1>2. TypeOK'
  BY <1>1 DEF TypeOK
<1>3. /\ told'.videoRate = told.videoRate /\ told'.audio = told.audio
      /\ told'.format \in {"", DefaultFormat}
  BY <1>1 DEF TypeOK, StoredAsTold
<1>4. StoredAsTold'
  BY <1>3 DEF StoredAsTold, DefaultFormat
<1>5. RecordedAsStored'
  BY DEF RecordedAsStored, Recording, DefaultFormat
<1> QED BY <1>2, <1>4, <1>5

LEMMA SetVideoFormatInvariant ==
  ASSUME IInv, NEW codec, NEW number \in Rates, SetVideoFormat(codec, number)
  PROVE  IInv'
<1> USE DEF IInv, SetVideoFormat
<1> DEFINE bitRate == Unsigned(number)
<1>1. number \in Int /\ bitRate \in Nat
  BY SettingsAssumption, UnsignedType
<1>2. /\ mVideoFormat' \in VideoFormat
      /\ told' = told \/ told' = [told EXCEPT !.videoRate = number]
      /\ mVideoFormat'.bitRate = Unsigned(told'.videoRate)
  <2>1. CASE bitRate \in MinVideoRate..MaxVideoRate
    <3>1. mVideoFormat' = [codec |-> "H264", size |-> mVideoFormat.size, bitRate |-> bitRate]
      BY <2>1 DEF IsSupportedVideoCodec
    <3>2. told' = [told EXCEPT !.videoRate = number]
      BY <2>1
    <3> HIDE DEF bitRate
    <3>3. mVideoFormat' \in VideoFormat
      BY <1>1, <3>1 DEF TypeOK, VideoFormat
    <3>4. mVideoFormat'.bitRate = bitRate
      BY <3>1
    <3>5. told'.videoRate = number
      BY <3>2 DEF TypeOK
    <3> QED BY <3>2, <3>3, <3>4, <3>5 DEF bitRate
  <2>2. CASE bitRate \notin MinVideoRate..MaxVideoRate
    BY <1>1, <2>2 DEF TypeOK, VideoFormat, StoredAsTold, IsSupportedVideoCodec
  <2> QED BY <2>1, <2>2
<1>3. TypeOK'
  BY <1>1, <1>2 DEF TypeOK
<1>4. told'.format = told.format /\ told'.audio = told.audio
  BY <1>2 DEF TypeOK
<1>5. StoredAsTold'
  BY <1>2, <1>4 DEF StoredAsTold, DefaultFormat
<1>6. RecordedAsStored'
  BY DEF RecordedAsStored, Recording
<1> QED BY <1>3, <1>5, <1>6

LEMMA SetAudioFormatInvariant ==
  ASSUME IInv, NEW codec, NEW sampleRate \in SampleRates, NEW channels \in ChannelCounts,
         NEW bitRate \in Rates, SetAudioFormat(codec, sampleRate, channels, bitRate)
  PROVE  IInv'
<1> USE DEF IInv, SetAudioFormat
<1> DEFINE audio == [codec |-> codec, sampleRate |-> sampleRate, channels |-> channels,
                     bitRate |-> bitRate]
<1>1. /\ sampleRate \in Int /\ channels \in Int /\ bitRate \in Int /\ MaxChannels \in Nat
      /\ codec = "AAC" /\ Unsigned(channels) <= MaxChannels
  BY SettingsAssumption, UnsignedType DEF IsSupportedAudioFormat
<1>a. Unsigned(sampleRate) \in Nat /\ Unsigned(channels) \in Nat /\ Unsigned(bitRate) \in Nat
  BY <1>1, UnsignedType
<1>2. mAudioFormat' \in AudioFormat /\ audio \in AudioRequest
  BY <1>1, <1>a, AudioRateType DEF AudioFormat, AudioRequest
<1>b. mAudioFormat' = Stored(audio) /\ mAudioFormat'.channels <= MaxChannels
  BY <1>1 DEF Stored
<1>3. told' = [told EXCEPT !.audio = audio]
  OBVIOUS
<1>4. /\ told'.format = told.format /\ told'.videoRate = told.videoRate
      /\ told'.audio = audio
      /\ told' \in [format : Formats \cup {""}, videoRate : Int,
                    audio : AudioRequest \cup {NoAudio}]
  <2> HIDE DEF audio
  <2> QED BY <1>2, <1>3 DEF TypeOK
<1>5. TypeOK'
  BY <1>2, <1>4 DEF TypeOK
<1>6. StoredAsTold'
  <2> HIDE DEF audio
  <2> QED BY <1>b, <1>4 DEF StoredAsTold, DefaultFormat
<1>7. RecordedAsStored'
  BY DEF RecordedAsStored, Recording
<1> QED BY <1>5, <1>6, <1>7

LEMMA StartInvariant ==
  ASSUME IInv, NEW size \in FrameSizes, Start(size)
  PROVE  IInv'
<1> USE DEF IInv
<1>1. /\ mVideoFormat' \in VideoFormat
      /\ mVideoFormat'.bitRate = mVideoFormat.bitRate
  BY DEF Start, CameraFormat, TypeOK, VideoFormat
<1>2. UNCHANGED <<source, mAudioFormat, snapshot, told>> /\ state = "OPEN"
  BY DEF Start
<1>3. StoredAsTold'
  BY <1>1, <1>2 DEF StoredAsTold, DefaultFormat
<1>4. snapshot = NoImage
  BY <1>2 DEF RecordedAsStored, Recording
<1>5. mFormat' \in Formats \cup {""}
  BY OneFormat DEF Start, TypeOK
<1>6. CASE UNCHANGED <<state, recording>>
  <2>1. TypeOK'
    BY <1>1, <1>2, <1>5, <1>6 DEF TypeOK
  <2>2. RecordedAsStored'
    BY <1>2, <1>4, <1>6 DEF RecordedAsStored, Recording
  <2> QED BY <1>3, <2>1, <2>2
<1>7. CASE state' = "RECORDING"
  <2>1. PICK parsed \in Parsed(StartPayload(mVideoFormat', DefaultFormat)) :
          recording' = CreateRecorder(parsed)
    BY <1>2, <1>7, OneFormat DEF Start, FormatToSend
  <2>2. /\ parsed.format = DefaultFormat
        /\ parsed.video = IF source.video THEN mVideoFormat' ELSE NoVideo
        /\ parsed.audio \in AudioFormat \cup {NoAudio}
        /\ parsed.audio.codec = mAudioFormat.codec
        /\ parsed.audio.sampleRate = mAudioFormat.sampleRate
        /\ parsed.audio.channels = mAudioFormat.channels
        /\ mAudioFormat.bitRate <= IntMax => parsed.audio.bitRate = mAudioFormat.bitRate
    <3>1. \A q \in Parsed(StartPayload(mVideoFormat', DefaultFormat)) :
            /\ q.format = DefaultFormat
            /\ q.video = IF source.video THEN mVideoFormat' ELSE NoVideo
            /\ q.audio \in AudioFormat \cup {NoAudio}
            /\ source.audio => /\ q.audio.codec = mAudioFormat.codec
                                /\ q.audio.sampleRate = mAudioFormat.sampleRate
                                /\ q.audio.channels = mAudioFormat.channels
            /\ source.audio /\ mAudioFormat.bitRate <= IntMax =>
                 q.audio.bitRate = mAudioFormat.bitRate
            /\ ~source.audio => q.audio = NoAudio
      BY ParsedSame
    <3> QED BY <2>1, <3>1 DEF StoredAsTold
  <2>3. source.video =>
          recording' = [format |-> DefaultFormat, size |-> mVideoFormat'.size,
                        videoRate |-> VideoRate(mVideoFormat'.bitRate), audio |-> parsed.audio]
    BY <1>1, <2>1, <2>2 DEF CreateRecorder, VideoLaunch, VideoFormat, NoVideo
  <2>4. ~source.video =>
          recording' = [format |-> DefaultFormat, size |-> 0, videoRate |-> 0,
                        audio |-> parsed.audio]
    BY <2>1, <2>2 DEF CreateRecorder, AudioLaunch
  <2>5. ~source.video => VideoRate(mVideoFormat'.bitRate) = 0
    BY <1>1, VideoRateType DEF StoredAsTold
  <2>6. recording' \in Pipeline
    <3>1. DefaultFormat \in Formats
      BY OneFormat
    <3>2. CASE source.video
      <4>1. mVideoFormat'.size \in FrameSizes /\ VideoRate(mVideoFormat'.bitRate) \in Nat
        BY <1>1, VideoRateType DEF VideoFormat
      <4> QED BY <2>2, <2>3, <3>1, <3>2, <4>1 DEF Pipeline
    <3>3. CASE ~source.video
      BY <2>2, <2>4, <3>1, <3>3 DEF Pipeline, FrameSizes
    <3> QED BY <3>2, <3>3
  <2>7. TypeOK'
    BY <1>1, <1>2, <1>5, <1>7, <2>6 DEF TypeOK
  <2>8. RecordedAsStored'
    BY <1>1, <1>2, <1>4, <2>2, <2>3, <2>4, <2>5
       DEF RecordedAsStored, Recording, DefaultFormat
  <2> QED BY <1>3, <2>7, <2>8
<1> QED BY <1>6, <1>7 DEF Start

LEMMA TakeSnapshotInvariant ==
  ASSUME IInv, NEW format, TakeSnapshot(format)
  PROVE  IInv'
<1> USE DEF IInv, TakeSnapshot
<1>1. snapshot' \in Image /\ snapshot'.size = mVideoFormat.size
  BY DEF SnapshotLaunch, IsSupportedImageFileFormat, Image, TypeOK, VideoFormat
<1>2. TypeOK'
  BY <1>1 DEF TypeOK
<1>3. StoredAsTold'
  BY DEF StoredAsTold, DefaultFormat
<1>4. RecordedAsStored'
  BY <1>1 DEF RecordedAsStored, Recording, DefaultFormat
<1> QED BY <1>2, <1>3, <1>4

LEMMA NextInvariant == IInv /\ [Next]_vars => IInv'
<1> SUFFICES ASSUME IInv, [Next]_vars PROVE IInv'
  OBVIOUS
<1>1. CASE UNCHANGED vars
  BY <1>1 DEF vars, IInv, TypeOK, StoredAsTold, RecordedAsStored, Recording, DefaultFormat
<1>2. CASE Next
  BY <1>2, OpenInvariant, StateInvariant, SetOutputFormatInvariant, SetVideoFormatInvariant,
     SetAudioFormatInvariant, StartInvariant, TakeSnapshotInvariant DEF Next
<1> QED BY <1>1, <1>2

-----------------------------------------------------------------------------
\* Theorems.

LEMMA Invariance == Spec => []IInv
  BY InitInvariant, NextInvariant, PTL DEF Spec

\* No request, start or snapshot leaves the types of the settings.
THEOREM TypeCorrect == Spec => []TypeOK
<1>1. IInv => TypeOK
  BY DEF IInv
<1> QED BY Invariance, <1>1, PTL

LEMMA ToldTypes ==
  ASSUME TypeOK
  PROVE  told.videoRate \in Int /\ told.audio.sampleRate \in Int
         /\ told.audio.channels \in Int /\ told.audio.bitRate \in Int
<1>1. told.audio \in AudioRequest \cup {NoAudio} /\ told.videoRate \in Int
  BY DEF TypeOK
<1>2. CASE told.audio \in AudioRequest
  BY <1>1, <1>2 DEF AudioRequest
<1>3. CASE told.audio = NoAudio
  BY <1>1, <1>3 DEF NoAudio
<1> QED BY <1>1, <1>2, <1>3

\* The fields of what is stored.
LEMMA StoredFields ==
  ASSUME StoredAsTold
  PROVE  /\ mAudioFormat.codec = told.audio.codec
         /\ mAudioFormat.sampleRate = Unsigned(told.audio.sampleRate)
         /\ mAudioFormat.channels = Unsigned(told.audio.channels)
         /\ mAudioFormat.bitRate =
              AudioRate(Unsigned(told.audio.channels), Unsigned(told.audio.bitRate))
<1>1. mAudioFormat = Stored(told.audio)
  BY DEF StoredAsTold
<1> DEFINE rate == AudioRate(Unsigned(told.audio.channels), Unsigned(told.audio.bitRate))
<1>2. mAudioFormat = [codec |-> told.audio.codec, sampleRate |-> Unsigned(told.audio.sampleRate),
                      channels |-> Unsigned(told.audio.channels), bitRate |-> rate]
  BY <1>1 DEF Stored
<1> HIDE DEF rate
<1>3. /\ mAudioFormat.codec = told.audio.codec
      /\ mAudioFormat.sampleRate = Unsigned(told.audio.sampleRate)
      /\ mAudioFormat.channels = Unsigned(told.audio.channels)
      /\ mAudioFormat.bitRate = rate
  BY <1>2
<1> QED BY <1>3 DEF rate

LEMMA StoredImpliesBuilt == IInv => BuiltAsTold
<1> SUFFICES ASSUME IInv, Recording PROVE BuiltAsTold
  BY DEF BuiltAsTold
<1>0. TypeOK /\ StoredAsTold /\ RecordedAsStored
  BY DEF IInv
<1>1. recording.format = IF told.format = "" THEN DefaultFormat ELSE told.format
  BY <1>0 DEF StoredAsTold, RecordedAsStored
<1>2. Fits(told.videoRate) => recording.videoRate = VideoRate(told.videoRate)
  BY <1>0, ToldTypes, UnsignedType DEF StoredAsTold, RecordedAsStored
<1>3. recording.audio.codec = told.audio.codec
  BY <1>0, StoredFields DEF RecordedAsStored
<1>4. /\ Fits(told.audio.sampleRate) => recording.audio.sampleRate = told.audio.sampleRate
      /\ Fits(told.audio.channels) => recording.audio.channels = told.audio.channels
  BY <1>0, StoredFields, ToldTypes, UnsignedType DEF RecordedAsStored
<1>5. ASSUME Fits(told.audio.channels), told.audio.bitRate \in 0..IntMax
      PROVE  recording.audio.bitRate = UsableRate(told.audio.channels, told.audio.bitRate)
  <2>1. Fits(told.audio.bitRate)
    BY <1>5, SettingsAssumption DEF Fits, UnsignedMax
  <2>2. /\ Unsigned(told.audio.channels) = told.audio.channels
        /\ Unsigned(told.audio.bitRate) = told.audio.bitRate
        /\ told.audio.channels \in Nat /\ told.audio.bitRate \in Nat
    BY <1>0, <1>5, <2>1, ToldTypes, UnsignedType
  <2>3. told.audio.channels <= MaxChannels /\ told.audio.bitRate <= IntMax
    <3>1. mAudioFormat.channels = told.audio.channels
      BY <1>0, <2>2, StoredFields
    <3>2. mAudioFormat.channels <= MaxChannels
      BY <1>0 DEF StoredAsTold
    <3> QED BY <1>5, <3>1, <3>2, SettingsAssumption
  <2>4. mAudioFormat.bitRate = AudioRate(told.audio.channels, told.audio.bitRate)
    BY <1>0, <2>2, StoredFields
  <2>5. mAudioFormat.bitRate <= IntMax
    BY <2>2, <2>3, <2>4, AudioRateFits
  <2> QED BY <1>0, <2>2, <2>4, <2>5, AudioRateType DEF RecordedAsStored
<1> QED BY <1>1, <1>2, <1>3, <1>4, <1>5 DEF BuiltAsTold

\* The pipeline of a recording has the settings the client was last told are accepted, with
\* an audio bit rate that is enough for its channels, where the numbers fit their types.
THEOREM SettingsReachPipeline == Spec => []BuiltAsTold
  BY Invariance, StoredImpliesBuilt, PTL

\* A snapshot is asked for in the size of its recording.
THEOREM SnapshotsFit == Spec => []SnapshotFits
<1>1. IInv => SnapshotFits
  BY DEF IInv, SnapshotFits, RecordedAsStored
<1> QED BY Invariance, <1>1, PTL
=============================================================================
