SPECIFICATION Spec
CONSTANTS
  RecorderIds = {r1, r2}
  Pids = {p1, p2}
  NoRecorder = NoRecorder
  NoProcess = NoProcess
  ForkFailed = ForkFailed
  MaxPending = 2
  Env = {"idClash", "badFormat", "audioSnapshot", "cameraFail", "loadFail", "pauseFail", "subscribeFail", "timeout", "crash", "crashEarly", "forkFail"}
SYMMETRY Symmetry
INVARIANTS
  TypeOK
  NoNullDereference
  ProcessBalance
  OwnChild
  RecordingWasStarted
  
PROPERTIES
  ImplementsContract
