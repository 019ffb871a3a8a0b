SPECIFICATION Spec
CONSTANTS
  RecorderIds = {r1, r2}
  Pids = {p1, p2, p3}
  NoRecorder = NoRecorder
  NoProcess = NoProcess
  ForkFailed = ForkFailed
  MaxPending = 2
  Env = {"idClash", "forkFail", "badFormat", "audioSnapshot", "cameraFail", "pauseFail", "subscribeFail"}
SYMMETRY Symmetry
INVARIANTS
  StateMatchesPipeline
PROPERTIES
  ReapsOwn
\* A close after a refused start blocks the service in wait().
CHECK_DEADLOCK FALSE
