SPECIFICATION FairSpec
CONSTANTS
  RecorderIds = {r1, r2}
  Pids = {p1, p2}
  NoRecorder = NoRecorder
  NoProcess = NoProcess
  ForkFailed = ForkFailed
  MaxPending = 2
  Env = {"cameraFail"}
PROPERTIES
  Answered
\* A close after a refused start blocks the service in wait().
CHECK_DEADLOCK FALSE
