SPECIFICATION Spec
CONSTANTS
  RecorderIds = {r1, r2}
  Pids = {p1, p2}
  NoRecorder = NoRecorder
  NoProcess = NoProcess
  ForkFailed = ForkFailed
  MaxPending = 2
  Env = {}
PROPERTIES
  GivenUpSnapshotFails
