SPECIFICATION FairSystemSpec
CONSTANTS
  RecorderIds = {r1, r2}
  Pids = {p1, p2, p3}
  NoRecorder = NoRecorder
  NoProcess = NoProcess
  ForkFailed = ForkFailed
  MaxPending = 2
  Env = {"crash", "pauseFail"}
INVARIANTS
  WaitEnds
  CallsFit
PROPERTIES
  Answered
  ImplementsService
