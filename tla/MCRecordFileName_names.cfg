\* Two recorders with a video source, two files, seconds of two readings.
CONSTANTS
  RecorderIds = {r1, r2}
  Targets = {"media"}
  Requests <- SomeRequests
  AudioOnly = {}
  Second = 2
  LocalTime <- SummerTimeEnds
  MaxClock = 4
  MaxFiles = 2
SPECIFICATION Spec
SYMMETRY Symmetry
INVARIANTS TypeOK KeptFile
