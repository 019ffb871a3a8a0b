\* Three calls of one connector, with every fault.
CONSTANTS
  MaxCalls = 3
  Timeout = 1
  Env = {"stall", "timerFail", "reorder"}
SPECIFICATION FairSpec
INVARIANTS TypeOK OwnReply NoStrayWrite
PROPERTIES Returns
\* The connector is destroyed at the end.
CHECK_DEADLOCK FALSE
