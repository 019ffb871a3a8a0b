\* Three pipelines, and every call in every order.
CONSTANTS
  V4l2 = FALSE
  Rates = {0, 1, 2}
  MaxPipelines = 3
  MaxQueued = 1
SPECIFICATION Spec
INVARIANTS TypeOK RateApplied NoStray
PROPERTY FedToCurrent
\* The encoder is deleted.
CHECK_DEADLOCK FALSE
