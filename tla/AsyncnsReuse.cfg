SPECIFICATION Spec
CONSTANTS
  w1 = w1
  w2 = w2
  Workers <- OneWorker
  MaxQueries = 2
  IdSpan = 4
  QueueLen = 2
  Kinds <- TwoKinds
  MaxIssues = 3
  CancelsPending = TRUE
  WorkersLeave = FALSE
  WorkersCrash = FALSE
INVARIANTS AssertionsHold
CHECK_DEADLOCK FALSE
