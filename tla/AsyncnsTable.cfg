SPECIFICATION Spec
CONSTANTS
  w1 = w1
  w2 = w2
  Workers <- TwoWorkers
  MaxQueries = 3
  IdSpan = 6
  QueueLen = 1
  Kinds <- OneKind
  MaxIssues = 6
  CancelsPending = TRUE
  WorkersLeave = FALSE
  WorkersCrash = TRUE
INVARIANTS TableConsistent DoneListExact
CHECK_DEADLOCK FALSE
