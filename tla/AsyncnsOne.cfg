SPECIFICATION FairSpec
CONSTANTS
  w1 = w1
  w2 = w2
  Workers <- OneWorker
  MaxQueries = 4
  IdSpan = 4
  QueueLen = 1
  Kinds <- TwoKinds
  MaxIssues = 5
  CancelsPending = FALSE
  WorkersLeave = TRUE
  WorkersCrash = FALSE
INVARIANTS TypeOK FirstInFirstOut AnswersOwn AssertionsHold
PROPERTIES CallsReturn ImplementsService
CHECK_DEADLOCK FALSE
