SPECIFICATION MCSpec
CONSTANTS
  Resolvers = {r1, r2}
  MaxDepth = 4
  MaxTold = 2
  Clients <- CarefulAndHasty
  SessionFails = TRUE
  WorkersLeave = TRUE
  WorkersCrash = TRUE
  BadAnswers = TRUE
  Sockets = {s1, s2}
  MaxResults = 2
  MaxLookups = 3
INVARIANTS TypesOK ReferencesKept ReleasesOnce
INVARIANTS FreedAtLast WholeWalk
PROPERTIES ResultTrue BothImplementLookup
CHECK_DEADLOCK FALSE
