SPECIFICATION MCSpec
CONSTANTS
  BufSize = 24
  HeaderLen = 3
  Sizes = {2, 4, 5, 15}
  MaxEntries = 5
  Names = {n1}
  Prios = {0, 1, 2}
  Ports = {80, 81}
  StartPrio = 2
  NoPort = 0
  MaxQuestions = 1
  MaxAnswers = 3
INVARIANTS TypesOK ListArrives BufferRespected ResultExact OwnerOnlyIfBad
CHECK_DEADLOCK FALSE
