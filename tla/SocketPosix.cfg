SPECIFICATION Spec
CONSTANTS
  s1 = s1
  s2 = s2
  a1 = a1
  a2 = a2
  Sockets <- OneSocket
  Addresses <- OneAddress
  AddressOf <- SharedAddress
  NumResults = 3
  MaxFd = 4
  MaxConnects = 2
  MaxTries = 6
  MaxDepth = 4
  HangupIsWritable = FALSE
  SyncErrors = FALSE
  Habits <- Careful
  CloseIn <- CloseSignals
  ConnectIn <- ConnectSignals
INVARIANTS TypeOK OnlyTrackedDispatched LeaksOnlyDead NoUseAfterFinalize
PROPERTIES OkMeansEstablished TriedAllMeansAll
CHECK_DEADLOCK FALSE
