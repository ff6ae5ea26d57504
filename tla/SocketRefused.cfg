SPECIFICATION FairSpec
CONSTANTS
  s1 = s1
  s2 = s2
  a1 = a1
  a2 = a2
  Sockets <- OneSocket
  Addresses <- OneAddress
  AddressOf <- SharedAddress
  NumResults = 2
  MaxFd = 3
  MaxConnects = 1
  MaxTries = 2
  MaxDepth = 2
  HangupIsWritable = TRUE
  SyncErrors = FALSE
  Habits <- Careful
  CloseIn <- NoSignal
  ConnectIn <- NoSignal
PROPERTIES OkMeansEstablished
CHECK_DEADLOCK FALSE
