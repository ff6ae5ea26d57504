SPECIFICATION FairSpec
CONSTANTS
  s1 = s1
  s2 = s2
  a1 = a1
  a2 = a2
  Sockets <- OneSocket
  Addresses <- OneAddress
  AddressOf <- SharedAddress
  NumResults = 2
  MaxFd = 3
  MaxConnects = 3
  MaxTries = 4
  MaxDepth = 4
  HangupIsWritable = TRUE
  SyncErrors = FALSE
  Habits <- Careful
  CloseIn <- CloseSignals
  ConnectIn <- ConnectSignals
INVARIANTS LeaksNothing
PROPERTIES DataSignalsOnlyWhenOpen ImplementsProtocol
CHECK_DEADLOCK FALSE
