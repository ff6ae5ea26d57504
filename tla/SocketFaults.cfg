SPECIFICATION Spec
CONSTANTS
  s1 = s1
  s2 = s2
  a1 = a1
  a2 = a2
  Sockets <- TwoSockets
  Addresses <- OneAddress
  AddressOf <- SharedAddress
  NumResults = 1
  MaxFd = 2
  MaxConnects = 1
  MaxTries = 2
  MaxDepth = 3
  HangupIsWritable = TRUE
  SyncErrors = TRUE
  Habits <- Hasty
  CloseIn <- AnySignal
  ConnectIn <- AnySignal
INVARIANTS HandlesOwned WatchesNeedChannel
CHECK_DEADLOCK FALSE
