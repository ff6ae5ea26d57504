SPECIFICATION Spec
CONSTANTS
  s1 = s1
  s2 = s2
  a1 = a1
  a2 = a2
  Sockets <- TwoSockets
  Addresses <- TwoAddresses
  AddressOf <- OwnAddress
  NumResults = 1
  MaxFd = 2
  MaxConnects = 1
  MaxTries = 1
  MaxDepth = 2
  HangupIsWritable = TRUE
  SyncErrors = FALSE
  Habits <- Careful
  CloseIn <- NoSignal
  ConnectIn <- NoSignal
INVARIANTS ValidHandleIsOpen
CHECK_DEADLOCK FALSE
