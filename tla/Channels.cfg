SPECIFICATION MCSpec
CONSTANTS
  b = b
  m = m
  t = t
  Channels <- ThreeChannels
  Bottom <- TheSocket
  Users <- FourUsers
  Flights = 2
  Problems = {"UNTRUSTED_CERT"}
  Clients <- BothClients
  MaxIncoming = 2
  Room = 1
  MaxOpens = 2
INVARIANTS TypesOK InStep RefsCounted SessionFreedOnce PlainOnlyBefore
PROPERTIES InOrder SignalsOfCurrentInner DataOnlyFromSecure LoopsEnd
CHECK_DEADLOCK FALSE
