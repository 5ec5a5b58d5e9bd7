SPECIFICATION FairSpec
CONSTANTS
  Nodes = {n1, n2, n3}
  EchoServer = EchoServer
  Codes = {0, 252}
  None = None
  HeapMayFail = TRUE
  MaxPings = 3
INVARIANTS
  TypeOK
  ListenersLive IteratorLive
PROPERTIES
  ToldTheTruth
  PingEnds
