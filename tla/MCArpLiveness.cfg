SPECIFICATION MCSpec
CONSTANTS
  User = User
  Requesters = {User, Server}
  Addresses = {a}
  Macs = {m1}
  NoIP = NoIP
  NoMac = NoMac
  Empty = Empty
  Frames <- AllFrames
  Slots = {0}
  RequestQueueSize = 1
  RecieveQueueSize = 1
  CacheExpiration = 1
  RequestExpiration = 1
  HeapMayFail = FALSE
  MaxTime = 2
INVARIANT NoLostRequest
PROPERTY RequestAnswered
