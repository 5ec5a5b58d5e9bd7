SPECIFICATION MCSpec
CONSTANTS
  User = User
  Requesters = {User, Server}
  Addresses = {a}
  Macs = {m1}
  NoIP = NoIP
  NoMac = NoMac
  Empty = Empty
  Frames <- AllFrames
  Slots = {0}
  RequestQueueSize = 1
  RecieveQueueSize = 1
  CacheExpiration = 1
  RequestExpiration = 1
  HeapMayFail = TRUE
  MaxTime = 2
PROPERTY RequestAnswered
