SPECIFICATION Spec
CONSTANTS
  User = User
  Requesters = {Server}
  Addresses = {a}
  Macs = {m1}
  NoIP = NoIP
  NoMac = NoMac
  Empty = Empty
  Frames <- HostFrames
  Slots = {0}
  RequestQueueSize = 1
  RecieveQueueSize = 1
  CacheExpiration = 1
  RequestExpiration = 1
  HeapMayFail = FALSE
  MaxTime = 3
VIEW WithoutHistory
INVARIANT RequestPointerLive
