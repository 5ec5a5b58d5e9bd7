SPECIFICATION Spec
CONSTANTS
  User = User
  Requesters = {Server}
  Addresses = {a, b}
  Macs = {m1, m2}
  NoIP = NoIP
  NoMac = NoMac
  Empty = Empty
  Frames <- HostFrames
  Slots = {0, 1}
  RequestQueueSize = 1
  RecieveQueueSize = 1
  CacheExpiration = 1
  RequestExpiration = 0
  HeapMayFail = FALSE
  MaxTime = 3
VIEW WithoutHistory
SYMMETRY MCSymmetry
INVARIANT CacheCoherent
PROPERTY AbsSpec
