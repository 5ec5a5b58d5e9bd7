SPECIFICATION Spec
CONSTANTS
  near = near
  far = far
  b1 = b1
  b2 = b2
  b3 = b3
  Blocks <- MCBlocks
  LocalHosts <- MCLocalHosts
  FarHosts <- MCFarHosts
  Requests <- MCRequests
  Pinged <- MCPinged
  Gateway = Gateway
  MyIP = MyIP
  Broadcast = Broadcast
  Quench = 2
  Macs = {m}
  NoIP = NoIP
  NoMac = NoMac
  None = None
  RepliesSize = 2
  RingFrames = 1
  IdentSize = 4
  IdentCut = 2
VIEW WithoutWire
SYMMETRY BlockSymmetry
INVARIANTS TypeOK BufferOwned FrameStable SealedOnWire IdentsDistinct
PROPERTY AbsSpec
