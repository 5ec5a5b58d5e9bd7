SPECIFICATION Spec
CONSTANTS
  Nodes = {n1, n2, n3}
  EchoServer = EchoServer
  Codes = {0, 255}
  None = None
  HeapMayFail = FALSE
  MaxPings = 2
PROPERTY
  UnreachableReported
