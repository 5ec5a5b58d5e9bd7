SPECIFICATION FairSpec
CONSTANTS
  Senders = {s1, s2}
  Payloads = {p1, p2}
  None = None
  QueueSize = 1
  NumTxFrag = 3
  SemCap = 2
INVARIANTS
  TypeOK
  ItemsLive
  NoLostWakeup
PROPERTIES
  SendReturns
  AbsSpec
