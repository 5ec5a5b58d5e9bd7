SPECIFICATION StartFairSpec
CONSTANTS
  Frames = {f1, f2}
  None = None
  NumRxFrag = 6
  Listeners = 2
  SemCap = 2
  Statuses <- MCStatuses
  Tries = 2
INVARIANTS
  StartTypeOK
  NoFrameAsleep
  ConfiguredAsSeen
PROPERTIES
  FrameUntouched
  AbsFairSpec
  InitEnds
VIEW WithoutPhy
