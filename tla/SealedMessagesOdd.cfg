SPECIFICATION MessageSpec
CONSTANTS
  Bytes = {0, 1, 127, 128, 254, 255}
  MaxLength = 6
CHECK_DEADLOCK FALSE
INVARIANT IsInternetChecksum
