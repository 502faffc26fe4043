SPECIFICATION Spec
CONSTANTS
  b = b
  ProgSize = 2
  DataSize = 2
  Bits <- MCBits
  Requests <- ResetRequests
  Images <- MCImages
  MaxCrashes = 0
INVARIANT ChipEraseOnlyForType3
