SPECIFICATION Spec
CONSTANTS
  b = b
  ProgSize = 2
  DataSize = 2
  Bits <- MCBits
  Requests <- TrimmedRequests
  Images <- DataInUse
  MaxCrashes = 0
PROPERTY WritesOnlyNamedAreas
