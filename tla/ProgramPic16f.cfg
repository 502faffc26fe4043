SPECIFICATION FairSpec
CONSTANTS
  b = b
  ProgSize = 2
  DataSize = 2
  Bits <- MCBits
  Requests <- MCRequests
  Images <- MCImages
  MaxCrashes = 1
INVARIANTS
  TypeOK
  CommandsHeard
  NeverRunsFirmware
  UnpoweredWhenWaiting
  CyclesAddressed
  ImageProgrammed
  AnswerFaithful
PROPERTIES
  MemoryKept
  ImplementsService
  EveryRequestAnswered
