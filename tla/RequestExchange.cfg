SPECIFICATION Spec
CONSTANTS
  ProgSize = 2
  DataSize = 2
  Bits = {0, 1}
  NoFile = NoFile
  DeviceMetas <- MCDeviceMetas
  Actions <- MCActions
  HexFiles <- MCHexFiles
  Images <- MCImages
INVARIANTS
  TypeOK
  HexPlaced
  HexJudged
  RequestUnderstood
  AnswerUnderstood
  OneShotFaithful
