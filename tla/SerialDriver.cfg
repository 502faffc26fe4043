SPECIFICATION Spec
CONSTANTS
  CommandSize = 6
  DataBits = 14
  Loads <- MCLoads
  Reads <- MCReads
  Simples <- MCSimples
  Words <- MCWords
  Adapters = {FALSE, TRUE}
  NoWord = NoWord
  None = None
INVARIANTS
  FramesInStep
  OneDriver
  LineDefined
PROPERTY ImplementsChannel
