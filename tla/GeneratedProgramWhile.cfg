SPECIFICATION Spec
CONSTANTS
  Programs <- MCWhilePrograms
  InputNames = {"a", "b"}
  DebounceTicks = 2
  MaxAge = 7
PROPERTY
  WhileHolds
