SPECIFICATION Spec
CONSTANTS
  Programs <- MCPrograms
  InputNames = {"a", "b"}
  DebounceTicks = 2
  MaxAge = 7
INVARIANTS
  TypeOK
  SentencesKept
  OnForTime
PROPERTIES
  OutputFollows
  ChangesDebounced
  InputSettles
