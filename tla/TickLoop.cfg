SPECIFICATION Spec
CONSTANTS
  Examples = {"timer0", "timer2", "debouncing", "free"}
  Top = 4
  Reload = 2
  First = 3
  PR2 = 1
  Postscaler = 2
  DebounceTicks = 3
  MaxElapsed = 12
INVARIANTS
  RunsOnTime
PROPERTIES
  ChangesDebounced
  OutputFollows
