SPECIFICATION GuiSpec
CONSTANTS
  Low <- MCLow
  High <- MCHigh
  Starts <- MCStarts
  Homes <- MCHomes
  MaxSessions = 2
INVARIANTS
  NeverAskedTwice
  NearestFirst
  NothingCloseOverlooked
  FoundAtOnce
PROPERTIES
  SearchEnds
  ServesWhatWasFound
\* The search is over when it found the service or gave up.
CHECK_DEADLOCK FALSE
