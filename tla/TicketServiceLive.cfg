SPECIFICATION FairSpec
CONSTANTS
  r1 = r1
  r2 = r2
  p1 = p1
  p2 = p2
  None = None
  Alive = Alive
  Failure = Failure
  Requests <- TwoRequests
  Detectors <- NoDetector
  Polls <- TwoPolls
  Races = FALSE
  Unreliable = FALSE
  MaxCrashes = 0
PROPERTIES
  LoaderStops
  AnswerShown
  PollingStops
\* The page may have nothing left to ask for.
CHECK_DEADLOCK FALSE
