SPECIFICATION Spec
CONSTANTS
  r1 = r1
  r2 = r2
  p1 = p1
  p2 = p2
  None = None
  Alive = Alive
  Failure = Failure
  Requests <- TwoRequests
  Detectors <- NoDetector
  Polls <- TwoPolls
  Races = TRUE
  Unreliable = TRUE
  MaxCrashes = 1
SYMMETRY Symmetry
INVARIANTS
  AnswersNotMixed
  NoAnswerLost
\* The page may have nothing left to ask for.
CHECK_DEADLOCK FALSE
