SPECIFICATION FairSpec
CONSTANTS
  yes = yes
  no = no
  None = None
  Answers <- TwoAnswers
  NoAnswer = None
  MaxFaults = 2
  MaxSteps = 2
CHECK_DEADLOCK FALSE
INVARIANTS
  TypeOK
  NothingLeftBehind
  FailureStaysVisible
  ClosedByRightOnly
PROPERTIES
  IsDisplay
  SessionEnds
  NeverTrapped
