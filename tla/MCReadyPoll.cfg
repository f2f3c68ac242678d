SPECIFICATION FairSpec
CONSTANTS
  Answers <- MCAnswers
  Empty <- MCEmpty
  Final <- MCFinal
  Becoming = "04/01"
  InitRequired = "04/02"
  Poll = 1
  Stall = 6
  TurTime = 1
  StartTime = 1
  MaxEmpty = 3
INVARIANTS
  PollBounded
  StallIsNotEmpty
PROPERTY
  PollEnds
CHECK_DEADLOCK FALSE
