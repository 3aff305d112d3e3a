SPECIFICATION FairSpec
CONSTANTS
  PtsWrap = 32768
  Times = {0, 100000000, 200000000}
  Far = 200000000
  None = 999999999
  Reorder = 100000000
  Failures = TRUE
  MaxPads <- OneOfEach
  MaxBuffers = 3
  MaxSessions = 2
INVARIANTS TypeOK InTimeOrder NeverTooLate
PROPERTIES PicksEarliest NoneStarved
CHECK_DEADLOCK FALSE
