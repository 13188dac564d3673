SPECIFICATION LiveSpec
CONSTANTS
  b1 = b1
  b2 = b2
  q1 = q1
  q2 = q2
  Blocks <- TwoBlocks
  Requests <- TwoRequests
  Plans <- EveryPlan
  MaxRounds = 1
  MaxCrashes = 1
PROPERTIES
  ComesToRest
  StopKillsParentScan
CHECK_DEADLOCK FALSE
