SPECIFICATION DeliverySpec
CONSTANTS
  b1 = b1
  b2 = b2
  q1 = q1
  q2 = q2
  Blocks <- TwoBlocks
  Requests <- TwoRequests
  Plans <- EveryPlan
  PlansTwice <- SinglePass
  MaxRounds = 2
  MaxCrashes = 1
INVARIANTS
  DeliveryInv
  StopIsKept
  StopKeepsFromExploit
  CompletedIsWhole
PROPERTIES
  ScanRowLife
SYMMETRY Alike
CHECK_DEADLOCK FALSE
