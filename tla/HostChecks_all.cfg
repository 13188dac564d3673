SPECIFICATION ChecksSpec
CONSTANTS
  Hosts <- MCHosts
  h1 = h1
  h2 = h2
  UsedDoors <- Doors
  MaxOdd = 2
  MaxLost = 1
  nobody = nobody
  unseen = unseen
CHECK_DEADLOCK FALSE
INVARIANTS
  CheckInv
  FullReadIsExact
  NoBlindVerdict
SYMMETRY MCSymmetry
