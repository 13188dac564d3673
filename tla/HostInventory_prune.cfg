CONSTANTS
  Scans = {s1, s2}
  Hosts <- MCHosts
  InScope <- MCHosts
  Tcp <- MCTcp
  Udp <- MCUdp
  Common <- MCCommon
  Top <- MCTop
  Requests <- MCRequests
  Truths <- MCTruths
  Kept <- MCKept
  Workers = 2
  Oversubscribe = 1
  MaxBatches = 4
  Volatile <- MCVolatile
  Slow = TRUE
  MaxChanges = 1
  MaxLosses = 1
SPECIFICATION Spec
SYMMETRY MCSymmetry
CHECK_DEADLOCK FALSE
INVARIANTS
  PruneInv
  Agrees
  CompanyInv
