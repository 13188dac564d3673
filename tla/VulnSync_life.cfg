SPECIFICATION SyncSpec
CONSTANTS
  s1 = s1
  s2 = s2
  a1 = a1
  Scans <- TwoScans
  Analysts <- OneAnalyst
SYMMETRY Alike
INVARIANTS
  SyncInv
PROPERTIES
  SyncKeepsPromises
  ResolvedOnlyIfReached
CHECK_DEADLOCK FALSE
