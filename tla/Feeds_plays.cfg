CONSTANTS
  c1 = c1
  c2 = c2
  f1 = f1
  f2 = f2
  u1 = u1
  u2 = u2
  u3 = u3
  w1 = w1
  w2 = w2
  Cves <- TwoCves
  MaxVer = 2
  Bare <- LastBare
  Fills <- TwoFills
  Windows = 2
  Nobody = Nobody
  Clicks <- ThreeClicks
  MaxMade = 2
  Writers <- TwoWriters
  Forms <- SomeForms
  MaxCalls = 3
SPECIFICATION MCSpec
SYMMETRY Sym
INVARIANTS
  FeedsInv
  CancelHonoured
  StoreTrue
  ArithmeticTrue
PROPERTIES
  RunningKept
  SavesKept
CHECK_DEADLOCK FALSE
