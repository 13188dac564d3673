CONSTANTS
  root = root
  ann = ann
  joe = joe
  b1 = b1
  b2 = b2
  r1 = r1
  r2 = r2
  Users <- ThreeUsers
  Browsers <- TwoBrowsers
  Reqs <- TwoReqs
  Nobody = Nobody
  MaxTries = 2
  GuardOn = TRUE
  LdapOn = TRUE
  LdapRole = "viewer"
SPECIFICATION MCSpec
SYMMETRY Sym
INVARIANTS
  AccessInv
  LaunchEarned
PROPERTIES
  AdminsKept
  LockHolds
