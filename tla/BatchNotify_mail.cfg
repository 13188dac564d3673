SPECIFICATION BatchSpec
CONSTANTS
  m1 = m1
  m2 = m2
  m3 = m3
  Members <- Three
  Watchful <- Two
  MaxStops = 1
  MaxLosses = 2
INVARIANTS
  MailInv
  OneTimelyMail
  SilenceNeedsCause
CHECK_DEADLOCK FALSE
