SPECIFICATION Spec
CONSTANTS
  w1 = w1
  w2 = w2
  Workers <- TwoWorkers
  Schedules <- TwoIds
  Plan <- SmallPlan
  Faulty <- LastFails
  MaxAge = 2
  MaxWait = 1
  MaxChecks = 1
  MaxMishaps = 1
INVARIANTS
  ScheduleInv
PROPERTIES
  RepeatNeedsCause
  NoneStarves
