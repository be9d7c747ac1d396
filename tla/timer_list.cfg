SPECIFICATION Spec
CONSTANTS
  t1 = t1
  t2 = t2
  t3 = t3
  t4 = t4
  NULL = NULL
  Timers = {t1, t2, t3}
  Delays = {1, 2, 3}
  MaxTime = 4
SYMMETRY Perms
INVARIANTS
  TypeOK
  WellLinked
  Ascending
  NothingLost
PROPERTIES
  ImplementsTimerSet
CHECK_DEADLOCK FALSE
