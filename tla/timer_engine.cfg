SPECIFICATION FairSpec
CONSTANTS
  Timers = {t1, t2}
  Space = 2
  Elapses = {1, 4, 5}
  Repeats = {1, 2, Infinity}
  Infinity = Infinity
  NoTimeLeave = 100
INVARIANTS
  TypeOK
  CountdownIsEarliest
  NeverTooLate
PROPERTIES
  Implements
  ArmedFires
CHECK_DEADLOCK FALSE
