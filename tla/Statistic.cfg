SPECIFICATION LiveSpec
CONSTANTS
  Thread = {t1, t2}
  Stat = {s1, s2}
  MaxBumps = 1
  MaxLives = 2
  None = None
INVARIANTS RegisteredOnce NothingLost
PROPERTIES BumpedPrinted Returns
CHECK_DEADLOCK FALSE
