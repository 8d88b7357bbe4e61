\* Errors but no restart: do orders progress, is the lock always released?
SPECIFICATION FairSpec
CONSTANTS
  o1 = o1
  c1 = c1
  c2 = c2
  t1 = t1
  t2 = t2
  Orders = {o1}
  Calls = {c1, c2}
  Ticks = {t1, t2}
  NLines = 1
  MaxCalls = 3
  MaxFailures = 1
  CanCrash = FALSE
PROPERTIES
  LeavesAutomaticStretch
  LockIsReleased
CHECK_DEADLOCK FALSE
