\* Does a cancelled order stay cancelled while the scheduler runs?
SPECIFICATION Spec
CONSTANTS
  o1 = o1
  c1 = c1
  t1 = t1
  Orders = {o1}
  Calls = {c1}
  Ticks = {t1}
  NLines = 1
  MaxCalls = 3
  MaxFailures = 0
  CanCrash = FALSE
PROPERTIES
  CancelledIsFinal
CHECK_DEADLOCK FALSE
