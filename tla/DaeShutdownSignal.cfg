SPECIFICATION Spec
CONSTANTS
  Waiters = {w1, w2}
  Requesters = {r1}
PROPERTY WaitReturns
CHECK_DEADLOCK FALSE
