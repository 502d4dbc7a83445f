SPECIFICATION Spec
CONSTANTS
  d1 = d1
  d2 = d2
  Drivers <- TwoLeaders
  D = 1
  N = 2
  MaxReopened = 1
  Limit = 2
  MaxOutboxAttempts = 1
  MaxFaults = 0
INVARIANT SentOnce
SYMMETRY LeaderSymmetry
CHECK_DEADLOCK FALSE
