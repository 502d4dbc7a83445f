SPECIFICATION FairSpec
CONSTANTS
  d1 = d1
  d2 = d2
  Drivers <- Leader
  D = 2
  N = 2
  MaxReopened = 1
  Limit = 2
  MaxOutboxAttempts = 1
  MaxFaults = 1
INVARIANTS
  AttemptsSendOnce
  InOrder
  NotSentHolds
  VerdictHolds
  Charged
PROPERTIES
  RunEnds
CHECK_DEADLOCK FALSE
