SPECIFICATION FairSpec
CONSTANTS
  Dispatchers = {d1}
  Schedules <- OnlyWindow
  MaxTime = 1
  Grace = 0
  MaxManual = 1
  MaxAttempts = 1
  MaxCommands = 1
  MaxFaults = 3
INVARIANTS
  RecoveryBounded
PROPERTIES
  LostBehindBlocked
  ImplementsLedger
  PendingSettles
  InterruptionEnds
CHECK_DEADLOCK FALSE
