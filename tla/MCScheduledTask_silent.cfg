SPECIFICATION Spec
CONSTANTS
  Dispatchers = {d1, d2}
  Schedules <- OnlyOnce
  MaxTime = 2
  Grace = 0
  MaxManual = 1
  MaxAttempts = 1
  MaxCommands = 2
  MaxFaults = 1
SYMMETRY DispatcherSymmetry
INVARIANTS
  NothingSilent
CHECK_DEADLOCK FALSE
