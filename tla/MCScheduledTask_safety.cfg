SPECIFICATION Spec
CONSTANTS
  Dispatchers = {d1, d2}
  Schedules <- AllKinds
  MaxTime = 2
  Grace = 0
  MaxManual = 1
  MaxAttempts = 1
  MaxCommands = 2
  MaxFaults = 1
SYMMETRY DispatcherSymmetry
INVARIANTS
  PausedHoldsNothing
  OncePerDue
  NoOrphan
  OnceUsedUp
PROPERTIES
  AnswerSettlesItsOwn
CHECK_DEADLOCK FALSE
