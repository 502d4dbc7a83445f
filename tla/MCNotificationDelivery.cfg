SPECIFICATION FairSpec
CONSTANTS
  task = task
  browser = browser
  None = None
  w1 = w1
  w2 = w2
  Dispatchers = {w1, w2}
  Messages = {task}
  Targets = {browser}
  Concurrency = 1
  MaxAttempts = 2
  MaxActs = 2
  MaxFaults = 2
INVARIANTS
  CallsBounded
  RepeatsExcused
  OffMeansNone
PROPERTIES
  SendWanted
  Settles
CHECK_DEADLOCK FALSE
