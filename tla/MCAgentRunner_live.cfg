SPECIFICATION FairSpec
CONSTANTS
  Runners = {1}
  Sessions = {s1}
  SessionOf <- OneSession
  Workers = {w1}
  Slots = {k1, k2}
  WorkerOf <- OneWorker
  Controls = {c1}
  Continuous = {1}
  WecomTasks = {1}
  FinalizeMaxFailures = 2
  MaxFaults = 2
  MaxRevision = 2
  NoRunner = NoRunner
  NoWorker = NoWorker
  NoControl = NoControl
PROPERTIES
  CancellationEnds
  FinalizationEnds
  AttemptEnds
CHECK_DEADLOCK FALSE
