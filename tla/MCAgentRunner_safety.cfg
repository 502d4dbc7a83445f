SPECIFICATION Spec
CONSTANTS
  Runners = {1}
  Sessions = {s1}
  SessionOf <- OneSession
  Workers = {w1}
  Slots = {k1, k2}
  WorkerOf <- OneWorker
  Controls = {c1, c2}
  Continuous = {}
  WecomTasks = {1}
  FinalizeMaxFailures = 2
  MaxFaults = 2
  MaxRevision = 3
  NoRunner = NoRunner
  NoWorker = NoWorker
  NoControl = NoControl
SYMMETRY Symmetry
INVARIANTS
  SingleAuthority
  ResumePointer
  NoControlLeftOpen
  BlockedMarkerCurrent
  NoReplay
  CancelledMeansStopped
PROPERTIES
  IntentDecides
CHECK_DEADLOCK FALSE
