SPECIFICATION Spec
CONSTANTS
  Runners = {1, 2}
  Sessions = {s1}
  SessionOf <- OneSession
  Workers = {k1, k2}
  Slots = {k1, k2}
  WorkerOf <- OwnWorker
  Controls = {c1, c2}
  Continuous = {1}
  WecomTasks = {1}
  FinalizeMaxFailures = 2
  MaxFaults = 1
  MaxRevision = 1
  NoRunner = NoRunner
  NoWorker = NoWorker
  NoControl = NoControl
SYMMETRY WorkerSymmetry
INVARIANTS
  OwnerInStep
  ClaimIffActive
PROPERTIES
  CommandHolds
  ImplementsTurns
CHECK_DEADLOCK FALSE
