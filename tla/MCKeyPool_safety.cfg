SPECIFICATION Spec
CONSTANTS
  r1 = r1
  r2 = r2
  r3 = r3
  r4 = r4
  main = main
  NoLoop = NoLoop
  Calls = {r1, r2, r3, r4}
  N = 2
  Permits = 1
  LoopOf <- OneLoop
  Cancellable = {r1, r2, r3, r4}
  MaxGen = 1
SYMMETRY CallSymmetry
INVARIANTS
  WithinLimit
  PermitsAccounted
  NoIdlePermit
CHECK_DEADLOCK FALSE
