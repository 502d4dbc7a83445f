SPECIFICATION FairSpec
CONSTANTS
  Requests = {r1, r2}
  NProviders = 2
  Threshold = 2
INVARIANTS
  TrippedByFailures
PROPERTIES
  PrimaryRecovers
CHECK_DEADLOCK FALSE
