CONSTANTS
  Procs = {p1, p2}
  TickMs = 250
  Capacity = 2
  BucketTTL = 4
  MaxDelay = 2
  MaxFailures = 2
  FailureWindow = 4
  LockDuration = 4
  MaxBegun = 6
SPECIFICATION Spec
SYMMETRY Symmetry
INVARIANTS BurstIsBounded GuessesAreBounded
CHECK_DEADLOCK FALSE
