CONSTANTS
  MaxTyped = 3
  MaxOthers = 2
  MaxSessions = 2
SPECIFICATION Spec
INVARIANT PageAgrees
CHECK_DEADLOCK FALSE
