\* No failure: an edit that lands between the read and the cache update of a
\* manual save.
CONSTANTS
  Contents = {c0, c1}
  InitialContent = c0
  NoContent = NoContent
  Autosavers = {a1}
  Requests = {r1, r2}
  LockMayExpire = FALSE
  MaxRequests = 2
  MaxFaults = 0
SPECIFICATION Spec
PROPERTY
  ManualSaveKeepsEdits
CHECK_DEADLOCK FALSE
