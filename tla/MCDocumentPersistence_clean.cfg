\* One server, one editor, no failure and no expiring lock: an edit that lands
\* between the revision check of a save and its MarkClean.
CONSTANTS
  Contents = {c0, c1}
  InitialContent = c0
  NoContent = NoContent
  Autosavers = {a1}
  Requests = {r1}
  LockMayExpire = FALSE
  MaxRequests = 2
  MaxFaults = 0
SPECIFICATION Spec
INVARIANT
  CleanMeansPersisted
CHECK_DEADLOCK FALSE
