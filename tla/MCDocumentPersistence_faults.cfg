\* Failed calls and crashes, locks that outlive no save: the lock, which goes away in
\* the end, and dirty texts, which get into a version.
CONSTANTS
  Contents = {c0, c1}
  InitialContent = c0
  NoContent = NoContent
  Autosavers = {a1}
  Requests = {r1, r2}
  LockMayExpire = FALSE
  MaxRequests = 2
  MaxFaults = 1
SPECIFICATION FairSpec
INVARIANTS
  SavedBeforeClean
  AutosaveMutualExclusion
PROPERTIES
  RevisionCheckIsSound
  DirtyIsEventuallySaved
  LockIsEventuallyReleased
\* The system rests when the bounded requests are done and nothing is dirty.
CHECK_DEADLOCK FALSE
