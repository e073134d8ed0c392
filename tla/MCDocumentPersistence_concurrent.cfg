\* Two servers and two requests, a lock that may expire under its holder:
\* what the database promises, whatever happens around it.
CONSTANTS
  Contents = {c0, c1}
  InitialContent = c0
  NoContent = NoContent
  Autosavers = {a1, a2}
  Requests = {r1, r2}
  LockMayExpire = TRUE
  MaxRequests = 2
  MaxFaults = 0
SPECIFICATION Spec
INVARIANTS
  TypeOK
  CurrentRevisionIsVersioned
  RevisionDeterminesContent
PROPERTIES
  DeletedIsFrozen
  ImplementsHistory
SYMMETRY Symmetry
\* The system rests when the bounded requests are done and nothing is dirty.
CHECK_DEADLOCK FALSE
