CONSTANTS
  Users = {u1, u2}
  NoUser = NoUser
  Note = Note
  SendCap = 1
  MaxBegun = 2
  MaxEdits = 1
  MaxRequests = 0
SPECIFICATION Spec
SYMMETRY Symmetry
INVARIANT SyncIsLatest
CHECK_DEADLOCK FALSE
