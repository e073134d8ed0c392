CONSTANTS
  Users = {u1, u2}
  NoUser = NoUser
  Note = Note
  SendCap = 1
  MaxBegun = 2
  MaxEdits = 2
  MaxRequests = 1
SPECIFICATION Spec
SYMMETRY Symmetry
INVARIANTS TypeOK NoOrphans NoOutsiderListens OneLateEdit ViewsConverge NobodyWaits
CHECK_DEADLOCK FALSE
