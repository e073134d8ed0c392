CONSTANTS
  Users = {u1, u2}
  Workspaces = {w1, w2}
  NoUser = NoUser
  Processes = {p1, p2}
  MaxBegun = 6
SYMMETRY Symmetry
SPECIFICATION Spec
INVARIANTS TypeOK ExactlyOneHost
PROPERTIES OnlyHostWrites HostIsSafeAtHome DeletedWorkspaceIsFrozen AccountLifeCycle OneLateWrite
CHECK_DEADLOCK FALSE
