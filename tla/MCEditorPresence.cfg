CONSTANTS
  Users = {u1, u2}
  NoUser = NoUser
  Limit = 2
  TTL = 2
  MaxBegun = 3
  MaxFaults = 1
SPECIFICATION FairSpec
INVARIANTS TypeOK ConnectionLimit NoGhostEditor OpenIsListed
PROPERTIES LockoutEnds
CHECK_DEADLOCK FALSE
