CONSTANTS
  MaxAttempts = 8
  MaxRefreshes = 3
SPECIFICATION FairSpec
PROPERTIES NoSocketAfterTheEnd ComesBackOrGivesUp
CHECK_DEADLOCK FALSE
