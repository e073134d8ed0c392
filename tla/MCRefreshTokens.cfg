CONSTANTS
  Processes = {p1, p2, p3}
  MaxTokens = 3
  MaxBegun = 4
  MaxFaults = 1
SPECIFICATION FairSpec
INVARIANTS TypeOK OneActivePerFamily
PROPERTIES SessionsStayEnded AccessNeverRevives ReuseEndsAccess OnlyNewTokensSurvive EveryOperationEnds
CHECK_DEADLOCK FALSE
