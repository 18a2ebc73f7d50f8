CONSTANTS
  Kinds = {"x264", "faac", "fdk"}
  Callers = {d1}
  MaxInits = 2
  MaxFrees = 2
  MaxCalls = 2
SPECIFICATION FairSpec
INVARIANTS FaultExplained HandledInCall OneCodecOpen
PROPERTIES DataReturns
CHECK_DEADLOCK FALSE
