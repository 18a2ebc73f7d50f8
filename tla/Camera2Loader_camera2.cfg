CONSTANTS
  MaxOpens = 2
  MaxCalls = 4
SPECIFICATION FairSpec
INVARIANTS FaultNeedsCrossing ClosedWhenPaused
PROPERTIES PreviewComes
CHECK_DEADLOCK FALSE
