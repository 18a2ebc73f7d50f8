CONSTANTS
  MaxSurfaces = 3
  MaxCalls = 4
SPECIFICATION FairSpec
INVARIANTS CrashExplained RendererFollowsSurface
PROPERTIES CallsReturn
CHECK_DEADLOCK FALSE
