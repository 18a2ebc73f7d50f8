CONSTANTS
  Kind = "video"
  MaxSessions = 1
  MaxPushes = 2
SPECIFICATION FairSpec
PROPERTIES StopEndsThread
CHECK_DEADLOCK FALSE
