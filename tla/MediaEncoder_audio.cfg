CONSTANTS
  Kind = "audio"
  MaxSessions = 2
  MaxPushes = 2
SPECIFICATION FairSpec
INVARIANTS ButtonInSync QueueOfOneSession
PROPERTIES StopDuringEncode JoinReturns
CHECK_DEADLOCK FALSE
