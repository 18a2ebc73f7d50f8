CONSTANTS
  Kind = "video"
  MaxSessions = 2
  MaxPushes = 4
SPECIFICATION FairSpec
INVARIANTS CodecFaultNeedsOverlap EncodedBySession
PROPERTIES FrameEncoded ImplementsChannel
CHECK_DEADLOCK FALSE
