SPECIFICATION Spec
CONSTANTS
  MaxFrames = 4
  MaxFlushes = 2
  Sides = {2, 4, 6}
  BufferSize = 36
  Payloads <- MCPayloads
  MaxUnits = 3
  MaxAudio = 3
  Activities <- MCActivities
  ClassOf <- MCClassOf
INVARIANTS TagsOfUnits OverreadExplained FileComplete PictureTurned OverrunExplained StackTracksLiving
CHECK_DEADLOCK FALSE
