CONSTANTS
  MaxOpens = 2
  MaxCalls = 2
  AudioThreads = {a}
  VideoThreads = {v, w}
  Packets <- MCPackets
SPECIFICATION FairSpec
INVARIANTS FaultNeedsDisorder  WireInOrder
CONSTRAINT Orderly
PROPERTIES TagsDrain
CHECK_DEADLOCK FALSE
