CONSTANTS
  MaxOpens = 4
  MaxClicks = 2
  Sizes = {1, 2}
SPECIFICATION FairSpec
INVARIANTS CrashExplained TexturesLive OneCamera ClosedWhenPaused PreviewVisible FramesFit OnePicturePerClick
PROPERTIES CallbackReturns
CHECK_DEADLOCK FALSE
