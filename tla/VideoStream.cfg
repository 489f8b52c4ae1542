SPECIFICATION StreamSpec
CONSTANTS
  BufferCount = 2
  SpeedTestFrames = 2
  WarmStart = TRUE
  MaxFrames = 12
INVARIANTS
  FreshEnough
  Alternation
  StreamTypeOK
  PictureIsNewestFrame
  PictureIsNeverBlank
PROPERTY
  ImplementsFeed
\* The process ends, and the camera stops at MaxFrames.
CHECK_DEADLOCK FALSE
