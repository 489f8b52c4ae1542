SPECIFICATION OverlaySpec
CONSTANTS
  Frames = {f1, f2, f3}
INVARIANT
  KeysAreOfOneFrame
PROPERTY
  KeepsTracking
\* All threads end on shutdown.
CHECK_DEADLOCK FALSE
