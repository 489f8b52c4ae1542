SPECIFICATION LifecycleSpec
CONSTANTS
  BufferCount = 2
  SpeedTestFrames = 3
  WarmStart = FALSE
  Viewers = {v1, v2}
INVARIANTS
  NeverOutOfUnits
  NoSlotRace
  LifecycleTypeOK
  NothingInUseIsDestroyed
PROPERTIES
  KeepsTracking
  ShutdownEndsProcess
  ShutdownIsNoticed
\* The process ends, and MainStranded is a state nobody leaves.
CHECK_DEADLOCK FALSE
