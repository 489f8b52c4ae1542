SPECIFICATION FairHandshake
CONSTANTS
  BufferCount = 2
  SpeedTestFrames = 2
  WarmStart = TRUE
PROPERTY
  ShutdownStopsThreads
\* The process ends, and MainStranded is a state nobody leaves.
CHECK_DEADLOCK FALSE
