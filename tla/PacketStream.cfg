SPECIFICATION StreamAndVectorSpec
CONSTANTS
  Packets <- AllPackets
  Values = {0, 255}
  Coordinates = {5, 300}
  MaxLength = 2
  Vectors <- AllVectors
INVARIANTS
  WholePacketRead
  VectorsSurvive
PROPERTY
  PipeSpec
CHECK_DEADLOCK FALSE
