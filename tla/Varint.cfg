SPECIFICATION Spec
CONSTANTS
  Numbers <- SomeNumbers
  Padded = {1, 2, 5, 10, 11, 38}
INVARIANTS
  TypeOK
  SmallRoundTrips
  LowBitsSurvive
CHECK_DEADLOCK FALSE
