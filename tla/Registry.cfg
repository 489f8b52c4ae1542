SPECIFICATION Spec
CONSTANT Clients <- Addresses
INVARIANTS
  TypeOK
  BroadcastReachesAll
PROPERTY
  BroadcastEnds
CHECK_DEADLOCK FALSE
