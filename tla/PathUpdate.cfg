SPECIFICATION Spec
CONSTANT KeyFrames = {k1, k2, k3}
INVARIANTS
  TypeOK
  PathMatchesMap
  PathIsComplete
PROPERTY
  GoodKeyFramesGetSent
CHECK_DEADLOCK FALSE
