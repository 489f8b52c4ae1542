SPECIFICATION FairSpec
CONSTANTS
  Threads = {t1, t2, t3, t4}
  Nobody = Nobody
  Initial = 1
  Max = 2
INVARIANTS
  TypeOK
  NoLostWakeup
PROPERTIES
  ImplementsCounter
  UnitsAreClaimed
