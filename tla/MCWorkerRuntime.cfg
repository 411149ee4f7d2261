CONSTANTS
  Workers = {w1, w2}
  NoWorker = NoWorker
  Ops = {o1}
  Commands = {start}
  MaxSevered = 1
SPECIFICATION FairSpec
INVARIANTS
  TypeOK
  ActsOnlyWithLock
  ServingOwnsOpenOperations
PROPERTIES
  StopEnds
  LossIsNoticed
CHECK_DEADLOCK FALSE
