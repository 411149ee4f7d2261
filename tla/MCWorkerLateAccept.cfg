CONSTANTS
  Workers = {w1, w2}
  NoWorker = NoWorker
  Ops = {o1}
  Commands = {start, stop}
  MaxSevered = 0
SPECIFICATION Spec
INVARIANTS
  RejectedScheduleIsAbandoned
CHECK_DEADLOCK FALSE
