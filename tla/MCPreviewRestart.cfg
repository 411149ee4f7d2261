CONSTANTS
  Previews = {p1, p2}
  Ips = {a}
  NoIp = NoIp
  Workers = {w1}
  NoWorker = NoWorker
  MaxBoots = 1
  MaxChanges = 2
  Overlap = FALSE
SPECIFICATION FairSpec
INVARIANTS
  TypeOK
  RouteIsAccounted
  WithdrawnIsUnrouted
PROPERTIES
  WithdrawalEnds
CHECK_DEADLOCK FALSE
