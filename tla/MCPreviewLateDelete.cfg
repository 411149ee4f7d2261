CONSTANTS
  Previews = {p1}
  Ips = {a}
  NoIp = NoIp
  Workers = {w1}
  NoWorker = NoWorker
  MaxBoots = 1
  MaxChanges = 3
  Overlap = FALSE
SPECIFICATION Spec
SYMMETRY MCSymmetry
INVARIANTS
  RetainedRouteStays
CHECK_DEADLOCK FALSE
