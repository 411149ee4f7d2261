CONSTANTS
  Previews = {p1}
  Ips = {a, b}
  NoIp = NoIp
  Workers = {w1, w2}
  NoWorker = NoWorker
  MaxBoots = 1
  MaxChanges = 1
  Overlap = TRUE
SPECIFICATION Spec
SYMMETRY MCSymmetry
PROPERTIES
  NoApplyWhileWithdrawn
CHECK_DEADLOCK FALSE
