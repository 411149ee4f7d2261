CONSTANTS
  c1 = c1
  v1 = v1
  v2 = v2
  f1 = f1
  Capsules = {c1}
  OpIds = {o1, o2}
  Volumes = {v1, v2}
  Versioned = {v1, v2}
  Files = {}
  Backing <- MCNoFile
  None = None
  MaxBoots = 0
  MaxDrift = 1
SPECIFICATION FairSpec
INVARIANTS
  SnapshotIsQuiet
PROPERTIES
  FailedRestores
  ExecutorsEnd
CHECK_DEADLOCK FALSE
