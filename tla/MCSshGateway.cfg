SPECIFICATION Spec
CONSTANTS
  Branches = {b1}
  Keys = {k1}
  Grants = {g1}
  Conns = {c1}
  Procs = {p1, p2}
  Reqs = {r1, r2}
  NoGrant = NoGrant
  NoProc = NoProc
  MaxRelays = 1
  Failures = TRUE
CHECK_DEADLOCK FALSE
INVARIANTS
  TypeOK
  RelayIsAuthorised
  SocketHasRow
  ConfirmedIsQuiet
  PredecessorsAreClosed
  ReleasedIsClosed
SYMMETRY Symmetry
