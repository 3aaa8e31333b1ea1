SPECIFICATION Spec
CONSTANTS
  Clients = {c1, c2}
  Names = {n1}
  Pids = {p1, p2, p3}
  Options <- MCOptions
  NoPid = NoPid
  Unique = Unique
SYMMETRY Alike
INVARIANT TypeOK
INVARIANT OutlivesChildren
INVARIANT SignalsOwnChildren
INVARIANT MainPidIsTrue
PROPERTY StoppedStaysStopped
PROPERTY CommandIsRemote
CHECK_DEADLOCK FALSE
