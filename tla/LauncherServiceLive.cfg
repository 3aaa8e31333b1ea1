SPECIFICATION LiveSpec
CONSTANTS
  Clients = {c1}
  Names = {n1}
  Pids = {p1, p2, p3}
  Options <- MCOptions
  NoPid = NoPid
  Unique = Unique
PROPERTY ClientEnds
PROPERTY ServiceEnds
CHECK_DEADLOCK FALSE
