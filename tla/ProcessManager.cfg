SPECIFICATION Spec
CONSTANTS
  Pids = {p1, p2, p3}
  p1 = p1
  p2 = p2
  p3 = p3
  Manager = manager
  InitPid = init
  NoPid = none
  Options <- EveryOption
  ExitCodes = {1}
  MaxForks = 3
  MaxStops = 1
  MaxSignals = 1
SYMMETRY PidSymmetry
INVARIANT TypeOK
INVARIANT ExitsAfterDescendants
INVARIANT SentMeansSignalled
INVARIANT NoLostWakeup
INVARIANT ExitStatusIsCommands
PROPERTY SignalsOnlyChildren
