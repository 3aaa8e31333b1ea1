SPECIFICATION MCLiveSpec
CONSTANTS
  Pids = {p1, p2, p3}
  p1 = p1
  p2 = p2
  p3 = p3
  Manager = manager
  InitPid = init
  NoPid = none
  Options <- LiveOptions
  ExitCodes = {0}
  MaxForks = 3
  MaxStops = 1
  MaxSignals = 0
PROPERTY Terminates
