SPECIFICATION LiveSpec
CONSTANTS
  BufferSize = 2
  TtySize = 1
  DestSize = 1
  MaxTyped = 3
  MaxPrinted = 4
  MaxSignals = 1
  Faults = {"init", "input", "ptmx", "dest"}
INVARIANT TypeOK
INVARIANT NothingForgotten
INVARIANT NothingLost
PROPERTY ImplementsChannels
PROPERTY OutputFlows
PROPERTY InputFlows
PROPERTY AttrsRestored
CHECK_DEADLOCK FALSE
