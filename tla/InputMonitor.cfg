SPECIFICATION LiveSpec
CONSTANTS
    RawHid = {"h1"}
    Evdev = {"e1"}
    BatchSize = 2
    MaxChanges = 4
INVARIANTS
    InSync
    InitialBatch
PROPERTIES
    CatchesUp
CHECK_DEADLOCK FALSE
