SPECIFICATION Spec
CONSTANTS
    Loggers = {l1, l2}
    Inodes = {i1, i2, i3}
    None = None
    Faults = {"link", "rename", "unlink"}
INVARIANTS
    ExclusiveOnlyToRotate
