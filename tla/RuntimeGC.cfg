SPECIFICATION Spec
CONSTANTS
    p1 = p1
    p2 = p2
    d1 = d1
    d2 = d2
    Procs = {p1, p2}
    Dirs = {d1, d2}
    SourceDir = SourceDir
    None = None
    Symlink = Symlink
    MergedUsr = TRUE
    Natures = {"no", "keep", "stubborn"}
    MaxCleanings = 0
SYMMETRY Symmetry
INVARIANTS
    TypeOK
    CopyIntact
    CollectsUnused
