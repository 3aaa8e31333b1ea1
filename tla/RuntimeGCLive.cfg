SPECIFICATION LiveSpec
CONSTANTS
    p1 = p1
    p2 = p2
    d1 = d1
    Procs = {p1, p2}
    Dirs = {d1}
    SourceDir = SourceDir
    None = None
    Symlink = Symlink
    MergedUsr = TRUE
    Natures = {"no"}
    MaxCleanings = 1
PROPERTIES
    CopyProceeds
