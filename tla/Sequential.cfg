SPECIFICATION MCSpec
CONSTANTS
    BufSize = 6
    MaxLevel = 7
    DefaultLevel = 6
    Directive <- MCDirective
    LevelOf <- MCLevelOf
    Inputs <- MCInputs
    MaxFd = 7
    MaxOptions = 2
    Starts <- MCStarts
    Nameable = {0, 1, 2, 3, 4, 5}
    Names = {"a", "b", "t", "u", "x"}
    Trees <- MCTrees
    Paths <- MCPaths
    FlagSets = {{}, {"KEEP_FINAL_SYMLINK"}, {"MKDIR_P"}, {"REJECT_SYMLINKS"},
                {"MUST_BE_DIRECTORY"}, {"MUST_BE_REGULAR"}}
    MaxLinks = 8
    Order <- MCOrder
    Reserved <- MCReserved
    NeverSymlinks <- MCNeverSymlinks
    Hosts <- MCHosts
    Wishes <- MCWishes
    MaxRequests = 3
    MaxLinkLevel = 4
INVARIANTS TypesOK LogsTheInput FdsAsAsked ResolvesLikeKernel TableAsAsked
           ContainerAsAsked ModeIsTrue
CHECK_DEADLOCK FALSE
