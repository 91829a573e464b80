SPECIFICATION Spec
CONSTANTS
    None = None
    Directory = Directory
    Forever = Forever
    Background = bg
    Names <- TreeNames
    Paths <- TreePaths
    Ttl <- TreeTtl
    LikeMatches <- TreeLike
    Ids = {i1}
    RecoveryWindow = 1
    Faults = {}
    VisibleDirs <- TreePaths
    FilePaths <- TreeFiles
    DirPaths <- TreeDirs
    Renames <- TreeDirRename
    HeldPaths = {}
    Reapers = {}
    GcLimit = 2
    Recoverers = {}
    RecoverPaths = {}
    DefaultDirs <- TreeDefaults
    MaxClock = 2
    MaxStall = 1
    ClockJumps = FALSE
    Crashes = TRUE
    Unmounts = TRUE
INVARIANTS NeverRefused
