SPECIFICATION FairSpec
CONSTANTS
    None = None
    Directory = Directory
    Forever = Forever
    Background = bg
    Names <- TreeNames
    Paths <- TreePaths
    Ttl <- TreeTtl
    LikeMatches <- TreeLike
    Ids = {i1}
    RecoveryWindow = 1
    Faults = {}
    VisibleDirs <- TreePaths
    FilePaths <- TreeFiles
    DirPaths <- TreeDirs
    Renames <- TreeDirRename
    HeldPaths = {}
    Reapers = {bg}
    GcLimit = 2
    Recoverers = {}
    RecoverPaths = {}
    DefaultDirs = {}
    MaxClock = 3
    MaxStall = 1
    ClockJumps = FALSE
    Crashes = FALSE
    Unmounts = FALSE
PROPERTIES Reclaimed
CHECK_DEADLOCK FALSE
