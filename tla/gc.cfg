SPECIFICATION FairSpec
CONSTANTS
    None = None
    Directory = Directory
    Forever = Forever
    Background = bg
    Names <- FlatNames
    Paths <- FlatPaths
    Ttl <- FlatTtl
    LikeMatches <- FlatLike
    Ids = {i1, i2}
    RecoveryWindow = 1
    Faults = {}
    VisibleDirs <- FlatPaths
    FilePaths <- FlatPaths
    DirPaths = {}
    Renames = {}
    HeldPaths = {}
    Reapers = {bg, gc}
    GcLimit = 1
    Recoverers = {}
    RecoverPaths = {}
    DefaultDirs = {}
    MaxClock = 5
    MaxStall = 1
    ClockJumps = FALSE
    Crashes = TRUE
    Unmounts = TRUE
INVARIANTS TrackedBytes NeverRefused
PROPERTIES Reclaimed
