SPECIFICATION Spec
CONSTANTS
    None = None
    Directory = Directory
    Forever = Forever
    Background = bg
    Names <- FlatNames
    Paths <- FlatPaths
    Ttl <- FlatTtl
    LikeMatches <- FlatLike
    Ids = {i1, i2}
    RecoveryWindow = 1
    Faults = {}
    VisibleDirs <- FlatPaths
    FilePaths <- FlatPaths
    DirPaths = {}
    Renames = {}
    HeldPaths <- OnePath
    Reapers = {bg}
    GcLimit = 2
    Recoverers = {rec}
    RecoverPaths <- OnePath
    DefaultDirs = {}
    MaxClock = 5
    MaxStall = 1
    ClockJumps = FALSE
    Crashes = TRUE
    Unmounts = TRUE
SYMMETRY Symmetry
INVARIANTS AliveKeepsBytes ExportsMatch ExportsInWindow
PROPERTIES WindowKept Retention
