SPECIFICATION Spec
CONSTANTS
    None = None
    Directory = Directory
    Forever = Forever
    Background = bg
    Names <- TreeNames
    Paths <- TreePaths
    Ttl <- TreeTtl
    LikeMatches <- TreeLike
    Ids = {i1, i2}
    RecoveryWindow = 1
    Faults = {"audit", "store"}
    VisibleDirs <- TreePaths
    FilePaths <- TreeFiles
    DirPaths <- TreePaths
    Renames <- TreeForwardRenames
    HeldPaths = {}
    Reapers = {bg}
    GcLimit = 2
    Recoverers = {}
    RecoverPaths = {}
    DefaultDirs = {}
    MaxClock = 2
    MaxStall = 2
    ClockJumps = TRUE
    Crashes = TRUE
    Unmounts = FALSE
SYMMETRY Symmetry
INVARIANTS TypeOK QueueDue
PROPERTIES LifecycleForward
