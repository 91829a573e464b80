SPECIFICATION Spec
CONSTANTS
    None = None
    Directory = Directory
    Forever = Forever
    Background = bg
    Names <- OneName
    Paths <- OnePath
    Ttl <- OneTtl
    LikeMatches <- OneLike
    Ids = {i1, i2, i3}
    RecoveryWindow = 1
    Faults = {}
    VisibleDirs <- OnePath
    FilePaths <- OnePath
    DirPaths = {}
    Renames = {}
    HeldPaths = {}
    Reapers = {bg, gc}
    GcLimit = 2
    Recoverers = {}
    RecoverPaths = {}
    DefaultDirs = {}
    MaxClock = 5
    MaxStall = 1
    ClockJumps = FALSE
    Crashes = FALSE
    Unmounts = FALSE
SYMMETRY Symmetry
PROPERTIES WindowKept
CHECK_DEADLOCK FALSE
