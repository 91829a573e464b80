SPECIFICATION Spec
CONSTANTS
    Names <- InodeNames
    Paths <- InodePaths
    Order <- InodeOrder
    DirPaths <- InodeDirs
    Renames <- InodeRenames
    MaxIno = 5
    MaxReply = 2
INVARIANTS TypeOK NumbersResolve TablesAgree ListedOnce
