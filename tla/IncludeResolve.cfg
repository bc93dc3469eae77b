CONSTANTS
    d1 = d1
    d2 = d2
    n = n
    s = s
    NoPath = NoPath
    NoEntry = NoEntry
    NoBuild = NoBuild
    NoCall = NoCall
    ENOENT = ENOENT
    Dirs <- MCDirs
    Names <- MCNames
    SlashNames <- MCSlashNames
    Parents <- MCParents
    BBPaths <- MCBBPaths
    DisableIndex = FALSE
    IncludeMax = 1
    IndexMax = 1
    MaxVer = 2
SPECIFICATION Spec
INVARIANT TypeOK
INVARIANT IndexFresh
