CONSTANTS
    a = a
    b = b
    c = c
    n = n
    NoPath = NoPath
    ENOENT = ENOENT
    NoStamp = NoStamp
    NoEntry = NoEntry
    Dirs <- MCDirs
    Names <- MCNames
    BBPaths <- MCBBPaths
    ResolveMax = 2
    MaxVer = 1

SPECIFICATION Spec

INVARIANT TypeOK
PROPERTY ResolveCacheIsLRU
PROPERTY Refinement
