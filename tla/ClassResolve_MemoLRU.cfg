CONSTANTS
    p1 = p1
    p2 = p2
    n = n
    s = s
    NoPath = NoPath
    NoEntry = NoEntry
    NoBuild = NoBuild
    Layers <- MCLayers
    Names <- MCNames
    SlashNames <- MCSlashNames
    BBPaths <- MCBBPaths2
    DisableIndex = FALSE
    ClassIndexMax = 1
    InheritMax = 2
    MaxVer = 1
    AbsPaths <- MCAbsPaths
SPECIFICATION Spec
PROPERTY MemoIsLRU
