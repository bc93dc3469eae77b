CONSTANTS
    p1 = p1
    p2 = p2
    n = n
    s = s
    NoPath = NoPath
    NoEntry = NoEntry
    NoBuild = NoBuild
    Layers <- MCLayers
    Names <- MCNames
    SlashNames <- MCSlashNames
    BBPaths <- MCBBPaths
    DisableIndex = FALSE
    ClassIndexMax = 1
    InheritMax = 1
    MaxVer = 2
    AbsPaths <- MCAbsPaths
SPECIFICATION Spec
INVARIANT TypeOK
INVARIANT IndexFresh
