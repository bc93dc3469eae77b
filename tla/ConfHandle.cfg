CONSTANTS
    a = a
    b = b
    c = c
    m = m
    d = d
    NoFile = NoFile
    NoEntry = NoEntry
    Files <- MCFiles
    Includes <- MCIncludes
    Ext <- MCExt
    ConfTail <- MCConfTail
    MaxVer = 2
SPECIFICATION Spec
INVARIANT TypeOK
INVARIANT FileTracksInnermost
