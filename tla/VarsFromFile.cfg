CONSTANTS
    q0 = q0
    q1 = q1
    q2 = q2
    q3 = q3
    q4 = q4
    q5 = q5
    q6 = q6
    NoPart = NoPart
    NoEntry = NoEntry
    Pkgs <- MCPkgs
    Stem <- MCStem
    IsRecipe <- MCIsRecipe
SPECIFICATION Spec
INVARIANT TypeOK
INVARIANT VarsFromFileStable
