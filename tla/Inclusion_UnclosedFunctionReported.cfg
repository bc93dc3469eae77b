CONSTANTS
    r = r
    c1 = c1
    c2 = c2
    i = i
    Missing = Missing
    NoFile = NoFile
    Recipes <- MCRecipes
    Classes <- MCClasses
    Incs <- MCIncs
    Deferred <- MCDeferred
    Texts <- MCTexts
    Tails <- MCTails
    MaxDepth = 4

SPECIFICATION Spec

INVARIANT UnclosedFunctionReported
