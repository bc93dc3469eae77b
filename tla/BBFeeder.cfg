CONSTANTS
    NoName = NoName
    LineKinds <- MCLineKinds
    MaxLines = 5
    MaxFaults = 0
SPECIFICATION Spec
INVARIANT TypeOK
INVARIANT ParsesAsGrammar
