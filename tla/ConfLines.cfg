CONSTANTS
    MaxLen = 2
    MaxLines = 3
SPECIFICATION Spec
INVARIANT TypeOK
INVARIANT JoinsLogicalLines
