CONSTANTS
    parser = parser
    shutdown = shutdown
    NoOwner = NoOwner
    Threads <- MCThreads
    Prog <- MCProg
SPECIFICATION Spec
INVARIANT TypeOK
