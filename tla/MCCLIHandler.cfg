SPECIFICATION CLISpec
CONSTANTS
    MemSize = 2
    MaxDepth = 2
    TopReturns = FALSE
INVARIANTS
    CLIAsserts
    StopsAreShown
PROPERTIES
    CLIImplementsServerApp
    CtrlCStops
