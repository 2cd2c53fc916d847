SPECIFICATION RemoteSpec
CONSTANTS
    MemSize = 2
    MaxDepth = 1
    TopReturns = FALSE
    BkpAddr = {1}
    ResumeCmd = {"Continue", "Step"}
    MaxBehind = 1
INVARIANTS
    PromptShowsTruth
    NoThreadLeft
PROPERTIES
    ClientSurvives
    ImplementsServerApp
    RequestAnswered
    LeavingReleases
