SPECIFICATION RemoteSpec
CONSTANTS
    MemSize = 1
    MaxDepth = 1
    TopReturns = FALSE
    BkpAddr = {0}
    ResumeCmd = {"Continue", "Step"}
    MaxBehind = 0
PROPERTY AnyLeavingReleases
