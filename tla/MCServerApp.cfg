SPECIFICATION AppSpec
CONSTANTS
    MemSize = 2
    MaxDepth = 3
    TopReturns = TRUE
INVARIANTS
    RunsOnlyWhenResumed
    HandlerCalledInState
    ShownStateIsVMState
PROPERTIES
    StepOverExact
    BreakpointStops
    FinishedIsFinal
    LostClientReleases
    StopReachesClient
