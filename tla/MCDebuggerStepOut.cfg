SPECIFICATION DebuggerSpec
CONSTANTS
    MemSize = 2
    MaxDepth = 3
    TopReturns = FALSE
PROPERTY StepOutLeavesFrame
