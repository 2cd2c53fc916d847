SPECIFICATION Spec
CONSTANTS
    ByteMod = 2
    HeadLen = 2
    Msgs <- MCMsgs
    WireCap = 4
    MaxMsgs = 3
    MaxInterrupts = 2
CHECK_DEADLOCK FALSE
INVARIANT BytesConserved
PROPERTIES
    ImplementsChannel
    MessageArrives
