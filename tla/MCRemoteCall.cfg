SPECIFICATION CallSpec
CONSTANTS
    MaxAsked = 6
    CountMod = 7
    MaxN = 2
    Name <- MCName
INVARIANTS
    RunnerAsserts
    BuffersExclusive
    AnswersInOrder
    RequestArrives
    ResponseArrives
PROPERTIES
    AskedIsAnswered
    ThreadEnds
    ImplementsRpc
CHECK_DEADLOCK FALSE
