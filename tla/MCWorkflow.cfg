SPECIFICATION FairSpec
CONSTANTS
    Ids = {a, b, c}
    MaxSteps = 3
    MaxEdges = 3
INVARIANTS
    TypeOK
    OrderTopological
    CyclesExactly
    UnreachableExactly
    AcceptedIsRunnable
PROPERTY
    Answered
