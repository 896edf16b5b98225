SPECIFICATION Spec
CONSTANTS
    Ids = {a}
    MaxSteps = 1
    MaxEdges = 1
INVARIANT
    AcceptedHasSteps
