SPECIFICATION Spec
CONSTANTS
    WordSize = 2
    Sizes = {0, 1, 2, 3, 5}
    MaxCalls = 2
    MaxTroubles = 2
INVARIANTS
    TrueMeansDone
    InsideBuffer
PROPERTIES
    CallReturns
CHECK_DEADLOCK FALSE
