SPECIFICATION Spec
CONSTANTS
    Rounds = 2
    Quick = FALSE
    MaxChunk = 1
    Specials = 1
INVARIANT VerdictHonest
CHECK_DEADLOCK FALSE
