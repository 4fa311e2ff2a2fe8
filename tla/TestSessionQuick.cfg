SPECIFICATION Spec
CONSTANTS
    Rounds = 2
    Quick = TRUE
    MaxChunk = 24
    Specials = 0
INVARIANTS TypeOK NothingGarbled OnlyMissedResetFails
PROPERTY SessionEnds
CHECK_DEADLOCK FALSE
