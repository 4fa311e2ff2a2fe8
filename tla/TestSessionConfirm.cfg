SPECIFICATION Spec
CONSTANTS
    Rounds = 1
    Quick = TRUE
    MaxChunk = 24
    Specials = 0
INVARIANT OnlyPhoneConfirms
CHECK_DEADLOCK FALSE
