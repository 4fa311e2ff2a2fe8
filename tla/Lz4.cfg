SPECIFICATION MCSpec
CONSTANTS
    Nibble = 2
    MinMatch = 4
    Wrap = 512
    MemSize = 34
    MaxInput = 50
    Stale = Stale
    ShortInput = 7
    ShortOutput = 7
    Alphabet = {0, 1}
    Sizes = {1, 11, 12, 13, 14}
    LongSizes = {19, 24, 33}
INVARIANTS
    ReadsInsideInput
    LengthNeverWraps
    WritesInsideOutput
    NoStaleByteCopied
    SuccessIsComplete
    AgreesWithFormat
    RoundTrip
PROPERTIES
    Progress
CHECK_DEADLOCK FALSE
