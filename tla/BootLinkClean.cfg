SPECIFICATION Spec
CONSTANTS
    WordBytes = 4
    FifoSize = 8
    Blocks = 3
    BlockSize = 2
    PackedSize = 1
    Packed = {2, 3}
    Words = {0, 1, 2, 3}
    Speeds = {0, 1}
    UseExtram = TRUE
    MaxFaults = 0
    DeviceKeepsUp = TRUE
INVARIANTS
    NoOverrun
PROPERTIES
    BootCompletes
CHECK_DEADLOCK FALSE
