SPECIFICATION Spec
CONSTANTS
    WordBytes = 2
    FifoSize = 4
    Blocks = 2
    BlockSize = 2
    PackedSize = 1
    Packed = {2}
    Words = {0, 1, 2, 3}
    Speeds = {1}
    UseExtram = FALSE
    MaxFaults = 1
    DeviceKeepsUp = FALSE
INVARIANTS
    PayloadIntact
    InStep
PROPERTIES
    HostEnds
    PhoneRecovers
CHECK_DEADLOCK FALSE
