SPECIFICATION Spec
CONSTANTS
    Payload <- const_Payload
    OldRams <- const_OldRams
    Noise <- const_Noise
    Sessions <- const_Sessions
    Chunk = 2
    ReadTries = 2
    WriteTries = 3
    MaxFaults = 1
INVARIANTS
    StartedIntact
PROPERTIES
    FileIsRam
    HostEnds
CHECK_DEADLOCK FALSE
