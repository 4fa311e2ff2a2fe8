SPECIFICATION Spec
CONSTANTS
    Clock = 3
    Second = 2
    LongMs = 7
    Wrap = 256
    Factor = 4
    MinTicks = 4
    MaxTicks = 11
    AccessTicks = 4
    Intervals = {0, 2}
    NewIntervals = {0, 1}
    Limits = {0, 3}
    Gap = 2
    Horizon = 6
INVARIANTS
    TypeOK
    NoSpuriousReset
    IrqRestored
    SequencesComplete
    StaysOff
PROPERTIES
    HungIsReset
CHECK_DEADLOCK FALSE
