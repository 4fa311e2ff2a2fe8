SPECIFICATION Spec
CONSTANTS
    HeaderSize = 1
    TpduHeader = 2
    MaxData = 2
    MaxPayload = 5
    MaxAtr = 2
    PpsSizes = {2, 5}
    Fidis = {149, 120}
    FifoSize = 3
    MaxRequests = 3
    MaxStray = 1
    MaxTroubles = 1
INVARIANTS HostInStep
PROPERTIES ResponseFits ExchangeExact RefinesSlot
CHECK_DEADLOCK FALSE
