SPECIFICATION FairSpec
CONSTANTS
    ULSlots = {}
    DLSlots = {}
    BufferSlots = 3
    MsgSlots = 3
    MaxBacklog = 2
    MaxCalls = 0
    EarlyClose = TRUE
PROPERTIES CloseReturns
CHECK_DEADLOCK FALSE
