SPECIFICATION FairSpec
CONSTANTS
    ULSlots = {}
    DLSlots = {}
    BufferSlots = 3
    MsgSlots = 3
    MaxBacklog = 2
    MaxCalls = 3
    EarlyClose = FALSE
INVARIANTS TypeOK StreamKeepsFlowing HeldFrameIsKept
PROPERTIES AnnouncedFrameIsWhole CallGetsFrames ConnectionCloses CloseReturns
CHECK_DEADLOCK FALSE
