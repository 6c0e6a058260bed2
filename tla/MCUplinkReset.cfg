SPECIFICATION USpec
CONSTANTS
    ULSlots = {0, 1}
    DLSlots = {0}
    StreamRates = {"8kHz"}
    Patient = TRUE
    MaxCalls = 3
    MaxHandovers = 0
    MaxResets = 1
    MaxErrors = 0
    UL_SLOTS = 2
    MAX_UL_ERRORS_PAUSE = 2
INVARIANTS OldFrameNotSent
CHECK_DEADLOCK FALSE
