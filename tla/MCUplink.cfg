SPECIFICATION UFairSpec
CONSTANTS
    ULSlots = {0, 1}
    DLSlots = {0}
    StreamRates = {"8kHz"}
    Patient = TRUE
    MaxCalls = 2
    MaxHandovers = 1
    MaxResets = 1
    MaxErrors = 1
    UL_SLOTS = 2
    MAX_UL_ERRORS_PAUSE = 2
INVARIANTS UplinkOK InvalidatedNotSent SentIntoStream
PROPERTIES BuffersBackFirst UplinkKeepsGoing
CHECK_DEADLOCK FALSE
