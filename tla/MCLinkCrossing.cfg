SPECIFICATION Spec
CONSTANTS
    ULSlots = {0}
    DLSlots = {0}
    StreamRates = {"8kHz"}
    Patient = FALSE
    MaxCalls = 2
    MaxHandovers = 0
    MaxResets = 0
    MaxErrors = 0
INVARIANTS EndsAgree
CHECK_DEADLOCK FALSE
