SPECIFICATION AppFairSpec
CONSTANTS
    ULSlots = {0}
    DLSlots = {0}
    StreamRates = {"8kHz", "16kHz"}
    Patient = TRUE
    MaxCalls = 3
    MaxHandovers = 2
    MaxResets = 0
    MaxErrors = 0
INVARIANTS AudioFollowsStream KeepsRunning
  
CHECK_DEADLOCK FALSE
