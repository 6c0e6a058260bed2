SPECIFICATION FairSpec
CONSTANTS
    ULSlots = {0}
    DLSlots = {0}
    StreamRates = {"8kHz", "16kHz"}
    Patient = TRUE
    MaxCalls = 3
    MaxHandovers = 2
    MaxResets = 2
    MaxErrors = 1
INVARIANTS TypeOK EndsAgree AnswerGetsThrough ReplyOwed DriverMatchesStream
PROPERTIES CallGetsSpeech LinkIsReleased
CHECK_DEADLOCK FALSE
