SPECIFICATION Spec
CONSTANTS
    ULSlots = {0}
    DLSlots = {0}
    MayFail = {"SSI_CONFIG_REQ", "SPEECH_CONFIG_RESP"}
    ReqRates = {"8kHz", "16kHz"}
    RespLayouts = {"inorder", "no_pref"}
    RampLens = {1}
    Versions = {1}
    MaxHeld = 1
INVARIANTS TypeOK StatesAgree UsersRecorded  DescriptorsMatch
PROPERTIES NeverClosesActiveCall
CHECK_DEADLOCK FALSE
