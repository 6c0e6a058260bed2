SPECIFICATION Spec
CONSTANTS
    DL_SLOTS = 3
    rx_ptr_boundary = 6
    MaxHeld = 2
    MaxBacklog = 3
    MaxFrames = 14
INVARIANTS TypeOK OverrunReported
PROPERTIES CaughtUpGetsNewFrame
CHECK_DEADLOCK FALSE
