SPECIFICATION Spec
CONSTANTS
    Events = {e1, e2, e3}
    NoEvent = NoEvent
    EventSize = 2
    Slots = 4
INVARIANTS TypeOK CopiesStayInside RoomForNewEvent
PROPERTIES ImplementsFifo
CHECK_DEADLOCK FALSE
