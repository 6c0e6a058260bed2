------------------------------ MODULE EventRing ------------------------------
(***************************************************************************)
(* The control event queue of the nokiamodem backend: fixed size events    *)
(* copied octet by octet in and out of the ring buffer of sal_ring.h.      *)
(* The ring holds Slots events of EventSize octets; because a ring leaves  *)
(* one octet unused, it keeps at most Slots - 1 of them.  An octet is      *)
(* modelled by the event it belongs to and its offset in that event, so    *)
(* that an event put together from two others would be seen.               *)
(***************************************************************************)
EXTENDS RingBuffer

CONSTANTS Events,       \* the control events
          EventSize,    \* sizeof(cmtspeech_event_t)
          Slots,        \* EVENT_BUFFER_SIZE
          NoEvent       \* the content of a buffer nothing was copied to

ASSUME RingAssumption ==
    /\ EventSize \in Nat \ {0}
    /\ Slots \in Nat \ {0, 1}
    /\ NoEvent \notin Events

VARIABLES read_idx, write_idx,  \* ring_buffer_t
          data,                 \* the octets of the ring
          event,                \* the octets of the application's event
          res                   \* the return code of the last call

vars == <<read_idx, write_idx, data, event, res>>

Size == Slots * EventSize

Octets == (Events \cup {NoEvent}) \X (0 .. EventSize - 1)

\* cmtspeech_open: the ring is empty.
Init ==
    /\ read_idx = 0
    /\ write_idx = 0
    /\ data = [i \in 0 .. Size - 1 |-> <<NoEvent, 0>>]
    /\ event = [k \in 0 .. EventSize - 1 |-> <<NoEvent, k>>]
    /\ res = 0

\* memcpy of a whole event to the octets starting at "to".
Stored(e, to) ==
    [i \in 0 .. Size - 1 |->
        IF i \in to .. to + EventSize - 1 THEN <<e, i - to>> ELSE data[i]]

\* The ring refuses a new event: it would not fit, or it would wrap around.
Overflow == CavailForWrite(read_idx, write_idx, Size) < EventSize

\* Faulty variants: the overflow drops one octet, or nothing.
OneOctetDropped ==
    IF Overflow THEN Advance(read_idx, 1, Size) ELSE read_idx

NothingDropped == read_idx

\* The read index at which the new event is stored.
RoomMade == IF Overflow THEN Advance(read_idx, EventSize, Size) ELSE read_idx

priv_queue_control_event(e) ==
    /\ read_idx' = RoomMade
    /\ res' = IF Overflow THEN -1 ELSE 0
    /\ data' = Stored(e, write_idx)
    /\ write_idx' = Advance(write_idx, EventSize, Size)
    /\ UNCHANGED event

priv_dequeue_control_event ==
    \/ /\ CavailForRead(read_idx, write_idx, Size) < EventSize
       /\ res' = -1
       /\ UNCHANGED <<read_idx, write_idx, data, event>>
    \/ /\ CavailForRead(read_idx, write_idx, Size) >= EventSize
       /\ event' = [k \in 0 .. EventSize - 1 |-> data[read_idx + k]]
       /\ read_idx' = Advance(read_idx, EventSize, Size)
       /\ res' = 0
       /\ UNCHANGED <<write_idx, data>>

Next ==
    \/ \E e \in Events : priv_queue_control_event(e)
    \/ priv_dequeue_control_event

Spec == Init /\ [][Next]_vars

-----------------------------------------------------------------------------

TypeOK ==
    /\ read_idx \in 0 .. Size - 1
    /\ write_idx \in 0 .. Size - 1
    /\ data \in [0 .. Size - 1 -> Octets]
    /\ event \in [0 .. EventSize - 1 -> Octets]
    /\ res \in {0, -1}

\* The two memcpy calls stay inside the ring's memory, although neither of
\* them looks at the end of the buffer: priv_queue_control_event copies to
\* write_idx even after an overflow, where the space it measured was short.
CopiesStayInside ==
    /\ write_idx + EventSize =< Size
    /\ read_idx + EventSize =< Size

\* The assertion of priv_queue_control_event: giving up one event, once, is
\* always enough to store the new one.
RoomForNewEvent == CavailForWrite(RoomMade, write_idx, Size) >= EventSize

-----------------------------------------------------------------------------
(***************************************************************************)
(* The ring implements the abstract queue.  An event of the abstract       *)
(* queue is an area of the ring whose octets all belong to one event.      *)
(***************************************************************************)
Torn == [torn |-> TRUE]

Whole(octet) ==
    IF \E e \in Events : \A k \in 0 .. EventSize - 1 : octet[k] = <<e, k>>
    THEN octet[0][1] ELSE Torn

QueueBar ==
    [i \in 1 .. AvailForRead(read_idx, write_idx, Size) \div EventSize |->
        Whole([k \in 0 .. EventSize - 1 |->
            data[(read_idx + (i - 1) * EventSize + k) % Size]])]

EventBar == IF event[0][1] = NoEvent THEN NoEvent ELSE Whole(event)

Fifo == INSTANCE EventFifo
            WITH queue <- QueueBar, event <- EventBar, Capacity <- Slots - 1

\* Events are read whole, in order, and only the oldest is ever lost, and
\* only when Slots - 1 events are unread: priv_queue_control_event and
\* priv_dequeue_control_event implement a queue that drops its oldest element.
ImplementsFifo == Fifo!Spec
=============================================================================
