------------------------------ MODULE EventFifo ------------------------------
(***************************************************************************)
(* What the control event queue of the library promises to the             *)
(* application: events come out whole, in the order they went in, and      *)
(* when the application is too slow the oldest unread event is lost.       *)
(***************************************************************************)
EXTENDS Integers, Sequences

CONSTANTS Events,     \* the control events
          Capacity,   \* how many unread events are kept
          NoEvent     \* what the application's buffer holds before a read

VARIABLES queue,      \* the unread events, oldest first
          event,      \* the application's copy of the last event it read
          res         \* the return code of the last call

vars == <<queue, event, res>>

Init == queue = <<>> /\ event = NoEvent /\ res = 0

\* A new event is kept in any case; a full queue gives up its oldest one.
Queue(e) ==
    /\ \/ /\ Len(queue) < Capacity
          /\ queue' = Append(queue, e)
          /\ res' = 0
       \/ /\ Len(queue) = Capacity
          /\ queue' = Append(Tail(queue), e)
          /\ res' = -1
    /\ UNCHANGED event

\* A read takes the oldest event, or reports that there is none.
Dequeue ==
    \/ /\ queue # <<>>
       /\ event' = Head(queue)
       /\ queue' = Tail(queue)
       /\ res' = 0
    \/ /\ queue = <<>>
       /\ res' = -1
       /\ UNCHANGED <<queue, event>>

Next == (\E e \in Events : Queue(e)) \/ Dequeue

Spec == Init /\ [][Next]_vars
=============================================================================
