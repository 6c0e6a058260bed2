------------------------------- MODULE DlPath -------------------------------
(***************************************************************************)
(* The downlink of a running stream: the driver fills DL_SLOTS slots in    *)
(* turn, whether or not anybody reads them, and notifies the library of    *)
(* every frame; the library hands the slots out to the application, which  *)
(* gives them back when it has used them.  Nothing locks a slot against    *)
(* the driver: the library can only find out that the application was too  *)
(* slow, by comparing the positions of the two.                            *)
(*                                                                         *)
(* The driver reports positions modulo rx_ptr_boundary.  Frames are        *)
(* numbered from the configuration of the stream, so that the model can    *)
(* tell which frame a slot holds; the library never sees these numbers.    *)
(***************************************************************************)
EXTENDS Integers, Sequences

CONSTANTS DL_SLOTS,         \* number of downlink slots
          rx_ptr_boundary,  \* where the driver's positions wrap around
          MaxHeld,          \* how many buffers the application holds at once
          MaxBacklog,       \* how many notifications may be unread
          MaxFrames         \* length of the stream

ASSUME DlAssumption ==
    /\ DL_SLOTS \in Nat \ {0, 1}
    /\ rx_ptr_boundary \in Nat
    /\ rx_ptr_boundary > DL_SLOTS
    /\ rx_ptr_boundary % DL_SLOTS = 0
    /\ MaxHeld \in Nat \ {0}
    /\ MaxBacklog \in Nat \ {0}
    /\ MaxFrames \in Nat

VARIABLES frames,        \* how many frames the driver has received
          notes,         \* the notifications that are still unread
          rx_ptr_hw,     \* the position last read, and
          rx_ptr_appl,   \* the next one to hand out: -1 at first
          locked, xrun,  \* the slots flagged BUF_LOCKED and BUF_XRUN
          held,          \* the buffers the application holds, oldest first
          settled        \* the latest frame it was given with none unread

vars == <<frames, notes, rx_ptr_hw, rx_ptr_appl, locked, xrun, held, settled>>

Slots == 0 .. DL_SLOTS - 1

Slot(position) == position % DL_SLOTS

\* mmap_cfg->rx_ptr: where the driver writes the frame it is receiving
rx_ptr == frames % rx_ptr_boundary

\* The last complete frame in a slot, negative when there was none.  A frame
\* is damaged once the driver has begun to write the next one to its slot.
FrameIn(slot) == frames - 1 - ((frames - 1 - slot) % DL_SLOTS)

Damaged(frame) == frames >= frame + DL_SLOTS

Init ==
    /\ frames = 0
    /\ notes = <<>>
    /\ rx_ptr_hw = -1 /\ rx_ptr_appl = -1
    /\ locked = {} /\ xrun = {}
    /\ held = <<>>
    /\ settled = -1

\* The driver has received a frame, and goes on to the next slot.
FrameReceived ==
    /\ frames < MaxFrames /\ Len(notes) < MaxBacklog
    /\ frames' = frames + 1
    /\ notes' = Append(notes, rx_ptr)
    /\ UNCHANGED <<rx_ptr_hw, rx_ptr_appl, locked, xrun, held, settled>>

Behind(ptr, appl) == (rx_ptr_boundary + ptr - appl) % rx_ptr_boundary

\* priv_rx_hw_delay and priv_rx_ptr_avail
HwDelay(appl) == Behind(rx_ptr, appl)

Avail(appl) == Behind(rx_ptr_hw, appl)

\* Faulty variant: the slot the driver writes next is not looked at.
NextSlotForgotten(hw, appl) ==
    (IF HwDelay(appl) >= DL_SLOTS THEN {Slot(hw)} ELSE {})
    \cup ({Slot(hw)} \cap locked)

\* The slots handle_inbound_rx_data_received flags as overrun.
Overrun(hw, appl) ==
    (IF HwDelay(appl) >= DL_SLOTS THEN {Slot(hw)} ELSE {})
    \cup ({Slot(hw), Slot(hw + 1)} \cap locked)

handle_inbound_rx_data_received ==
    /\ notes # <<>>
    /\ rx_ptr_hw' = Head(notes)
    /\ rx_ptr_appl' = IF rx_ptr_appl < 0 THEN Head(notes) ELSE rx_ptr_appl
    /\ xrun' = xrun \cup Overrun(rx_ptr_hw', rx_ptr_appl')
    /\ notes' = Tail(notes)
    /\ UNCHANGED <<frames, locked, held, settled>>

\* Faulty variant: the slot the driver writes next is taken to be safe.
LateByOne(appl) == HwDelay(appl) > DL_SLOTS

\* priv_rx_appl_slot: the application has fallen behind the driver.
Late(appl) == HwDelay(appl) >= DL_SLOTS

\* The position cmtspeech_dl_buffer_acquire hands out, after
\* priv_rx_ptr_appl_handle_xrun when the application is late.
HandedOut == IF Late(rx_ptr_appl) THEN rx_ptr_hw ELSE rx_ptr_appl

NoData == Avail(rx_ptr_appl) = rx_ptr_boundary - 1

\* Faulty variant: the position does not wrap around.
NeverWrapped(ptr) == ptr + 1

\* priv_bump_rx_ptr_appl
Bumped(ptr) == (ptr + 1) % rx_ptr_boundary

Latest(frame, other) == IF frame > other THEN frame ELSE other

cmtspeech_dl_buffer_acquire ==
    /\ Len(held) < MaxHeld
    /\ rx_ptr_appl >= 0 /\ ~NoData
    /\ LET slot == Slot(HandedOut)
       IN  /\ locked' = locked \cup {slot}
           /\ held' = Append(held, [slot |-> slot, frame |-> FrameIn(slot)])
           /\ settled' = IF notes = <<>> THEN Latest(FrameIn(slot), settled)
                         ELSE settled
    /\ rx_ptr_appl' = Bumped(HandedOut)
    /\ UNCHANGED <<frames, notes, rx_ptr_hw, xrun>>

\* cmtspeech_dl_buffer_release returns 0, -EPIPE or -ENOENT.
ReleaseResult(slot) ==
    IF slot \notin locked THEN "ENOENT"
    ELSE IF slot \in xrun THEN "EPIPE" ELSE "ok"

\* The oldest buffer is given back.
cmtspeech_dl_buffer_release ==
    /\ held # <<>>
    /\ LET slot == Head(held).slot
       IN  /\ locked' = locked \ {slot}
           /\ xrun' = IF slot \in locked THEN xrun \ {slot} ELSE xrun
    /\ held' = Tail(held)
    /\ UNCHANGED <<frames, notes, rx_ptr_hw, rx_ptr_appl, settled>>

Next ==
    \/ FrameReceived
    \/ handle_inbound_rx_data_received
    \/ cmtspeech_dl_buffer_acquire
    \/ cmtspeech_dl_buffer_release

Spec == Init /\ [][Next]_vars

-----------------------------------------------------------------------------

Positions == 0 .. rx_ptr_boundary - 1

\* The positions of the library and the driver stay below rx_ptr_boundary.
TypeOK ==
    /\ frames \in 0 .. MaxFrames
    /\ notes \in Seq(Positions)
    /\ rx_ptr_hw \in Positions \cup {-1}
    /\ rx_ptr_appl \in Positions \cup {-1}
    /\ locked \subseteq Slots /\ xrun \subseteq Slots
    /\ held \in Seq([slot : Slots, frame : Nat])
    /\ settled \in -1 .. frames

\* The number of frames whose notification was read.
Notified == frames - Len(notes)

Acquired == Len(held') > Len(held)

New == held'[Len(held')]

\* cmtspeech_dl_buffer_acquire: an application that has read all
\* notifications gets a frame that is whole, and later than all it was given
\* when it had read all before, however late it was: the positions are never
\* confused, not even when they have wrapped around.
CaughtUpGetsNewFrame ==
    [][Acquired /\ notes = <<>> => ~Damaged(New.frame) /\ New.frame > settled]_vars

\* The application was not given the same slot again after held[k].
LastOfSlot(k) ==
    \A j \in k + 1 .. Len(held) : held[j].slot # held[k].slot

\* cmtspeech_dl_buffer_release: a buffer the driver may have begun to overwrite
\* is not released as if it had been good, once the notification of the frame
\* before the one that overwrites it is read.  Of two buffers for the same slot
\* this holds of the later one: its acquisition hides that the earlier one is
\* overrun.
OverrunReported ==
    \A k \in 1 .. Len(held) :
        LastOfSlot(k) /\ Notified >= held[k].frame + DL_SLOTS
            => ReleaseResult(held[k].slot) # "ok"
=============================================================================
