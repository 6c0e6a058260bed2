------------------------------- MODULE Uplink -------------------------------
(***************************************************************************)
(* The uplink of the call in CallLink: the slot the library hands out      *)
(* next, the errors after which it pauses, and the frame the driver is     *)
(* transmitting.  Every step is a step of CallLink, except that the driver *)
(* completes a transmission, and says what becomes of the uplink.          *)
(*                                                                         *)
(* A slot is not marked while it is transmitted: the driver refuses a      *)
(* frame when it is busy with another one, and the library counts that.    *)
(***************************************************************************)
EXTENDS CallLink

CONSTANTS UL_SLOTS,             \* number of uplink slots
          MAX_UL_ERRORS_PAUSE   \* the uplink pauses after this many errors

ASSUME UplinkAssumption ==
    /\ UL_SLOTS \in Nat \ {0}
    /\ ULSlots = 0 .. UL_SLOTS - 1
    /\ MAX_UL_ERRORS_PAUSE \in Nat \ {0}

VARIABLES ul_slot_app,   \* the slot to hand out next, -1 without a stream
          ul_errors,     \* refused frames since the last downlink frame
          tx,            \* the slot being transmitted and the buffer it was
          changed,       \* held buffers the library has invalidated, and
          lost           \* those held since before a reset

uplink == <<ul_slot_app, ul_errors, tx>>

uvars == <<vars, uplink, changed, lost>>

NoTx == [slot |-> -1, buffer |-> "none"]

UInit ==
    /\ Init
    /\ ul_slot_app = -1 /\ ul_errors = 0
    /\ tx = NoTx
    /\ changed = {} /\ lost = {}

-----------------------------------------------------------------------------

\* priv_setup_driver_bufconfig, which cancels all pending transfers.
Configured ==
    /\ ul_slot_app' = IF lib'.slot_size > 0 THEN 0 ELSE -1
    /\ ul_errors' = 0
    /\ tx' = NoTx

\* The application still holds what it held.
StillHeld ==
    /\ changed' = changed \cap held'
    /\ lost' = lost \cap held'

\* The descriptors are cleared while the application holds buffers.
Reset ==
    /\ Configured
    /\ lost' = held'
    /\ changed' = {}

\* The new layout is set up at once, or when the application has given back
\* all buffers, which are invalid from now on.
LayoutChanges ==
    IF Unlocked(lib) THEN Configured /\ StillHeld
    ELSE /\ changed' = held \ lost
         /\ UNCHANGED <<uplink, lost>>

UCheckPending ==
    /\ CheckPending
    /\ CASE Head(toLib).type = "SPEECH_CONFIG_REQ" -> LayoutChanges
         [] Head(toLib).type = "RESET_CONN_REQ" -> Reset
         [] OTHER -> UNCHANGED <<uplink, changed, lost>>

\* Faulty variant: the uplink stays paused.
PauseKept ==
    /\ DataReceived
    /\ UNCHANGED <<uplink, changed, lost>>

\* The downlink works, and so the uplink is tried again.
UDataReceived ==
    /\ DataReceived
    /\ ul_errors' = 0
    /\ UNCHANGED <<ul_slot_app, tx, changed, lost>>

\* A call that starts in INVALID, or during a test ramp, begins with a reset.
URelay ==
    /\ Relay
    /\ IF call /\ lib.proto_state \in {"INVALID", "TEST_RAMP_PING_ACTIVE"} THEN Reset
       ELSE UNCHANGED <<uplink, changed, lost>>

UError == Error /\ Reset

\* Faulty variant: the slots are not used in turn.
NeverWraps(i) == i + 1

NextSlot(i) == (i + 1) % UL_SLOTS

AcquireUL ==
    /\ ul_slot_app \in ULAvailable(lib)
    /\ Acquire
    /\ held' = held \cup {<<"UL", ul_slot_app>>}
    /\ ul_slot_app' = NextSlot(ul_slot_app)
    /\ UNCHANGED <<ul_errors, tx, changed, lost>>

AcquireDL ==
    /\ Acquire
    /\ \E i \in DLSlots : held' = held \cup {<<"DL", i>>}
    /\ UNCHANGED <<uplink, changed, lost>>

Buffer(i) == IF <<"UL", i>> \in lost THEN "lost"
             ELSE IF <<"UL", i>> \in changed THEN "changed" ELSE "good"

\* The driver transmits the frame, is busy, or fails for good because the
\* link to the modem is down.
Transmit(i) ==
    \/ /\ tx = NoTx
       /\ tx' = [slot |-> i, buffer |-> Buffer(i)]
       /\ UNCHANGED ul_errors
    \/ /\ tx # NoTx
       /\ ul_errors' = ul_errors + 1
       /\ UNCHANGED tx
    \/ /\ modem.resetting
       /\ ul_errors' = MAX_UL_ERRORS_PAUSE
       /\ UNCHANGED tx

\* Faulty variants: the frame is sent without a look at the protocol state, or
\* although the buffers have become invalid.
SentInAnyState(i) ==
    IF lib.speech_config_resp_pend \/ ul_errors >= MAX_UL_ERRORS_PAUSE
    THEN UNCHANGED <<ul_errors, tx>>
    ELSE Transmit(i)

SentWhenInvalid(i) ==
    IF lib.proto_state # "ACTIVE_DLUL" \/ ul_errors >= MAX_UL_ERRORS_PAUSE
    THEN UNCHANGED <<ul_errors, tx>>
    ELSE Transmit(i)

\* The part of cmtspeech_ul_buffer_release that sends the frame.
SendFrame(i) ==
    IF \/ lib.speech_config_resp_pend
       \/ ul_errors >= MAX_UL_ERRORS_PAUSE
       \/ lib.proto_state # "ACTIVE_DLUL"
    THEN UNCHANGED <<ul_errors, tx>>
    ELSE Transmit(i)

\* The last buffer that comes back lets the new layout be set up.
ReplySent == lib.speech_config_resp_pend /\ ~lib'.speech_config_resp_pend

ReleaseUL ==
    /\ Release
    /\ StillHeld
    /\ \E i \in ULSlots :
            /\ held' = held \ {<<"UL", i>>}
            /\ IF ReplySent THEN Configured
               ELSE SendFrame(i) /\ UNCHANGED ul_slot_app

ReleaseDL ==
    /\ Release
    /\ StillHeld
    /\ \E i \in DLSlots : held' = held \ {<<"DL", i>>}
    /\ IF ReplySent THEN Configured ELSE UNCHANGED uplink

\* The driver has transmitted the frame.
TxDone ==
    /\ tx # NoTx
    /\ tx' = NoTx
    /\ UNCHANGED <<vars, ul_slot_app, ul_errors, changed, lost>>

ModemSteps ==
    /\ \/ ModemReads \/ StartStream \/ ChangeStream \/ StopStream
       \/ ModemReset \/ CallChanges
    /\ UNCHANGED <<uplink, changed, lost>>

UNext ==
    \/ UCheckPending \/ UDataReceived \/ URelay \/ UError
    \/ AcquireUL \/ AcquireDL \/ ReleaseUL \/ ReleaseDL \/ TxDone
    \/ ModemSteps

\* In addition to CallLink's: the application sends speech as long as it can,
\* the modem sends downlink frames, and the driver completes a transmission.
UFairness ==
    /\ Fairness
    /\ WF_uvars(AcquireUL)
    /\ WF_uvars(ReleaseUL)
    /\ WF_uvars(UDataReceived)
    /\ WF_uvars(TxDone)

USpec == UInit /\ [][UNext]_uvars

UFairSpec == USpec /\ UFairness
-----------------------------------------------------------------------------

\* The library's position is that of a slot exactly while there is a layout.
UplinkOK ==
    /\ ul_slot_app \in ULSlots \cup {-1}
    /\ ul_errors \in 0 .. MAX_UL_ERRORS_PAUSE
    /\ tx \in [slot : ULSlots, buffer : {"good", "lost", "changed"}] \cup {NoTx}
    /\ changed \cup lost \subseteq held /\ changed \cap lost = {}
    /\ lib.ul_desc > 0 => ul_slot_app >= 0

\* doc/libcmtspeechdata_api_docs_main.txt, TR_11: "When the invalidated uplink
\* buffers are released, no uplink frame is sent to the network."
InvalidatedNotSent == tx.buffer # "changed"

\* The driver transmits speech only while the modem has a speech stream to put
\* it in, whoever of the two ends the stream; a modem that resets has none.
SentIntoStream ==
    tx # NoTx => modem.stream # "off" \/ modem.resetting

\* cmtspeech.h, cmtspeech_ul_buffer_release: "-EPIPE: Protocol state has
\* changed since the buffer was acquired, frame not sent."
OldFrameNotSent == tx.buffer # "lost"

Disconnects == lib.proto_state = "CONNECTED" /\ lib'.proto_state = "DISCONNECTED"

\* doc/libcmtspeechdata_api_docs_main.txt, TR_4: "The protocol state cannot go
\* from CONNECTED to DISCONNECTED until all speech buffers [...] have been
\* released back", those the library has forgotten in a reset excepted.
BuffersBackFirst ==
    [][Disconnects => held \subseteq lost']_uvars

\* A pause of the uplink is not the end of it: as long as there is a call,
\* frames are sent.
UplinkKeepsGoing == <>[]call => []<>(tx # NoTx)
=============================================================================
