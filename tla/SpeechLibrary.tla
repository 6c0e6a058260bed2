--------------------------- MODULE SpeechLibrary ---------------------------
(***************************************************************************)
(* One library instance between an application that calls it and a modem   *)
(* and a driver that may do anything: any message may arrive in any state, *)
(* and the driver calls in MayFail may fail at any time.  The library is   *)
(* not reentrant and has no thread of its own, so every call is one step.  *)
(***************************************************************************)
EXTENDS SpeechCalls

CONSTANTS MayFail,      \* driver calls that can fail
          ReqRates,     \* sample rates the modem asks for
          RespLayouts,  \* sample layouts the modem asks for
          RampLens,     \* lengths of the test ramps; none: no ramp tests
          Versions,     \* protocol versions the application prefers
          MaxHeld       \* how often the application holds the same slot

ASSUME LibraryAssumption ==
    /\ MayFail \subseteq FailKinds
    /\ ReqRates \subseteq Rates
    /\ RespLayouts \subseteq SampleLayouts
    /\ RampLens \subseteq Nat
    /\ Versions \subseteq {1, 2}
    /\ MaxHeld \in Nat

VARIABLES lib,       \* the library instance
          ul_held,   \* how many times the application holds each uplink slot
          dl_held    \* and each downlink slot

vars == <<lib, ul_held, dl_held>>

held == <<ul_held, dl_held>>

NothingHeld ==
    /\ ul_held = [i \in ULSlots |-> 0]
    /\ dl_held = [i \in DLSlots |-> 0]

Init == lib = Opened /\ NothingHeld

-----------------------------------------------------------------------------
(* cmtspeech_check_pending, by the message it reads                        *)

SpeechConfigReq(F) ==
    /\ \E stream \in BOOLEAN, rate \in ReqRates :
            lib' = HandleSpeechConfigReq(lib, stream, rate, F)
    /\ UNCHANGED held

UplinkConfigNtf == lib' = HandleUplinkConfigNtf(lib) /\ UNCHANGED held

TimingConfigNtf == lib' = HandleTimingConfigNtf(lib) /\ UNCHANGED held

SsiConfigResp(F) ==
    /\ \E ok \in BOOLEAN, layout \in RespLayouts :
            lib' = HandleSsiConfigResp(lib, ok, layout, F)
    /\ UNCHANGED held

ResetConnReq(F) == lib' = HandleResetConnReq(lib, F) /\ UNCHANGED held

ResetConnResp(F) == lib' = HandleResetConnResp(lib, F) /\ UNCHANGED held

DriverError(F) == lib' = HandleDriverError(lib, F) /\ UNCHANGED held

TestRampPing(F) ==
    /\ \E len \in RampLens : lib' = HandleTestRampPing(lib, len, F)
    /\ UNCHANGED held

RxDataReceived ==
    /\ lib.drv_size > 0
    /\ lib' = HandleRxData(lib)
    /\ UNCHANGED held

Deliver(F) ==
    \/ SpeechConfigReq(F)
    \/ UplinkConfigNtf
    \/ TimingConfigNtf
    \/ SsiConfigResp(F)
    \/ ResetConnReq(F)
    \/ ResetConnResp(F)
    \/ DriverError(F)
    \/ TestRampPing(F)
    \/ RxDataReceived

-----------------------------------------------------------------------------
(* Calls of the application                                                *)

CallStatus(F) ==
    /\ \E on \in BOOLEAN : lib' = cmtspeech_state_change_call_status(lib, on, F)
    /\ UNCHANGED held

StateChangeError(F) ==
    lib' = cmtspeech_state_change_error(lib, F) /\ UNCHANGED held

SetWbPreference ==
    /\ \E version \in Versions : lib' = cmtspeech_set_wb_preference(lib, version)
    /\ UNCHANGED held

\* The application asks for new timing during a call.
SendTimingRequest(F) ==
    /\ lib.proto_state \in Active
    /\ lib' = cmtspeech_send_timing_request(lib, F)
    /\ UNCHANGED held

TestDataRampReq(F) ==
    /\ \E len \in RampLens : lib' = cmtspeech_test_data_ramp_req(lib, len, F)
    /\ UNCHANGED held

ULAcquire ==
    \E i \in ULAvailable(lib) :
        /\ ul_held[i] < MaxHeld
        /\ lib' = cmtspeech_ul_buffer_acquire(lib, i)
        /\ ul_held' = [ul_held EXCEPT ![i] = @ + 1]
        /\ UNCHANGED dl_held

DLAcquire ==
    \E i \in DLAvailable(lib) :
        /\ dl_held[i] < MaxHeld
        /\ lib' = cmtspeech_dl_buffer_acquire(lib, i)
        /\ dl_held' = [dl_held EXCEPT ![i] = @ + 1]
        /\ UNCHANGED ul_held

ULRelease(F) ==
    \E i \in ULSlots :
        /\ ul_held[i] > 0
        /\ lib' = cmtspeech_ul_buffer_release(lib, i, F)
        /\ ul_held' = [ul_held EXCEPT ![i] = @ - 1]
        /\ UNCHANGED dl_held

DLRelease(F) ==
    \E i \in DLSlots :
        /\ dl_held[i] > 0
        /\ lib' = cmtspeech_dl_buffer_release(lib, i, F)
        /\ dl_held' = [dl_held EXCEPT ![i] = @ - 1]
        /\ UNCHANGED ul_held

\* cmtspeech_close, or a crash, and cmtspeech_open again: the wakeline goes
\* down, and what the application held is gone.
Reopen ==
    /\ lib' = Opened
    /\ ul_held' = [i \in ULSlots |-> 0]
    /\ dl_held' = [i \in DLSlots |-> 0]

Call(F) ==
    \/ CallStatus(F)
    \/ StateChangeError(F)
    \/ SetWbPreference
    \/ SendTimingRequest(F)
    \/ TestDataRampReq(F)
    \/ ULAcquire
    \/ DLAcquire
    \/ ULRelease(F)
    \/ DLRelease(F)
    \/ Reopen

Next == \E F \in SUBSET MayFail : Deliver(F) \/ Call(F)

Spec == Init /\ [][Next]_vars

-----------------------------------------------------------------------------

TypeOK ==
    /\ lib \in LibStates
    /\ ul_held \in [ULSlots -> 0 .. MaxHeld]
    /\ dl_held \in [DLSlots -> 0 .. MaxHeld]

\* The private state and the protocol state it extends go together: a
\* connection is only being set up while it is down, only being closed while
\* it is up, and a reset only precedes a connection when one was needed.
StatesAgree ==
    /\ lib.priv_state = "CONNECTING" => lib.proto_state = "DISCONNECTED"
    /\ lib.priv_state = "DISCONNECTING" => lib.proto_state = "CONNECTED"
    /\ lib.priv_state = "SSI_CONFIG_PEND" =>
            lib.proto_state \in {"DISCONNECTED", "CONNECTED"}
    /\ lib.priv_state = "RESET_BEFORE_CONNECT" =>
            lib.proto_state \in {"INVALID", "TEST_RAMP_PING_ACTIVE"}

\* An SSI_CONFIG transaction is under way, or the connection it made is up.
CallEngaged ==
    \/ lib.proto_state \in Enabled
    \/ lib.priv_state \in {"CONNECTING", "DISCONNECTING", "SSI_CONFIG_PEND"}

\* The users recorded for the wakeline are those the protocol state needs,
\* and the line is up exactly while there is one.
UsersRecorded ==
    /\ CallEngaged => "CALL" \in lib.wakeline_users
    /\ lib.proto_state = "INVALID" => "RESET" \in lib.wakeline_users
    /\ lib.line <=> lib.wakeline_users # {}

\* The modem cannot raise the wakeline itself (priv_send_reset,
\* priv_handle_ssi_config_resp): it is up whenever the library waits for an
\* answer to RESET_CONN_REQ or SSI_CONFIG_REQ, and during the whole call.
WakelineKept == CallEngaged \/ lib.proto_state = "INVALID" => lib.line

\* What cmtspeech_dl_buffer_acquire and cmtspeech_ul_buffer_acquire assert of
\* the buffers they give out: they were initialised for the current slot size.
DescriptorsMatch ==
    /\ lib.dl_desc > 0 => lib.dl_desc = lib.slot_size
    /\ lib.ul_desc > 0 => lib.ul_desc = lib.slot_size

\* The SSI connection is not closed under a call the library believes to be
\* active: whatever sends SSI_CONFIG_REQ(0) leaves call_server_active false.
NeverClosesActiveCall ==
    [][\A k \in 1 .. Len(lib'.sent) :
         lib'.sent[k].type = "SSI_CONFIG_REQ" /\ ~lib'.sent[k].on
            => ~lib'.call_server_active]_vars
=============================================================================
