---------------------------- MODULE SpeechState ----------------------------
(***************************************************************************)
(* The state of one library instance and the operations on it that the     *)
(* rest of the nokiamodem backend is built from: struct                    *)
(* cmtspeech_bc_state_s and struct cmtspeech_nokiamodem_s, the writes of   *)
(* control messages, the SSI wakeline and the driver's buffer              *)
(* configuration.                                                          *)
(*                                                                         *)
(* The C functions change the two structs in place and call each other in  *)
(* sequence, so each is an operator from the state s before the call to    *)
(* the state after it.  The parameter F is the set of driver calls that    *)
(* fail while the library runs: message types whose write() fails, and     *)
(* the two ioctl() commands "CS_CONFIG_BUFS" and "CS_SET_WAKELINE".        *)
(***************************************************************************)
EXTENDS Integers, Sequences

CONSTANTS ULSlots,    \* indices of the uplink buffer descriptors
          DLSlots     \* indices of the downlink buffer descriptors

Protos == {"INVALID", "DISCONNECTED", "CONNECTED", "ACTIVE_DL", "ACTIVE_DLUL",
           "TEST_RAMP_PING_ACTIVE"}

Privs == {"IN_SYNC", "TIMING", "RESET_BEFORE_CONNECT", "CONNECTING",
          "DISCONNECTING", "SSI_CONFIG_PEND", "CONFIG_ACT_PEND",
          "CONFIG_DEACT_PEND"}

WakelineUsers == {"CALL", "RESET", "TEST_RAMP_PING"}

SampleLayouts == {"inorder", "swapped", "no_pref"}

\* cmtspeech_is_active
Active == {"ACTIVE_DL", "ACTIVE_DLUL"}

\* cmtspeech_is_ssi_connection_enabled
Enabled == {"CONNECTED"} \cup Active

ConfigPending == {"CONFIG_ACT_PEND", "CONFIG_DEACT_PEND"}

\* Message types the library writes to the driver.
OutTypes == {"SSI_CONFIG_REQ", "SPEECH_CONFIG_RESP", "NEW_TIMING_CONFIG_REQ",
             "RESET_CONN_REQ", "RESET_CONN_RESP", "TEST_RAMP_PING",
             "TX_DATA_READY"}

FailKinds == OutTypes \cup {"CS_CONFIG_BUFS", "CS_SET_WAKELINE"}

\* "on" is the state of an SSI_CONFIG_REQ and the success of a
\* SPEECH_CONFIG_RESP; "version" is the protocol version of an SSI_CONFIG_REQ.
OutMsgs == [type : OutTypes, on : BOOLEAN, version : 0 .. 2]

OutMsg(type) == [type |-> type, on |-> FALSE, version |-> 0]

\* Message types the modem sends, and the event a reset is reported as.
EventTypes == {"SPEECH_CONFIG_REQ", "UPLINK_CONFIG_NTF", "TIMING_CONFIG_NTF",
               "SSI_CONFIG_RESP", "EVENT_RESET", "none"}

NoEvent == [type |-> "none", prev |-> "INVALID", state |-> "INVALID"]

\* The assertions of the code that can fail, by the function they are in.
Assertions == {"state_change_call_status", "speech_config_req",
               "uplink_config_ntf", "timing_config_ntf", "ssi_config_resp",
               "reset_conn_req", "reset_conn_resp", "test_ramp_ping",
               "post_command", "test_data_ramp_req",
               "send_ssi_config_request(0)", "send_ssi_config_request(1)",
               "release_wakeline", "reset_wakeline_state",
               "ping_acquire_wakeline", "layout_change_released",
               "dl_buffer_acquire", "dl_buffer_release", "ul_buffer_release"}

\* io_errors is a counter of which the code only asks whether it is zero.
\* ul_desc and dl_desc stand for the BUF_INVALID flags, which are always set
\* or cleared for all descriptors of a direction at once, together with the
\* size the descriptors were initialised with: 0 when they are invalid.
LibStates ==
    [proto_state : Protos, priv_state : Privs,
     call_server_active : BOOLEAN,
     io_errors : BOOLEAN,
     sample_layout : {"inorder", "swapped", "none"},
     conf_proto_version : {1, 2},
     wakeline_users : SUBSET WakelineUsers,
     speech_config_resp_pend : BOOLEAN,
     slot_size : Nat,
     ul_locked : SUBSET ULSlots, dl_locked : SUBSET DLSlots,
     ul_desc : Nat, dl_desc : Nat,
     rx_started : BOOLEAN,              \* rx_ptr_appl >= 0
     line : BOOLEAN, drv_size : Nat,    \* the driver: wakeline, buffer size
     sent : Seq(OutMsgs),               \* what the current call has written
     event : [type : EventTypes, prev : Protos, state : Protos],
     failed : SUBSET Assertions]        \* assertions that failed in it

\* The state cmtspeech_open returns.
Opened ==
    [proto_state |-> "DISCONNECTED", priv_state |-> "IN_SYNC",
     call_server_active |-> FALSE, io_errors |-> FALSE,
     sample_layout |-> "none", conf_proto_version |-> 1,
     wakeline_users |-> {}, speech_config_resp_pend |-> FALSE,
     slot_size |-> 0, ul_locked |-> {}, dl_locked |-> {},
     ul_desc |-> 0, dl_desc |-> 0, rx_started |-> FALSE,
     line |-> FALSE, drv_size |-> 0,
     sent |-> <<>>, event |-> NoEvent, failed |-> {}]

\* The start of a library call: nothing written, reported or asserted yet.
Entered(s) == [s EXCEPT !.sent = <<>>, !.event = NoEvent, !.failed = {}]

\* SOFT_ASSERT and STATE_ASSERT: a failed assertion is traced, the call goes on.
Assert(s, name, holds) ==
    IF holds THEN s ELSE [s EXCEPT !.failed = @ \cup {name}]

-----------------------------------------------------------------------------
(* cmtspeech_backend_common.c: protocol state                              *)

\* priv_state_change_to, with a new protocol state and without one
StateChangeTo(s, proto, priv) ==
    [s EXCEPT !.proto_state = proto, !.priv_state = priv]

PrivChangeTo(s, priv) == [s EXCEPT !.priv_state = priv]

\* Faulty variant: the layout is reset to one no modem can have agreed to.
LayoutLeftOpen(s) ==
    [s EXCEPT !.call_server_active = FALSE, !.sample_layout = "no_pref",
              !.io_errors = FALSE, !.proto_state = "DISCONNECTED",
              !.priv_state = "IN_SYNC"]

priv_reset_state_to_disconnected(s) ==
    [s EXCEPT !.call_server_active = FALSE, !.sample_layout = "none",
              !.io_errors = FALSE, !.proto_state = "DISCONNECTED",
              !.priv_state = "IN_SYNC"]

\* cmtspeech_bc_write_command for the messages cmtspeech_bc_post_command
\* does nothing about.
Write(s, m, F) ==
    IF m.type \in F THEN [s EXCEPT !.io_errors = TRUE]
    ELSE [s EXCEPT !.sent = Append(@, m), !.io_errors = FALSE]

\* Faulty variant: the private state survives a RESET_CONN_REQ.
PrivStateSurvives(s, F) ==
    LET w == Write(s, OutMsg("RESET_CONN_REQ"), F)
    IN  IF "RESET_CONN_REQ" \in F THEN w
        ELSE [w EXCEPT !.proto_state = "INVALID"]

\* The same for RESET_CONN_REQ, after which the protocol state is void.
WriteResetConnReq(s, F) ==
    LET w == Write(s, OutMsg("RESET_CONN_REQ"), F)
    IN  IF "RESET_CONN_REQ" \in F THEN w
        ELSE StateChangeTo(w, "INVALID", "IN_SYNC")

cmtspeech_bc_send_timing_request(s, F) ==
    LET w == Write(s, OutMsg("NEW_TIMING_CONFIG_REQ"), F)
    IN  IF "NEW_TIMING_CONFIG_REQ" \in F THEN w ELSE PrivChangeTo(w, "TIMING")

SsiConfigReq(on, version) ==
    [type |-> "SSI_CONFIG_REQ", on |-> on, version |-> version]

\* The request is announced in priv_state before it is written; when the
\* write fails priv_state is IN_SYNC, whatever it was before.
SsiConfigWritten(s, on, F) ==
    LET p == PrivChangeTo(s, IF on THEN "CONNECTING" ELSE "DISCONNECTING")
        w == Write(p, SsiConfigReq(on, s.conf_proto_version), F)
    IN  IF "SSI_CONFIG_REQ" \in F THEN PrivChangeTo(w, "IN_SYNC") ELSE w

cmtspeech_bc_send_ssi_config_request(s, on, F) ==
    IF on
    THEN SsiConfigWritten(
            Assert(s, "send_ssi_config_request(1)",
                   \/ s.proto_state = "DISCONNECTED"
                   \/ s.priv_state = "SSI_CONFIG_PEND"), TRUE, F)
    ELSE LET a == Assert(s, "send_ssi_config_request(0)",
                         \/ s.proto_state = "CONNECTED"
                         \/ s.priv_state = "SSI_CONFIG_PEND")
         IN  IF s.priv_state = "DISCONNECTING" THEN a
             ELSE SsiConfigWritten(a, FALSE, F)

-----------------------------------------------------------------------------
(* cmtspeech_nokiamodem.c: the SSI wakeline                                *)

LineSwitched(s, F) == "CS_SET_WAKELINE" \notin F

\* priv_acquire_wakeline; the caller finds out whether it succeeded with
\* WakelineUp.
priv_acquire_wakeline(s, id, F) ==
    [s EXCEPT !.line = @ \/ (s.wakeline_users = {} /\ LineSwitched(s, F)),
              !.wakeline_users = @ \cup {id}]

WakelineUp(s, F) == s.wakeline_users # {} \/ LineSwitched(s, F)

priv_release_wakeline(s, id, F) ==
    LET left == s.wakeline_users \ {id}
        last == s.wakeline_users # {} /\ left = {}
    IN  Assert([s EXCEPT !.wakeline_users = left,
                         !.line = @ /\ ~(last /\ LineSwitched(s, F))],
               "release_wakeline", s.wakeline_users # {})

priv_reset_wakeline_state(s, F) ==
    Assert([s EXCEPT !.wakeline_users = {}, !.line = @ /\ ~LineSwitched(s, F)],
           "reset_wakeline_state", LineSwitched(s, F))

cmtspeech_send_ssi_config_request(s, on, F) ==
    cmtspeech_bc_send_ssi_config_request(
        IF on THEN priv_acquire_wakeline(s, "CALL", F) ELSE s, on, F)

-----------------------------------------------------------------------------
(* cmtspeech_nokiamodem.c: buffer descriptors and driver configuration     *)

Unlocked(s) == s.ul_locked = {} /\ s.dl_locked = {}

priv_invalidate_buffer_slots(s) == [s EXCEPT !.ul_desc = 0, !.dl_desc = 0]

\* The descriptors are cleared, also those the application holds.
priv_reset_buf_state_to_disconnected(s) ==
    [s EXCEPT !.slot_size = 0, !.speech_config_resp_pend = FALSE,
              !.rx_started = FALSE, !.ul_locked = {}, !.dl_locked = {},
              !.ul_desc = 0, !.dl_desc = 0]

priv_setup_driver_bufconfig_v2api(s, F) ==
    IF "CS_CONFIG_BUFS" \in F THEN s
    ELSE IF s.slot_size = 0 THEN [s EXCEPT !.drv_size = 0]
    ELSE [s EXCEPT !.drv_size = s.slot_size,
                   !.ul_locked = {}, !.dl_locked = {},
                   !.ul_desc = s.slot_size, !.dl_desc = s.slot_size]

priv_setup_driver_bufconfig(s, F) ==
    priv_setup_driver_bufconfig_v2api(
        IF s.slot_size = 0 THEN priv_reset_buf_state_to_disconnected(s)
        ELSE [s EXCEPT !.rx_started = FALSE], F)

\* priv_update_dl_buffer_descriptors: the flags of all DL descriptors go to 0.
priv_update_dl_buffer_descriptors(s) ==
    [s EXCEPT !.dl_locked = {}, !.dl_desc = s.slot_size]

\* Faulty variant: the wakeline is released without waiting for the answer.
NotWaitingForAnswer(s, F) ==
    LET w == WriteResetConnReq(priv_acquire_wakeline(s, "RESET", F), F)
    IN  priv_setup_driver_bufconfig(
            [priv_release_wakeline(w, "RESET", F) EXCEPT !.slot_size = 0], F)

\* priv_send_reset, which is also cmtspeech_state_change_error.  The buffers
\* go at once, because the modem may never answer.
priv_send_reset(s, F) ==
    LET a == priv_acquire_wakeline(s, "RESET", F)
        w == WriteResetConnReq(a, F)
        r == IF ~WakelineUp(s, F) THEN a
             ELSE IF "RESET_CONN_REQ" \in F
                  THEN priv_release_wakeline(w, "RESET", F)
             ELSE w
    IN  priv_setup_driver_bufconfig([r EXCEPT !.slot_size = 0], F)
=============================================================================
