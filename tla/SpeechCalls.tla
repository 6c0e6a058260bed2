---------------------------- MODULE SpeechCalls ----------------------------
(***************************************************************************)
(* The calls of the library's interface and the handlers of the modem's    *)
(* messages (nokiamodem backend), as operators from the state before the   *)
(* call to the state after it; see SpeechState for the conventions.        *)
(***************************************************************************)
EXTENDS SpeechState

\* Sample rates of a SPEECH_CONFIG_REQ; anything else is refused.
Rates == {"8kHz", "16kHz", "other"}

\* Octets of a 20ms frame with its four octet header.
SlotSize(rate) == CASE rate = "8kHz"  -> 160 * 2 + 4
                    [] rate = "16kHz" -> 320 * 2 + 4
                    [] rate = "other" -> 0

\* The slot a test ramp of len words is carried in.
RampSlot(len) == 4 + 4 * len

-----------------------------------------------------------------------------
(* SPEECH_CONFIG: the modem starts, changes and stops the speech stream.   *)

\* Faulty variant: no timing is asked for, and the uplink never starts.
TimingNotAsked(s, F) == StateChangeTo(s, "ACTIVE_DL", "IN_SYNC")

\* The stream starts on an idle connection (TR3).
StreamStarted(s, F) ==
    cmtspeech_bc_send_timing_request(StateChangeTo(s, "ACTIVE_DL", "IN_SYNC"), F)

\* Faulty variants: the stop of the stream always or never closes the
\* connection, or leaves the protocol state as it is.
StopClosesConnection(s, F) ==
    cmtspeech_send_ssi_config_request(
        StateChangeTo(s, "CONNECTED", "IN_SYNC"), FALSE, F)

StopLeavesConnection(s, F) == StateChangeTo(s, "CONNECTED", "IN_SYNC")

StopLeavesState(s, F) == PrivChangeTo(s, "IN_SYNC")

\* The stream stops (TR4); the connection goes with it when the call is over.
StreamStopped(s, F) ==
    LET c == StateChangeTo(s, "CONNECTED", "IN_SYNC")
    IN  IF s.call_server_active THEN c
        ELSE cmtspeech_send_ssi_config_request(c, FALSE, F)

\* cmtspeech_bc_post_command for a SPEECH_CONFIG_RESP that was written.
PostSpeechConfigResp(s, ok, F) ==
    LET a == Assert(s, "post_command", s.priv_state \in ConfigPending)
        act == s.priv_state = "CONFIG_ACT_PEND"
        deact == s.priv_state = "CONFIG_DEACT_PEND"
    IN  CASE ~ok -> PrivChangeTo(a, "IN_SYNC")
          [] ok /\ act /\ s.proto_state = "CONNECTED" -> StreamStarted(a, F)
          [] ok /\ act /\ s.proto_state = "ACTIVE_DLUL" ->
                StateChangeTo(a, "ACTIVE_DL", "IN_SYNC")
          [] ok /\ deact /\ s.proto_state \in Active -> StreamStopped(a, F)
          [] OTHER -> a

\* cmtspeech_bc_write_command for SPEECH_CONFIG_RESP: io_errors is cleared
\* after the post command, whose own write may just have counted an error.
WriteSpeechConfigResp(s, ok, F) ==
    LET m == [type |-> "SPEECH_CONFIG_RESP", on |-> ok, version |-> 0]
    IN  IF m.type \in F THEN [s EXCEPT !.io_errors = TRUE]
        ELSE [PostSpeechConfigResp([s EXCEPT !.sent = Append(@, m)], ok, F)
                EXCEPT !.io_errors = FALSE]

\* Faulty variant: the reply is still owed after it was sent.
ReplyStillOwed(s, F) ==
    WriteSpeechConfigResp(priv_setup_driver_bufconfig(s, F), TRUE, F)

priv_setup_and_send_speech_config_reply(s, F) ==
    LET ok == "CS_CONFIG_BUFS" \notin F
        c == priv_setup_driver_bufconfig(
                [s EXCEPT !.speech_config_resp_pend = FALSE], F)
        w == WriteSpeechConfigResp(c, ok, F)
    IN  IF ok THEN w ELSE priv_send_reset(priv_invalidate_buffer_slots(w), F)

\* Faulty variant: the first buffer that comes back lets the reply go.
OneBufferBack(s, F) == priv_setup_and_send_speech_config_reply(s, F)

\* priv_drvbuf_layout_change_buffer_released, once BUF_LOCKED is cleared: the
\* last buffer to come back lets the postponed reply go.
LayoutChangeReleased(s, F) ==
    LET r == priv_setup_and_send_speech_config_reply(s, F)
    IN  IF ~Unlocked(s) THEN s
        ELSE IF "SPEECH_CONFIG_RESP" \in F THEN priv_invalidate_buffer_slots(r)
        ELSE r

\* Faulty variant: the buffers in use are left as they are.
DescriptorsLeft(s, stream, rate, F) ==
    LET c == [s EXCEPT !.slot_size = IF stream THEN SlotSize(rate) ELSE 0]
    IN  IF Unlocked(s) THEN priv_setup_and_send_speech_config_reply(c, F)
        ELSE [c EXCEPT !.speech_config_resp_pend = TRUE]

\* Faulty variant: a change that has to wait keeps the old slot size.
SizeForgotten(s, stream, rate, F) ==
    IF Unlocked(s)
    THEN priv_setup_and_send_speech_config_reply(
            [s EXCEPT !.slot_size = IF stream THEN SlotSize(rate) ELSE 0], F)
    ELSE priv_invalidate_buffer_slots([s EXCEPT !.speech_config_resp_pend = TRUE])

\* priv_handle_speech_config
priv_handle_speech_config(s, stream, rate, F) ==
    LET c == [s EXCEPT !.slot_size = IF stream THEN SlotSize(rate) ELSE 0]
    IN  IF Unlocked(s) THEN priv_setup_and_send_speech_config_reply(c, F)
        ELSE priv_invalidate_buffer_slots(
                [c EXCEPT !.speech_config_resp_pend = TRUE])

-----------------------------------------------------------------------------
(* Messages from the modem: cmtspeech_check_pending with                   *)
(* cmtspeech_bc_handle_command and handle_inbound_control_message.  Every  *)
(* handler but that of TEST_RAMP_PING queues one event, completed by       *)
(* cmtspeech_bc_complete_event_processing with the state it left behind.   *)

Reported(before, s, type) ==
    [s EXCEPT !.event = [type |-> type, prev |-> before.proto_state,
                         state |-> s.proto_state]]

HandleSpeechConfigReq(s, stream, rate, F) ==
    LET a == Assert(Entered(s), "speech_config_req", s.proto_state \in Enabled)
        p == PrivChangeTo(a, IF stream THEN "CONFIG_ACT_PEND"
                             ELSE "CONFIG_DEACT_PEND")
    IN  Reported(s, priv_handle_speech_config(p, stream, rate, F),
                 "SPEECH_CONFIG_REQ")

UplinkStarted(s) ==
    IF s.proto_state = "ACTIVE_DL"
    THEN StateChangeTo(s, "ACTIVE_DLUL", "IN_SYNC") ELSE s

HandleUplinkConfigNtf(s) ==
    Reported(s, UplinkStarted(Assert(Entered(s), "uplink_config_ntf",
                                     s.proto_state = "ACTIVE_DL")),
             "UPLINK_CONFIG_NTF")

\* Old modems start the uplink with the timing and send no UPLINK_CONFIG_NTF.
HandleTimingConfigNtf(s) ==
    LET u == UplinkStarted(Assert(Entered(s), "timing_config_ntf",
                                  s.proto_state \in Active))
    IN  Reported(s, IF u.priv_state = "TIMING" THEN PrivChangeTo(u, "IN_SYNC")
                    ELSE u,
                 "TIMING_CONFIG_NTF")

\* Faulty variant: the layout the modem has no preference about is kept.
NoPreferenceKept(s, ok, layout, F) ==
    IF ok /\ s.priv_state = "CONNECTING"
    THEN [StateChangeTo(s, "CONNECTED", "IN_SYNC")
            EXCEPT !.sample_layout = layout]
    ELSE s

\* The SSI_CONFIG_RESP part of cmtspeech_bc_handle_command
SsiConfigAnswered(s, ok, layout, F) ==
    CASE ~ok ->
            priv_send_reset(
                IF s.priv_state \in {"CONNECTING", "DISCONNECTING"}
                THEN PrivChangeTo(s, "IN_SYNC") ELSE s, F)
      [] ok /\ s.priv_state = "CONNECTING" ->
            [StateChangeTo(s, "CONNECTED", "IN_SYNC") EXCEPT
                !.sample_layout = IF layout = "no_pref" THEN "swapped"
                                  ELSE layout]
      [] ok /\ s.priv_state = "DISCONNECTING" ->
            priv_reset_state_to_disconnected(s)
      [] ok /\ s.priv_state = "SSI_CONFIG_PEND" /\ s.call_server_active ->
            StateChangeTo(cmtspeech_send_ssi_config_request(s, TRUE, F),
                          "DISCONNECTED", "CONNECTING")
      [] ok /\ s.priv_state = "SSI_CONFIG_PEND" /\ ~s.call_server_active ->
            StateChangeTo(cmtspeech_send_ssi_config_request(s, FALSE, F),
                          "CONNECTED", "DISCONNECTING")
      [] OTHER -> s

\* Faulty variant: the line goes down although a connection was asked for.
ReconnectForgotten(s, F) ==
    IF s.proto_state = "DISCONNECTED" THEN priv_release_wakeline(s, "CALL", F)
    ELSE s

priv_handle_ssi_config_resp(s, F) ==
    IF s.proto_state = "DISCONNECTED" /\ s.priv_state # "CONNECTING"
    THEN priv_release_wakeline(s, "CALL", F)
    ELSE IF s.slot_size > 0 THEN priv_update_dl_buffer_descriptors(s)
    ELSE s

HandleSsiConfigResp(s, ok, layout, F) ==
    LET a == Assert(Entered(s), "ssi_config_resp",
                    s.proto_state \in {"CONNECTED", "DISCONNECTED"})
    IN  Reported(s, priv_handle_ssi_config_resp(
                        SsiConfigAnswered(a, ok, layout, F), F),
                 "SSI_CONFIG_RESP")

priv_initialize_after_peer_reset(s, F) ==
    priv_reset_wakeline_state(
        priv_reset_state_to_disconnected(
            priv_setup_driver_bufconfig([s EXCEPT !.slot_size = 0], F)), F)

HandleResetConnReq(s, F) ==
    LET a == Assert(Entered(s), "reset_conn_req",
                    s.proto_state # "DISCONNECTED")
        w == Write(priv_reset_state_to_disconnected(a),
                   OutMsg("RESET_CONN_RESP"), F)
    IN  Reported(s, priv_initialize_after_peer_reset(w, F), "EVENT_RESET")

HandleResetConnResp(s, F) ==
    LET a == Assert(Entered(s), "reset_conn_resp",
                    s.proto_state # "DISCONNECTED")
        d == priv_reset_state_to_disconnected(a)
        c == IF s.priv_state = "RESET_BEFORE_CONNECT"
             THEN cmtspeech_send_ssi_config_request(d, TRUE, F) ELSE d
    IN  Reported(s, priv_release_wakeline(c, "RESET", F), "EVENT_RESET")

\* CS_ERROR from the driver
HandleDriverError(s, F) ==
    Reported(s, priv_initialize_after_peer_reset(Entered(s), F), "EVENT_RESET")

\* priv_init_bufconfig_for_test_ramp_ping
RampConfigured(s, len, F) ==
    IF s.slot_size = RampSlot(len) THEN s
    ELSE priv_setup_driver_bufconfig([s EXCEPT !.slot_size = RampSlot(len)], F)

RampConfigFails(s, len, F) ==
    s.slot_size # RampSlot(len) /\ "CS_CONFIG_BUFS" \in F

HandleTestRampPing(s, len, F) ==
    LET a == Assert(Entered(s), "test_ramp_ping",
                    s.proto_state = "DISCONNECTED")
        w == Assert(priv_acquire_wakeline(a, "TEST_RAMP_PING", F),
                    "ping_acquire_wakeline", WakelineUp(s, F))
        c == RampConfigured(w, len, F)
    IN  IF RampConfigFails(s, len, F) THEN c
        ELSE Write(c, OutMsg("TX_DATA_READY"), F)

\* CS_RX_DATA_RECEIVED: there are downlink frames to hand out.
HandleRxData(s) == [Entered(s) EXCEPT !.rx_started = TRUE]

-----------------------------------------------------------------------------
(* Calls of the application                                                *)

\* cmtspeech_bc_state_change_call_status(false)
CallInactive(s, F) ==
    CASE s.priv_state = "CONFIG_DEACT_PEND" ->
            [Assert(s, "state_change_call_status",
                    s.proto_state = "CONNECTED") EXCEPT !.io_errors = TRUE]
      [] s.priv_state # "CONFIG_DEACT_PEND" /\ s.proto_state = "CONNECTED" ->
            cmtspeech_send_ssi_config_request(s, FALSE, F)
      [] s.priv_state = "CONNECTING" /\ s.proto_state # "CONNECTED" ->
            PrivChangeTo(s, "SSI_CONFIG_PEND")
      [] OTHER -> s

\* cmtspeech_bc_state_change_call_status(true)
CallActive(s, F) ==
    CASE s.proto_state = "DISCONNECTED" ->
            cmtspeech_send_ssi_config_request(s, TRUE, F)
      [] s.proto_state = "CONNECTED" /\ s.priv_state = "DISCONNECTING" ->
            PrivChangeTo(s, "SSI_CONFIG_PEND")
      [] s.proto_state \in {"INVALID", "TEST_RAMP_PING_ACTIVE"} ->
            PrivChangeTo(priv_send_reset(s, F), "RESET_BEFORE_CONNECT")
      [] s.proto_state \in Active /\ ~s.call_server_active /\ s.io_errors ->
            cmtspeech_send_ssi_config_request(
                priv_reset_state_to_disconnected(s), TRUE, F)
      [] OTHER -> s

cmtspeech_state_change_call_status(s, on, F) ==
    LET e == Entered(s)
    IN  [(IF on THEN CallActive(e, F) ELSE CallInactive(e, F))
            EXCEPT !.call_server_active = on]

cmtspeech_state_change_error(s, F) == priv_send_reset(Entered(s), F)

cmtspeech_set_wb_preference(s, version) ==
    IF s.proto_state \in Enabled THEN Entered(s)
    ELSE [Entered(s) EXCEPT !.conf_proto_version = version]

cmtspeech_send_timing_request(s, F) ==
    cmtspeech_bc_send_timing_request(Entered(s), F)

\* cmtspeech_bc_test_data_ramp_req
RampRequested(s, F) ==
    LET a == Assert(s, "test_data_ramp_req", s.proto_state = "DISCONNECTED")
        w == Write(a, OutMsg("TEST_RAMP_PING"), F)
    IN  CASE s.proto_state # "DISCONNECTED" -> a
          [] s.proto_state = "DISCONNECTED" /\ "TEST_RAMP_PING" \in F -> w
          [] s.proto_state = "DISCONNECTED" /\ "TEST_RAMP_PING" \notin F ->
                StateChangeTo(w, "TEST_RAMP_PING_ACTIVE", "IN_SYNC")

\* The buffers are configured and the wakeline is raised before the protocol
\* state is looked at.
cmtspeech_test_data_ramp_req(s, len, F) ==
    LET c == RampConfigured(Entered(s), len, F)
        w == priv_acquire_wakeline(c, "TEST_RAMP_PING", F)
    IN  IF RampConfigFails(s, len, F) THEN c
        ELSE IF ~WakelineUp(s, F) THEN w
        ELSE RampRequested(w, F)

\* The slots cmtspeech_ul_buffer_acquire and cmtspeech_dl_buffer_acquire may
\* give out.  Which one it is depends on pointers that are not modelled here;
\* a downlink slot is given out whether or not it is locked.
ULAvailable(s) ==
    IF s.proto_state \in Active /\ s.ul_desc > 0 THEN ULSlots \ s.ul_locked
    ELSE {}

DLAvailable(s) == IF s.rx_started /\ s.dl_desc > 0 THEN DLSlots ELSE {}

cmtspeech_ul_buffer_acquire(s, i) ==
    [Entered(s) EXCEPT !.ul_locked = @ \cup {i}]

\* cmtspeech_bc_test_sequence_received: a frame came back, the test is over.
cmtspeech_dl_buffer_acquire(s, i) ==
    LET a == Assert([Entered(s) EXCEPT !.dl_locked = @ \cup {i}],
                    "dl_buffer_acquire", s.dl_desc = s.slot_size)
    IN  IF s.proto_state = "TEST_RAMP_PING_ACTIVE"
        THEN StateChangeTo(a, "DISCONNECTED", "IN_SYNC") ELSE a

\* cmtspeech_dl_buffer_release of an acquired buffer
cmtspeech_dl_buffer_release(s, i, F) ==
    LET u == [Entered(s) EXCEPT !.dl_locked = @ \ {i}]
        a == Assert(u, "layout_change_released", s.dl_desc = 0)
        r == LayoutChangeReleased(a, F)
    IN  IF i \notin s.dl_locked THEN Entered(s)
        ELSE IF ~s.speech_config_resp_pend THEN u
        ELSE Assert(r, "dl_buffer_release", r.dl_desc > 0)

\* cmtspeech_ul_buffer_release of an acquired buffer; the frame itself is
\* written to the driver without any effect on this state.
cmtspeech_ul_buffer_release(s, i, F) ==
    LET b == Assert(Entered(s), "ul_buffer_release",
                    s.proto_state = "ACTIVE_DLUL")
        u == [b EXCEPT !.ul_locked = @ \ {i}]
        a == Assert(u, "layout_change_released",
                    i \in s.ul_locked /\ s.ul_desc = 0)
        r == LayoutChangeReleased(a, F)
    IN  IF ~s.speech_config_resp_pend THEN u
        ELSE Assert(r, "ul_buffer_release", r.ul_desc > 0)
=============================================================================
