---------------------------- MODULE SpeechLemmas ----------------------------
(***************************************************************************)
(* What the operations of the library keep, whatever the driver refuses.   *)
(* The lemmas follow the layers of the code: the protocol state, the       *)
(* wakeline, the buffers, the replies, the handlers of messages and the    *)
(* calls of the application.  There are three rounds of them: the state    *)
(* stays in LibStates; the protocol state, the private state and the       *)
(* wakeline agree; an active call is not closed and the descriptors match  *)
(* the slot size.                                                          *)
(***************************************************************************)
EXTENDS SpeechCalls, TLAPS

\* The fields of a state, one by one.
LEMMA Fields ==
    ASSUME NEW s \in LibStates
    PROVE  /\ s.proto_state \in Protos /\ s.priv_state \in Privs
           /\ s.call_server_active \in BOOLEAN /\ s.io_errors \in BOOLEAN
           /\ s.conf_proto_version \in {1, 2}
           /\ s.wakeline_users \in SUBSET WakelineUsers
           /\ s.speech_config_resp_pend \in BOOLEAN
           /\ s.slot_size \in Nat
           /\ s.ul_locked \in SUBSET ULSlots /\ s.dl_locked \in SUBSET DLSlots
           /\ s.ul_desc \in Nat /\ s.dl_desc \in Nat
           /\ s.line \in BOOLEAN /\ s.drv_size \in Nat
           /\ s.sent \in Seq(OutMsgs)
           /\ s.failed \in SUBSET Assertions
    BY Zenon DEF LibStates

\* The messages the library writes.
LEMMA Messages ==
    /\ \A type \in OutTypes : OutMsg(type) \in OutMsgs
    /\ \A on \in BOOLEAN, version \in {1, 2} :
            SsiConfigReq(on, version) \in OutMsgs
    /\ \A ok \in BOOLEAN :
            [type |-> "SPEECH_CONFIG_RESP", on |-> ok, version |-> 0] \in OutMsgs
<1>1. ASSUME NEW type \in OutTypes, NEW on \in BOOLEAN, NEW version \in 0 .. 2
      PROVE  [type |-> type, on |-> on, version |-> version] \in OutMsgs
    BY DEF OutMsgs
<1>2. 0 \in 0 .. 2 /\ \A version \in {1, 2} : version \in 0 .. 2
    OBVIOUS
<1>3. "SSI_CONFIG_REQ" \in OutTypes /\ "SPEECH_CONFIG_RESP" \in OutTypes
    BY DEF OutTypes
<1> QED
    BY <1>1, <1>2, <1>3, Zenon DEF OutMsg, SsiConfigReq

\* Protocol state: cmtspeech_backend_common.c.
LEMMA ProtocolTyped ==
    ASSUME NEW s \in LibStates, NEW F
    PROVE  /\ Entered(s) \in LibStates
           /\ \A name \in Assertions, holds \in BOOLEAN :
                    Assert(s, name, holds) \in LibStates
           /\ \A proto \in Protos, priv \in Privs :
                    /\ StateChangeTo(s, proto, priv) \in LibStates
                    /\ PrivChangeTo(s, priv) \in LibStates
           /\ priv_reset_state_to_disconnected(s) \in LibStates
           /\ \A m \in OutMsgs : Write(s, m, F) \in LibStates
<1>1. Entered(s) \in LibStates
    <2>1. /\ <<>> \in Seq(OutMsgs) /\ {} \in SUBSET Assertions
          /\ NoEvent \in [type : EventTypes, prev : Protos, state : Protos]
        BY DEF NoEvent, EventTypes, Protos
    <2> QED
        BY <2>1, Zenon DEF Entered, LibStates
<1>2. ASSUME NEW name \in Assertions, NEW holds \in BOOLEAN
      PROVE  Assert(s, name, holds) \in LibStates
    <2>1. s.failed \cup {name} \in SUBSET Assertions
        BY Fields
    <2> QED
        BY <2>1, Zenon DEF Assert, LibStates
<1>3. ASSUME NEW proto \in Protos, NEW priv \in Privs
      PROVE  /\ StateChangeTo(s, proto, priv) \in LibStates
             /\ PrivChangeTo(s, priv) \in LibStates
    BY Zenon DEF StateChangeTo, PrivChangeTo, LibStates
<1>4. priv_reset_state_to_disconnected(s) \in LibStates
    <2>1. "DISCONNECTED" \in Protos /\ "IN_SYNC" \in Privs
        BY DEF Protos, Privs
    <2> QED
        BY <2>1, Zenon DEF priv_reset_state_to_disconnected, LibStates
<1>5. ASSUME NEW m \in OutMsgs PROVE Write(s, m, F) \in LibStates
    <2>1. Append(s.sent, m) \in Seq(OutMsgs)
        BY Fields
    <2> QED
        BY <2>1, Zenon DEF Write, LibStates
<1> QED
    BY <1>1, <1>2, <1>3, <1>4, <1>5

\* The wakeline and the requests that use it.
LEMMA WakelineTyped ==
    ASSUME NEW s \in LibStates, NEW F
    PROVE  /\ \A id \in WakelineUsers :
                    /\ priv_acquire_wakeline(s, id, F) \in LibStates
                    /\ priv_release_wakeline(s, id, F) \in LibStates
           /\ priv_reset_wakeline_state(s, F) \in LibStates
<1>1. "release_wakeline" \in Assertions /\ "reset_wakeline_state" \in Assertions
    BY DEF Assertions
<1>2. ASSUME NEW id \in WakelineUsers
      PROVE  priv_acquire_wakeline(s, id, F) \in LibStates
    <2>1. s.wakeline_users \cup {id} \in SUBSET WakelineUsers
        BY Fields
    <2> QED
        BY <2>1, Zenon DEF priv_acquire_wakeline, LibStates
<1>3. ASSUME NEW id \in WakelineUsers
      PROVE  priv_release_wakeline(s, id, F) \in LibStates
    <2> DEFINE t == [s EXCEPT
            !.wakeline_users = s.wakeline_users \ {id},
            !.line = @ /\ ~(/\ /\ s.wakeline_users # {}
                               /\ s.wakeline_users \ {id} = {}
                            /\ LineSwitched(s, F))]
    <2>1. s.wakeline_users \ {id} \in SUBSET WakelineUsers
        BY Fields
    <2>2. t \in LibStates
        BY <2>1, Zenon DEF LibStates
    <2>3. Assert(t, "release_wakeline", s.wakeline_users # {}) \in LibStates
        BY <1>1, <2>2, ProtocolTyped
    <2> QED
        BY <2>3 DEF priv_release_wakeline
<1>4. priv_reset_wakeline_state(s, F) \in LibStates
    <2> DEFINE t == [s EXCEPT !.wakeline_users = {},
                              !.line = @ /\ ~LineSwitched(s, F)]
    <2>1. {} \in SUBSET WakelineUsers
        OBVIOUS
    <2>2. t \in LibStates
        BY <2>1, Zenon DEF LibStates
    <2>3. Assert(t, "reset_wakeline_state", LineSwitched(s, F)) \in LibStates
        BY <1>1, <2>2, ProtocolTyped DEF LineSwitched
    <2> QED
        BY <2>3 DEF priv_reset_wakeline_state
<1> QED
    BY <1>2, <1>3, <1>4

\* Requests: NEW_TIMING_CONFIG_REQ, SSI_CONFIG_REQ and RESET_CONN_REQ.
LEMMA RequestsTyped ==
    ASSUME NEW s \in LibStates, NEW F
    PROVE  /\ cmtspeech_bc_send_timing_request(s, F) \in LibStates
           /\ \A on \in BOOLEAN :
                    cmtspeech_send_ssi_config_request(s, on, F) \in LibStates
           /\ WriteResetConnReq(s, F) \in LibStates
<1>1. /\ {"NEW_TIMING_CONFIG_REQ", "RESET_CONN_REQ"} \subseteq OutTypes
      /\ {"TIMING", "IN_SYNC", "CONNECTING", "DISCONNECTING"} \subseteq Privs
      /\ "INVALID" \in Protos /\ "CALL" \in WakelineUsers
      /\ {"send_ssi_config_request(0)", "send_ssi_config_request(1)"}
            \subseteq Assertions
    BY DEF OutTypes, Privs, Protos, Assertions, WakelineUsers
<1>2. cmtspeech_bc_send_timing_request(s, F) \in LibStates
    <2> DEFINE w == Write(s, OutMsg("NEW_TIMING_CONFIG_REQ"), F)
    <2>1. w \in LibStates
        BY <1>1, Messages, ProtocolTyped
    <2>2. PrivChangeTo(w, "TIMING") \in LibStates
        BY <1>1, <2>1, ProtocolTyped
    <2> QED
        BY <2>1, <2>2 DEF cmtspeech_bc_send_timing_request
<1>3. WriteResetConnReq(s, F) \in LibStates
    <2> DEFINE w == Write(s, OutMsg("RESET_CONN_REQ"), F)
    <2>1. w \in LibStates
        BY <1>1, Messages, ProtocolTyped
    <2>2. StateChangeTo(w, "INVALID", "IN_SYNC") \in LibStates
        BY <1>1, <2>1, ProtocolTyped
    <2> QED
        BY <2>1, <2>2 DEF WriteResetConnReq
<1>4. ASSUME NEW t \in LibStates, NEW on \in BOOLEAN
      PROVE  SsiConfigWritten(t, on, F) \in LibStates
    <2> DEFINE p == PrivChangeTo(t, IF on THEN "CONNECTING" ELSE "DISCONNECTING")
               w == Write(p, SsiConfigReq(on, t.conf_proto_version), F)
    <2>1. p \in LibStates
        BY <1>1, ProtocolTyped
    <2>2. w \in LibStates
        BY <2>1, Fields, Messages, ProtocolTyped
    <2>3. PrivChangeTo(w, "IN_SYNC") \in LibStates
        BY <1>1, <2>2, ProtocolTyped
    <2> QED
        BY <2>2, <2>3 DEF SsiConfigWritten
<1>5. ASSUME NEW t \in LibStates, NEW on \in BOOLEAN
      PROVE  cmtspeech_bc_send_ssi_config_request(t, on, F) \in LibStates
    <2> DEFINE up == Assert(t, "send_ssi_config_request(1)",
                            \/ t.proto_state = "DISCONNECTED"
                            \/ t.priv_state = "SSI_CONFIG_PEND")
               down == Assert(t, "send_ssi_config_request(0)",
                              \/ t.proto_state = "CONNECTED"
                              \/ t.priv_state = "SSI_CONFIG_PEND")
    <2>1. up \in LibStates /\ down \in LibStates
        BY <1>1, ProtocolTyped
    <2>2. /\ SsiConfigWritten(up, TRUE, F) \in LibStates
          /\ SsiConfigWritten(down, FALSE, F) \in LibStates
        BY <1>4, <2>1
    <2> QED
        BY <2>1, <2>2 DEF cmtspeech_bc_send_ssi_config_request
<1>6. ASSUME NEW on \in BOOLEAN
      PROVE  cmtspeech_send_ssi_config_request(s, on, F) \in LibStates
    <2>1. (IF on THEN priv_acquire_wakeline(s, "CALL", F) ELSE s) \in LibStates
        BY <1>1, WakelineTyped
    <2> QED
        BY <1>5, <2>1 DEF cmtspeech_send_ssi_config_request
<1> QED
    BY <1>2, <1>3, <1>6

\* Buffer descriptors and the driver's configuration.
LEMMA BuffersTyped ==
    ASSUME NEW s \in LibStates, NEW F
    PROVE  /\ priv_invalidate_buffer_slots(s) \in LibStates
           /\ priv_reset_buf_state_to_disconnected(s) \in LibStates
           /\ priv_setup_driver_bufconfig(s, F) \in LibStates
           /\ priv_update_dl_buffer_descriptors(s) \in LibStates
           /\ \A size \in Nat : [s EXCEPT !.slot_size = size] \in LibStates
<1>1. 0 \in Nat /\ {} \in SUBSET ULSlots /\ {} \in SUBSET DLSlots
    OBVIOUS
<1>2. s.slot_size \in Nat
    BY Fields
<1>3. priv_invalidate_buffer_slots(s) \in LibStates
    BY <1>1, Zenon DEF priv_invalidate_buffer_slots, LibStates
<1>4. priv_reset_buf_state_to_disconnected(s) \in LibStates
    BY <1>1, Zenon DEF priv_reset_buf_state_to_disconnected, LibStates
<1>5. priv_update_dl_buffer_descriptors(s) \in LibStates
    BY <1>1, <1>2, Zenon DEF priv_update_dl_buffer_descriptors, LibStates
<1>6. ASSUME NEW size \in Nat PROVE [s EXCEPT !.slot_size = size] \in LibStates
    BY <1>1, Zenon DEF LibStates
<1>7. ASSUME NEW t \in LibStates
      PROVE  priv_setup_driver_bufconfig_v2api(t, F) \in LibStates
    <2>1. t.slot_size \in Nat
        BY Fields
    <2>2. [t EXCEPT !.drv_size = 0] \in LibStates
        BY <1>1, Zenon DEF LibStates
    <2>3. [t EXCEPT !.drv_size = t.slot_size,
                    !.ul_locked = {}, !.dl_locked = {},
                    !.ul_desc = t.slot_size, !.dl_desc = t.slot_size]
            \in LibStates
        BY <1>1, <2>1, Zenon DEF LibStates
    <2> QED
        BY <2>2, <2>3 DEF priv_setup_driver_bufconfig_v2api
<1>8. priv_setup_driver_bufconfig(s, F) \in LibStates
    <2>1. [s EXCEPT !.rx_started = FALSE] \in LibStates
        BY Zenon DEF LibStates
    <2> QED
        BY <1>4, <1>7, <2>1 DEF priv_setup_driver_bufconfig
<1> QED
    BY <1>3, <1>4, <1>5, <1>6, <1>8

\* priv_send_reset.
LEMMA SendResetTyped ==
    ASSUME NEW s \in LibStates, NEW F
    PROVE  priv_send_reset(s, F) \in LibStates
<1> DEFINE a == priv_acquire_wakeline(s, "RESET", F)
           w == WriteResetConnReq(a, F)
           r == IF ~WakelineUp(s, F) THEN a
                ELSE IF "RESET_CONN_REQ" \in F
                     THEN priv_release_wakeline(w, "RESET", F)
                ELSE w
<1>1. "RESET" \in WakelineUsers
    BY DEF WakelineUsers
<1>2. a \in LibStates
    BY <1>1, WakelineTyped
<1>3. w \in LibStates
    BY <1>2, RequestsTyped
<1>4. priv_release_wakeline(w, "RESET", F) \in LibStates
    BY <1>1, <1>3, WakelineTyped
<1>5. r \in LibStates
    BY <1>2, <1>3, <1>4
<1>6. [r EXCEPT !.slot_size = 0] \in LibStates
    BY <1>5, BuffersTyped
<1>7. priv_setup_driver_bufconfig([r EXCEPT !.slot_size = 0], F) \in LibStates
    BY <1>6, BuffersTyped
<1> QED
    BY <1>7 DEF priv_send_reset

\* What the library does after a SPEECH_CONFIG_RESP was written.
LEMMA PostCommandTyped ==
    ASSUME NEW t \in LibStates, NEW ok \in BOOLEAN, NEW F
    PROVE  PostSpeechConfigResp(t, ok, F) \in LibStates
<1> DEFINE a == Assert(t, "post_command", t.priv_state \in ConfigPending)
           stopped == StateChangeTo(a, "CONNECTED", "IN_SYNC")
           started == StateChangeTo(a, "ACTIVE_DL", "IN_SYNC")
<1>1. /\ {"IN_SYNC"} \subseteq Privs /\ "post_command" \in Assertions
      /\ {"CONNECTED", "ACTIVE_DL"} \subseteq Protos
    BY DEF Privs, Protos, Assertions
<1>2. a \in LibStates
    <2>1. (t.priv_state \in ConfigPending) \in BOOLEAN
        OBVIOUS
    <2> QED
        BY <1>1, <2>1, ProtocolTyped, Zenon
<1>3. /\ stopped \in LibStates /\ started \in LibStates
      /\ PrivChangeTo(a, "IN_SYNC") \in LibStates
    BY <1>1, <1>2, ProtocolTyped
<1>4. /\ cmtspeech_bc_send_timing_request(started, F) \in LibStates
      /\ cmtspeech_send_ssi_config_request(stopped, FALSE, F) \in LibStates
    BY <1>3, RequestsTyped
<1> HIDE DEF a, stopped, started
<1> QED
    BY <1>2, <1>3, <1>4, Zenon DEF PostSpeechConfigResp, StreamStarted,
            StreamStopped, a, stopped, started

\* SPEECH_CONFIG_RESP: at once or when the last buffer comes back.
LEMMA SpeechConfigTyped ==
    ASSUME NEW s \in LibStates, NEW F
    PROVE  /\ \A stream \in BOOLEAN, rate \in Rates :
                    priv_handle_speech_config(s, stream, rate, F) \in LibStates
           /\ LayoutChangeReleased(s, F) \in LibStates
<1>1. ASSUME NEW t \in LibStates, NEW ok \in BOOLEAN
      PROVE  WriteSpeechConfigResp(t, ok, F) \in LibStates
    <2> DEFINE m == [type |-> "SPEECH_CONFIG_RESP", on |-> ok, version |-> 0]
               w == [t EXCEPT !.sent = Append(t.sent, m)]
               p == PostSpeechConfigResp(w, ok, F)
    <2>1. Append(t.sent, m) \in Seq(OutMsgs)
        BY Fields, Messages
    <2>2. w \in LibStates /\ [t EXCEPT !.io_errors = TRUE] \in LibStates
        BY <2>1, Zenon DEF LibStates
    <2>3. p \in LibStates
        BY <2>2, PostCommandTyped
    <2>4. [p EXCEPT !.io_errors = FALSE] \in LibStates
        BY <2>3, Zenon DEF LibStates
    <2> QED
        BY <2>2, <2>4, Zenon DEF WriteSpeechConfigResp
<1>2. ASSUME NEW t \in LibStates
      PROVE  priv_setup_and_send_speech_config_reply(t, F) \in LibStates
    <2> DEFINE ok == "CS_CONFIG_BUFS" \notin F
               c == priv_setup_driver_bufconfig(
                        [t EXCEPT !.speech_config_resp_pend = FALSE], F)
               w == WriteSpeechConfigResp(c, ok, F)
    <2>1. [t EXCEPT !.speech_config_resp_pend = FALSE] \in LibStates
        BY Zenon DEF LibStates
    <2>2. c \in LibStates
        BY <2>1, BuffersTyped
    <2>3. w \in LibStates
        BY <1>1, <2>2
    <2>4. priv_send_reset(priv_invalidate_buffer_slots(w), F) \in LibStates
        BY <2>3, BuffersTyped, SendResetTyped
    <2> QED
        BY <2>3, <2>4 DEF priv_setup_and_send_speech_config_reply
<1>3. LayoutChangeReleased(s, F) \in LibStates
    BY <1>2, BuffersTyped DEF LayoutChangeReleased
<1>4. ASSUME NEW stream \in BOOLEAN, NEW rate \in Rates
      PROVE  priv_handle_speech_config(s, stream, rate, F) \in LibStates
    <2> DEFINE size == IF stream THEN SlotSize(rate) ELSE 0
               c == [s EXCEPT !.slot_size = size]
    <2>1. size \in Nat
        BY DEF SlotSize, Rates
    <2> HIDE DEF size
    <2>2. c \in LibStates
        BY <2>1, BuffersTyped
    <2>3. [c EXCEPT !.speech_config_resp_pend = TRUE] \in LibStates
        BY <2>2, Zenon DEF LibStates
    <2>4. priv_invalidate_buffer_slots(
            [c EXCEPT !.speech_config_resp_pend = TRUE]) \in LibStates
        BY <2>3, BuffersTyped
    <2>5. priv_setup_and_send_speech_config_reply(c, F) \in LibStates
        BY <1>2, <2>2
    <2> QED
        BY <2>4, <2>5 DEF priv_handle_speech_config, size
<1> QED
    BY <1>3, <1>4

\* The answer to an SSI_CONFIG_REQ.
LEMMA SsiConfigTyped ==
    ASSUME NEW s \in LibStates, NEW F, NEW ok \in BOOLEAN,
           NEW layout \in SampleLayouts
    PROVE  /\ SsiConfigAnswered(s, ok, layout, F) \in LibStates
           /\ priv_handle_ssi_config_resp(s, F) \in LibStates
<1>1. /\ {"IN_SYNC", "CONNECTING", "DISCONNECTING"} \subseteq Privs
      /\ {"CONNECTED", "DISCONNECTED"} \subseteq Protos
      /\ "CALL" \in WakelineUsers
    BY DEF Privs, Protos, WakelineUsers
<1> DEFINE i == IF s.priv_state \in {"CONNECTING", "DISCONNECTING"}
                THEN PrivChangeTo(s, "IN_SYNC") ELSE s
           c == StateChangeTo(s, "CONNECTED", "IN_SYNC")
           l == [c EXCEPT !.sample_layout =
                    IF layout = "no_pref" THEN "swapped" ELSE layout]
           up == StateChangeTo(cmtspeech_send_ssi_config_request(s, TRUE, F),
                               "DISCONNECTED", "CONNECTING")
           down == StateChangeTo(cmtspeech_send_ssi_config_request(s, FALSE, F),
                                 "CONNECTED", "DISCONNECTING")
<1>2. priv_send_reset(i, F) \in LibStates
    BY <1>1, ProtocolTyped, SendResetTyped
<1>3. c \in LibStates
    BY <1>1, ProtocolTyped
<1>4. l \in LibStates
    <2>1. (IF layout = "no_pref" THEN "swapped" ELSE layout)
                \in {"inorder", "swapped", "none"}
        BY DEF SampleLayouts
    <2> QED
        BY <1>3, <2>1, Zenon DEF LibStates
<1>5. priv_reset_state_to_disconnected(s) \in LibStates
    BY ProtocolTyped
<1>6. up \in LibStates /\ down \in LibStates
    BY <1>1, RequestsTyped, ProtocolTyped
<1>7. SsiConfigAnswered(s, ok, layout, F) \in LibStates
    <2> HIDE DEF i, l, up, down
    <2> QED
        BY <1>2, <1>4, <1>5, <1>6, Zenon DEF SsiConfigAnswered, i, l, c, up, down
<1>8. priv_handle_ssi_config_resp(s, F) \in LibStates
    BY <1>1, WakelineTyped, BuffersTyped DEF priv_handle_ssi_config_resp
<1> QED
    BY <1>7, <1>8

\* A soft assertion leaves one of two states, whatever it is about.
LEMMA AssertTyped ==
    ASSUME NEW s \in LibStates, NEW name \in Assertions, NEW holds
    PROVE  Assert(s, name, holds) \in LibStates
<1>1. Assert(s, name, TRUE) \in LibStates
      /\ Assert(s, name, FALSE) \in LibStates
    BY ProtocolTyped
<1>2. CASE holds
    BY <1>2 DEF Assert
<1>3. CASE ~holds
    BY <1>1, <1>3 DEF Assert
<1> QED
    BY <1>2, <1>3

\* Filling the event of a call keeps the types.
LEMMA ReportedTyped ==
    ASSUME NEW b \in LibStates, NEW s \in LibStates, NEW type \in EventTypes
    PROVE  Reported(b, s, type) \in LibStates
<1>1. [type |-> type, prev |-> b.proto_state, state |-> s.proto_state]
            \in [type : EventTypes, prev : Protos, state : Protos]
    BY Fields
<1> QED
    BY <1>1, Zenon DEF Reported, LibStates

\* The handlers of the modem's messages and the driver's reports.
LEMMA HandlersTyped ==
    ASSUME NEW s \in LibStates, NEW F
    PROVE  /\ \A stream \in BOOLEAN, rate \in Rates :
                    HandleSpeechConfigReq(s, stream, rate, F) \in LibStates
           /\ HandleUplinkConfigNtf(s) \in LibStates
           /\ HandleTimingConfigNtf(s) \in LibStates
           /\ \A ok \in BOOLEAN, layout \in SampleLayouts :
                    HandleSsiConfigResp(s, ok, layout, F) \in LibStates
           /\ HandleResetConnReq(s, F) \in LibStates
           /\ HandleResetConnResp(s, F) \in LibStates
           /\ HandleDriverError(s, F) \in LibStates
           /\ \A len \in Nat : HandleTestRampPing(s, len, F) \in LibStates
           /\ HandleRxData(s) \in LibStates
<1> DEFINE e == Entered(s)
<1>1. e \in LibStates
    BY ProtocolTyped
<1>2. /\ {"speech_config_req", "uplink_config_ntf", "timing_config_ntf",
          "ssi_config_resp", "reset_conn_req", "reset_conn_resp",
          "test_ramp_ping", "ping_acquire_wakeline"} \subseteq Assertions
      /\ {"SPEECH_CONFIG_REQ", "UPLINK_CONFIG_NTF", "TIMING_CONFIG_NTF",
          "SSI_CONFIG_RESP", "EVENT_RESET"} \subseteq EventTypes
      /\ {"IN_SYNC", "CONFIG_ACT_PEND", "CONFIG_DEACT_PEND"} \subseteq Privs
      /\ "ACTIVE_DLUL" \in Protos
      /\ {"RESET", "TEST_RAMP_PING"} \subseteq WakelineUsers
      /\ {"RESET_CONN_RESP", "TX_DATA_READY"} \subseteq OutTypes
    BY DEF Assertions, EventTypes, Privs, Protos, WakelineUsers, OutTypes
<1> HIDE DEF e
<1>3. ASSUME NEW t \in LibStates PROVE UplinkStarted(t) \in LibStates
    BY <1>2, ProtocolTyped DEF UplinkStarted
<1>4. ASSUME NEW t \in LibStates
      PROVE  priv_initialize_after_peer_reset(t, F) \in LibStates
    <2>1. [t EXCEPT !.slot_size = 0] \in LibStates
        BY BuffersTyped
    <2>2. priv_setup_driver_bufconfig([t EXCEPT !.slot_size = 0], F)
            \in LibStates
        BY <2>1, BuffersTyped
    <2> QED
        BY <2>2, ProtocolTyped, WakelineTyped
           DEF priv_initialize_after_peer_reset
<1>5. ASSUME NEW stream \in BOOLEAN, NEW rate \in Rates
      PROVE  HandleSpeechConfigReq(s, stream, rate, F) \in LibStates
    <2> DEFINE a == Assert(e, "speech_config_req", s.proto_state \in Enabled)
               p == PrivChangeTo(a, IF stream THEN "CONFIG_ACT_PEND"
                                    ELSE "CONFIG_DEACT_PEND")
               h == priv_handle_speech_config(p, stream, rate, F)
    <2>1. a \in LibStates
        BY <1>1, <1>2, AssertTyped
    <2>2. p \in LibStates
        BY <1>2, <2>1, ProtocolTyped
    <2>3. h \in LibStates
        BY <2>2, SpeechConfigTyped
    <2>4. Reported(s, h, "SPEECH_CONFIG_REQ") \in LibStates
        BY <1>2, <2>3, ReportedTyped
    <2> QED
        BY <2>4 DEF HandleSpeechConfigReq, e
<1>6. HandleUplinkConfigNtf(s) \in LibStates
    <2> DEFINE a == Assert(e, "uplink_config_ntf", s.proto_state = "ACTIVE_DL")
    <2>1. UplinkStarted(a) \in LibStates
        BY <1>1, <1>2, <1>3, AssertTyped
    <2>2. Reported(s, UplinkStarted(a), "UPLINK_CONFIG_NTF") \in LibStates
        BY <1>2, <2>1, ReportedTyped
    <2> QED
        BY <2>2 DEF HandleUplinkConfigNtf, e
<1>7. HandleTimingConfigNtf(s) \in LibStates
    <2> DEFINE a == Assert(e, "timing_config_ntf", s.proto_state \in Active)
               u == UplinkStarted(a)
               t == IF u.priv_state = "TIMING" THEN PrivChangeTo(u, "IN_SYNC")
                    ELSE u
    <2>1. u \in LibStates
        BY <1>1, <1>2, <1>3, AssertTyped
    <2>2. PrivChangeTo(u, "IN_SYNC") \in LibStates
        BY <1>2, <2>1, ProtocolTyped
    <2>3. t \in LibStates
        BY <2>1, <2>2
    <2>4. Reported(s, t, "TIMING_CONFIG_NTF") \in LibStates
        BY <1>2, <2>3, ReportedTyped
    <2> QED
        BY <2>4 DEF HandleTimingConfigNtf, e
<1>8. ASSUME NEW ok \in BOOLEAN, NEW layout \in SampleLayouts
      PROVE  HandleSsiConfigResp(s, ok, layout, F) \in LibStates
    <2> DEFINE a == Assert(e, "ssi_config_resp",
                           s.proto_state \in {"CONNECTED", "DISCONNECTED"})
               h == priv_handle_ssi_config_resp(
                        SsiConfigAnswered(a, ok, layout, F), F)
    <2>1. a \in LibStates
        BY <1>1, <1>2, AssertTyped
    <2>2. SsiConfigAnswered(a, ok, layout, F) \in LibStates
        BY <2>1, SsiConfigTyped
    <2>3. h \in LibStates
        BY <2>2, SsiConfigTyped
    <2>4. Reported(s, h, "SSI_CONFIG_RESP") \in LibStates
        BY <1>2, <2>3, ReportedTyped
    <2> QED
        BY <2>4 DEF HandleSsiConfigResp, e
<1>9. HandleResetConnReq(s, F) \in LibStates
    <2> DEFINE a == Assert(e, "reset_conn_req", s.proto_state # "DISCONNECTED")
               w == Write(priv_reset_state_to_disconnected(a),
                          OutMsg("RESET_CONN_RESP"), F)
    <2>1. a \in LibStates
        BY <1>1, <1>2, AssertTyped
    <2>2. w \in LibStates
        BY <1>2, <2>1, Messages, ProtocolTyped
    <2>3. priv_initialize_after_peer_reset(w, F) \in LibStates
        BY <1>4, <2>2
    <2>4. Reported(s, priv_initialize_after_peer_reset(w, F), "EVENT_RESET")
            \in LibStates
        BY <1>2, <2>3, ReportedTyped
    <2> QED
        BY <2>4 DEF HandleResetConnReq, e
<1>10. HandleResetConnResp(s, F) \in LibStates
    <2> DEFINE a == Assert(e, "reset_conn_resp", s.proto_state # "DISCONNECTED")
               d == priv_reset_state_to_disconnected(a)
               c == IF s.priv_state = "RESET_BEFORE_CONNECT"
                    THEN cmtspeech_send_ssi_config_request(d, TRUE, F) ELSE d
    <2>1. d \in LibStates
        BY <1>1, <1>2, AssertTyped, ProtocolTyped
    <2>2. c \in LibStates
        BY <2>1, RequestsTyped
    <2>3. priv_release_wakeline(c, "RESET", F) \in LibStates
        BY <1>2, <2>2, WakelineTyped
    <2>4. Reported(s, priv_release_wakeline(c, "RESET", F), "EVENT_RESET")
            \in LibStates
        BY <1>2, <2>3, ReportedTyped
    <2> QED
        BY <2>4 DEF HandleResetConnResp, e
<1>11. HandleDriverError(s, F) \in LibStates
    BY <1>1, <1>2, <1>4, ReportedTyped DEF HandleDriverError, e
<1>12. ASSUME NEW len \in Nat PROVE HandleTestRampPing(s, len, F) \in LibStates
    <2> DEFINE a == Assert(e, "test_ramp_ping", s.proto_state = "DISCONNECTED")
               q == priv_acquire_wakeline(a, "TEST_RAMP_PING", F)
               w == Assert(q, "ping_acquire_wakeline", WakelineUp(s, F))
               c == RampConfigured(w, len, F)
    <2>1. a \in LibStates
        BY <1>1, <1>2, AssertTyped
    <2>2. q \in LibStates
        BY <1>2, <2>1, WakelineTyped
    <2>3. w \in LibStates
        BY <1>2, <2>2, AssertTyped
    <2>4. c \in LibStates
        <3>1. RampSlot(len) \in Nat
            BY DEF RampSlot
        <3>2. [w EXCEPT !.slot_size = RampSlot(len)] \in LibStates
            BY <2>3, <3>1, BuffersTyped
        <3> QED
            BY <2>3, <3>2, BuffersTyped DEF RampConfigured
    <2>5. Write(c, OutMsg("TX_DATA_READY"), F) \in LibStates
        BY <1>2, <2>4, Messages, ProtocolTyped
    <2> QED
        BY <2>4, <2>5 DEF HandleTestRampPing, e
<1>13. HandleRxData(s) \in LibStates
    BY <1>1, Zenon DEF HandleRxData, LibStates, e
<1> QED
    BY <1>5, <1>6, <1>7, <1>8, <1>9, <1>10, <1>11, <1>12, <1>13

\* The two halves of cmtspeech_state_change_call_status.
LEMMA StatusTyped ==
    ASSUME NEW s \in LibStates, NEW F
    PROVE  CallInactive(s, F) \in LibStates /\ CallActive(s, F) \in LibStates
<1>1. /\ "state_change_call_status" \in Assertions
      /\ "SSI_CONFIG_PEND" \in Privs /\ "RESET_BEFORE_CONNECT" \in Privs
      /\ "DISCONNECTED" \in Protos
    BY DEF Assertions, Privs, Protos
<1>2. CallInactive(s, F) \in LibStates
    <2> DEFINE a == Assert(s, "state_change_call_status",
                           s.proto_state = "CONNECTED")
    <2>1. a \in LibStates
        BY <1>1, AssertTyped
    <2>2. [a EXCEPT !.io_errors = TRUE] \in LibStates
        BY <2>1, Zenon DEF LibStates
    <2>3. cmtspeech_send_ssi_config_request(s, FALSE, F) \in LibStates
        BY RequestsTyped
    <2>4. PrivChangeTo(s, "SSI_CONFIG_PEND") \in LibStates
        BY <1>1, ProtocolTyped
    <2> HIDE DEF a
    <2> QED
        BY <2>2, <2>3, <2>4, Zenon DEF CallInactive, a
<1>3. CallActive(s, F) \in LibStates
    <2>1. cmtspeech_send_ssi_config_request(s, TRUE, F) \in LibStates
        BY RequestsTyped
    <2>2. PrivChangeTo(s, "SSI_CONFIG_PEND") \in LibStates
        BY <1>1, ProtocolTyped
    <2>3. PrivChangeTo(priv_send_reset(s, F), "RESET_BEFORE_CONNECT")
            \in LibStates
        BY <1>1, SendResetTyped, ProtocolTyped
    <2>4. cmtspeech_send_ssi_config_request(
            priv_reset_state_to_disconnected(s), TRUE, F) \in LibStates
        BY ProtocolTyped, RequestsTyped
    <2> QED
        BY <2>1, <2>2, <2>3, <2>4, Zenon DEF CallActive
<1> QED
    BY <1>2, <1>3

\* The calls of the application.
LEMMA CallsTyped ==
    ASSUME NEW s \in LibStates, NEW F
    PROVE  /\ \A on \in BOOLEAN :
                cmtspeech_state_change_call_status(s, on, F) \in LibStates
           /\ cmtspeech_state_change_error(s, F) \in LibStates
           /\ \A version \in {1, 2} :
                cmtspeech_set_wb_preference(s, version) \in LibStates
           /\ cmtspeech_send_timing_request(s, F) \in LibStates
           /\ \A len \in Nat :
                cmtspeech_test_data_ramp_req(s, len, F) \in LibStates
           /\ \A i \in ULSlots : /\ cmtspeech_ul_buffer_acquire(s, i) \in LibStates
                                 /\ cmtspeech_ul_buffer_release(s, i, F) \in LibStates
           /\ \A i \in DLSlots : /\ cmtspeech_dl_buffer_acquire(s, i) \in LibStates
                                 /\ cmtspeech_dl_buffer_release(s, i, F) \in LibStates
<1> DEFINE e == Entered(s)
<1>1. e \in LibStates
    BY ProtocolTyped
<1>2. /\ {"state_change_call_status", "test_data_ramp_req", "ul_buffer_release",
          "dl_buffer_acquire", "dl_buffer_release", "layout_change_released"}
            \subseteq Assertions
      /\ {"IN_SYNC", "SSI_CONFIG_PEND", "RESET_BEFORE_CONNECT"} \subseteq Privs
      /\ {"DISCONNECTED", "TEST_RAMP_PING_ACTIVE"} \subseteq Protos
      /\ "TEST_RAMP_PING" \in WakelineUsers
      /\ "TEST_RAMP_PING" \in OutTypes
    BY DEF Assertions, Privs, Protos, WakelineUsers, OutTypes
<1> HIDE DEF e
<1>3. CallInactive(e, F) \in LibStates
    BY <1>1, StatusTyped
<1>4. CallActive(e, F) \in LibStates
    BY <1>1, StatusTyped
<1>5. ASSUME NEW on \in BOOLEAN
      PROVE  cmtspeech_state_change_call_status(s, on, F) \in LibStates
    <2> DEFINE c == IF on THEN CallActive(e, F) ELSE CallInactive(e, F)
    <2>1. c \in LibStates
        BY <1>3, <1>4
    <2>2. [c EXCEPT !.call_server_active = on] \in LibStates
        BY <2>1, Zenon DEF LibStates
    <2> QED
        BY <2>2 DEF cmtspeech_state_change_call_status, e
<1>6. cmtspeech_state_change_error(s, F) \in LibStates
    BY <1>1, SendResetTyped DEF cmtspeech_state_change_error, e
<1>7. ASSUME NEW version \in {1, 2}
      PROVE  cmtspeech_set_wb_preference(s, version) \in LibStates
    <2>1. [e EXCEPT !.conf_proto_version = version] \in LibStates
        BY <1>1, Zenon DEF LibStates
    <2> QED
        BY <1>1, <2>1 DEF cmtspeech_set_wb_preference, e
<1>8. cmtspeech_send_timing_request(s, F) \in LibStates
    BY <1>1, RequestsTyped DEF cmtspeech_send_timing_request, e
<1>9. ASSUME NEW t \in LibStates PROVE RampRequested(t, F) \in LibStates
    <2> DEFINE a == Assert(t, "test_data_ramp_req",
                           t.proto_state = "DISCONNECTED")
               w == Write(a, OutMsg("TEST_RAMP_PING"), F)
    <2>1. a \in LibStates
        BY <1>2, AssertTyped
    <2>2. w \in LibStates
        BY <1>2, <2>1, Messages, ProtocolTyped
    <2>3. StateChangeTo(w, "TEST_RAMP_PING_ACTIVE", "IN_SYNC") \in LibStates
        BY <1>2, <2>2, ProtocolTyped
    <2> HIDE DEF a, w
    <2> QED
        BY <2>1, <2>2, <2>3, Zenon DEF RampRequested, a, w
<1>10. ASSUME NEW len \in Nat
       PROVE  cmtspeech_test_data_ramp_req(s, len, F) \in LibStates
    <2>1. RampSlot(len) \in Nat
        BY DEF RampSlot
    <2>2. [e EXCEPT !.slot_size = RampSlot(len)] \in LibStates
        BY <1>1, <2>1, BuffersTyped
    <2>3. RampConfigured(e, len, F) \in LibStates
        BY <1>1, <2>2, BuffersTyped DEF RampConfigured
    <2>4. priv_acquire_wakeline(RampConfigured(e, len, F), "TEST_RAMP_PING", F)
            \in LibStates
        BY <1>2, <2>3, WakelineTyped
    <2>5. RampRequested(priv_acquire_wakeline(RampConfigured(e, len, F),
                                              "TEST_RAMP_PING", F), F)
            \in LibStates
        BY <1>9, <2>4
    <2> QED
        BY <2>3, <2>4, <2>5 DEF cmtspeech_test_data_ramp_req, e
<1>11. ASSUME NEW i \in ULSlots
       PROVE  /\ cmtspeech_ul_buffer_acquire(s, i) \in LibStates
              /\ cmtspeech_ul_buffer_release(s, i, F) \in LibStates
    <2> DEFINE b == Assert(e, "ul_buffer_release", s.proto_state = "ACTIVE_DLUL")
               u == [b EXCEPT !.ul_locked = b.ul_locked \ {i}]
               a == Assert(u, "layout_change_released",
                           i \in s.ul_locked /\ s.ul_desc = 0)
               r == LayoutChangeReleased(a, F)
    <2>1. cmtspeech_ul_buffer_acquire(s, i) \in LibStates
        <3>1. e.ul_locked \cup {i} \in SUBSET ULSlots
            BY <1>1, Fields
        <3> QED
            BY <1>1, <3>1, Zenon
               DEF cmtspeech_ul_buffer_acquire, LibStates, e
    <2>2. b \in LibStates
        BY <1>1, <1>2, AssertTyped
    <2>3. u \in LibStates
        <3>1. b.ul_locked \ {i} \in SUBSET ULSlots
            BY <2>2, Fields
        <3> HIDE DEF b
        <3> QED
            BY <2>2, <3>1, Zenon DEF LibStates
    <2>4. a \in LibStates
        BY <1>2, <2>3, AssertTyped
    <2>5. r \in LibStates
        BY <2>4, SpeechConfigTyped
    <2>6. Assert(r, "ul_buffer_release", r.ul_desc > 0) \in LibStates
        BY <1>2, <2>5, AssertTyped
    <2>7. cmtspeech_ul_buffer_release(s, i, F) \in LibStates
        BY <2>3, <2>6 DEF cmtspeech_ul_buffer_release, e
    <2> QED
        BY <2>1, <2>7
<1>12. ASSUME NEW i \in DLSlots
       PROVE  /\ cmtspeech_dl_buffer_acquire(s, i) \in LibStates
              /\ cmtspeech_dl_buffer_release(s, i, F) \in LibStates
    <2> DEFINE l == [e EXCEPT !.dl_locked = e.dl_locked \cup {i}]
               q == Assert(l, "dl_buffer_acquire", s.dl_desc = s.slot_size)
               u == [e EXCEPT !.dl_locked = e.dl_locked \ {i}]
               a == Assert(u, "layout_change_released", s.dl_desc = 0)
               r == LayoutChangeReleased(a, F)
    <2>1. l \in LibStates /\ u \in LibStates
        <3>1. /\ e.dl_locked \cup {i} \in SUBSET DLSlots
              /\ e.dl_locked \ {i} \in SUBSET DLSlots
            BY <1>1, Fields
        <3> QED
            BY <1>1, <3>1, Zenon DEF LibStates
    <2>2. q \in LibStates /\ a \in LibStates
        BY <1>2, <2>1, AssertTyped
    <2>3. StateChangeTo(q, "DISCONNECTED", "IN_SYNC") \in LibStates
        BY <1>2, <2>2, ProtocolTyped
    <2>4. cmtspeech_dl_buffer_acquire(s, i) \in LibStates
        BY <2>2, <2>3 DEF cmtspeech_dl_buffer_acquire, e
    <2>5. r \in LibStates
        BY <2>2, SpeechConfigTyped
    <2>6. Assert(r, "dl_buffer_release", r.dl_desc > 0) \in LibStates
        BY <1>2, <2>5, AssertTyped
    <2>7. cmtspeech_dl_buffer_release(s, i, F) \in LibStates
        BY <1>1, <2>1, <2>6 DEF cmtspeech_dl_buffer_release, e
    <2> QED
        BY <2>4, <2>7
<1> QED
    BY <1>5, <1>6, <1>7, <1>8, <1>10, <1>11, <1>12

\* The state cmtspeech_open leaves is one of the library's.
LEMMA OpenedTyped == Opened \in LibStates
<1>1. /\ <<>> \in Seq(OutMsgs) /\ {} \in SUBSET Assertions
      /\ NoEvent \in [type : EventTypes, prev : Protos, state : Protos]
      /\ "DISCONNECTED" \in Protos /\ "IN_SYNC" \in Privs
      /\ {} \in SUBSET WakelineUsers /\ {} \in SUBSET ULSlots
      /\ {} \in SUBSET DLSlots /\ 0 \in Nat /\ 1 \in {1, 2}
      /\ "none" \in {"inorder", "swapped", "none"}
    BY DEF NoEvent, EventTypes, Protos, Privs
<1> QED
    BY <1>1, Zenon DEF Opened, LibStates

-----------------------------------------------------------------------------
(* The protocol state, the private state and the wakeline                  *)

\* StatesAgree, of any state.
Agrees(s) ==
    /\ s.priv_state = "CONNECTING" => s.proto_state = "DISCONNECTED"
    /\ s.priv_state = "DISCONNECTING" => s.proto_state = "CONNECTED"
    /\ s.priv_state = "SSI_CONFIG_PEND" =>
            s.proto_state \in {"DISCONNECTED", "CONNECTED"}
    /\ s.priv_state = "RESET_BEFORE_CONNECT" =>
            s.proto_state \in {"INVALID", "TEST_RAMP_PING_ACTIVE"}

Engaged(s) ==
    \/ s.proto_state \in Enabled
    \/ s.priv_state \in {"CONNECTING", "DISCONNECTING", "SSI_CONFIG_PEND"}

LineFollowsUsers(s) == s.line <=> s.wakeline_users # {}

\* UsersRecorded, of any state.
Recorded(s) ==
    /\ Engaged(s) => "CALL" \in s.wakeline_users
    /\ s.proto_state = "INVALID" => "RESET" \in s.wakeline_users
    /\ LineFollowsUsers(s)

\* The driver switches the line and takes RESET_CONN_REQ.
Dependable(F) == "CS_SET_WAKELINE" \notin F /\ "RESET_CONN_REQ" \notin F

\* Nothing of t that matters here differs from s.
Same(t, s) ==
    /\ t.proto_state = s.proto_state /\ t.priv_state = s.priv_state
    /\ t.wakeline_users = s.wakeline_users /\ t.line = s.line

\* What does not touch the protocol state and the wakeline.
LEMMA Frames ==
    ASSUME NEW s \in LibStates, NEW F
    PROVE  /\ Same(Entered(s), s)
           /\ \A m \in OutMsgs : Same(Write(s, m, F), s)
           /\ \A size \in Nat : Same([s EXCEPT !.slot_size = size], s)
           /\ Same(priv_invalidate_buffer_slots(s), s)
           /\ Same(priv_setup_driver_bufconfig(s, F), s)
           /\ Same(priv_update_dl_buffer_descriptors(s), s)
<1>1. Same(Entered(s), s)
    BY DEF Same, Entered, LibStates
<1>2. ASSUME NEW m \in OutMsgs PROVE Same(Write(s, m, F), s)
    BY DEF Same, Write, LibStates
<1>3. ASSUME NEW size \in Nat PROVE Same([s EXCEPT !.slot_size = size], s)
    BY DEF Same, LibStates
<1>4. Same(priv_invalidate_buffer_slots(s), s)
    BY DEF Same, priv_invalidate_buffer_slots, LibStates
<1>5. ASSUME NEW t \in LibStates
      PROVE  Same(priv_setup_driver_bufconfig_v2api(t, F), t)
    BY DEF Same, priv_setup_driver_bufconfig_v2api, LibStates
<1>6. Same(priv_setup_driver_bufconfig(s, F), s)
    <2> DEFINE z == priv_reset_buf_state_to_disconnected(s)
               n == [s EXCEPT !.rx_started = FALSE]
    <2>1. z \in LibStates /\ Same(z, s)
        <3>1. z \in LibStates
            BY BuffersTyped
        <3>2. Same(z, s)
            BY DEF Same, priv_reset_buf_state_to_disconnected, LibStates
        <3> QED
            BY <3>1, <3>2
    <2>2. n \in LibStates
        BY Zenon DEF LibStates
    <2>3. Same(n, s)
        BY DEF Same, LibStates
    <2>4. /\ Same(priv_setup_driver_bufconfig_v2api(z, F), z)
          /\ Same(priv_setup_driver_bufconfig_v2api(n, F), n)
        BY <1>5, <2>1, <2>2
    <2> HIDE DEF z, n
    <2> QED
        BY <2>1, <2>3, <2>4 DEF priv_setup_driver_bufconfig, Same, z, n
<1>7. Same(priv_update_dl_buffer_descriptors(s), s)
    BY DEF Same, priv_update_dl_buffer_descriptors, LibStates
<1> QED
    BY <1>1, <1>2, <1>3, <1>4, <1>6, <1>7

\* An assertion touches neither states, users nor buffers.
LEMMA AssertFrame ==
    ASSUME NEW s \in LibStates, NEW name, NEW holds
    PROVE  Same(Assert(s, name, holds), s)
    BY DEF Same, Assert, LibStates

\* What is the same is as good.
LEMMA SameKeeps ==
    ASSUME NEW s, NEW t, Same(t, s)
    PROVE  /\ Agrees(s) => Agrees(t)
           /\ Recorded(s) => Recorded(t)
           /\ LineFollowsUsers(s) => LineFollowsUsers(t)
    BY DEF Same, Agrees, Recorded, Engaged, LineFollowsUsers

\* The state changes of cmtspeech_backend_common.c.
LEMMA Changes ==
    ASSUME NEW s \in LibStates, NEW proto \in Protos, NEW priv \in Privs
    PROVE  LET c == StateChangeTo(s, proto, priv)
               p == PrivChangeTo(s, priv)
               d == priv_reset_state_to_disconnected(s)
           IN  /\ c.proto_state = proto /\ c.priv_state = priv
               /\ c.wakeline_users = s.wakeline_users /\ c.line = s.line
               /\ p.proto_state = s.proto_state /\ p.priv_state = priv
               /\ p.wakeline_users = s.wakeline_users /\ p.line = s.line
               /\ d.proto_state = "DISCONNECTED" /\ d.priv_state = "IN_SYNC"
               /\ d.wakeline_users = s.wakeline_users /\ d.line = s.line
    BY DEF StateChangeTo, PrivChangeTo, priv_reset_state_to_disconnected,
           LibStates

\* The wakeline follows its users when the driver switches it.
LEMMA WakelineFollows ==
    ASSUME NEW s \in LibStates, NEW F
    PROVE  /\ \A id \in WakelineUsers :
                LET a == priv_acquire_wakeline(s, id, F)
                    r == priv_release_wakeline(s, id, F)
                IN  /\ a.proto_state = s.proto_state
                    /\ a.priv_state = s.priv_state
                    /\ a.wakeline_users = s.wakeline_users \cup {id}
                    /\ Dependable(F) /\ LineFollowsUsers(s)
                            => LineFollowsUsers(a)
                    /\ r.proto_state = s.proto_state
                    /\ r.priv_state = s.priv_state
                    /\ r.wakeline_users = s.wakeline_users \ {id}
                    /\ Dependable(F) /\ LineFollowsUsers(s)
                            => LineFollowsUsers(r)
           /\ LET z == priv_reset_wakeline_state(s, F)
              IN  /\ z.proto_state = s.proto_state
                  /\ z.priv_state = s.priv_state
                  /\ z.wakeline_users = {}
                  /\ Dependable(F) => LineFollowsUsers(z)
<1>1. ASSUME NEW id \in WakelineUsers
      PROVE  LET a == priv_acquire_wakeline(s, id, F)
             IN  /\ a.proto_state = s.proto_state
                 /\ a.priv_state = s.priv_state
                 /\ a.wakeline_users = s.wakeline_users \cup {id}
                 /\ Dependable(F) /\ LineFollowsUsers(s) => LineFollowsUsers(a)
    <2> DEFINE a == priv_acquire_wakeline(s, id, F)
    <2>1. /\ a.proto_state = s.proto_state /\ a.priv_state = s.priv_state
          /\ a.wakeline_users = s.wakeline_users \cup {id}
          /\ a.line = (s.line \/ (s.wakeline_users = {} /\ LineSwitched(s, F)))
        BY DEF priv_acquire_wakeline, LibStates
    <2>2. s.line \in BOOLEAN
        BY Fields
    <2> HIDE DEF a
    <2> QED
        BY <2>1, <2>2 DEF LineFollowsUsers, Dependable, LineSwitched, a
<1>2. ASSUME NEW id \in WakelineUsers
      PROVE  LET r == priv_release_wakeline(s, id, F)
             IN  /\ r.proto_state = s.proto_state
                 /\ r.priv_state = s.priv_state
                 /\ r.wakeline_users = s.wakeline_users \ {id}
                 /\ Dependable(F) /\ LineFollowsUsers(s) => LineFollowsUsers(r)
    <2> DEFINE left == s.wakeline_users \ {id}
               last == s.wakeline_users # {} /\ left = {}
               r == priv_release_wakeline(s, id, F)
    <2>1. /\ r.proto_state = s.proto_state /\ r.priv_state = s.priv_state
          /\ r.wakeline_users = left
          /\ r.line = (s.line /\ ~(last /\ LineSwitched(s, F)))
        BY DEF priv_release_wakeline, Assert, LibStates
    <2>2. s.line \in BOOLEAN
        BY Fields
    <2> HIDE DEF r
    <2> QED
        BY <2>1, <2>2 DEF LineFollowsUsers, Dependable, LineSwitched, r
<1>3. LET z == priv_reset_wakeline_state(s, F)
      IN  /\ z.proto_state = s.proto_state
          /\ z.priv_state = s.priv_state
          /\ z.wakeline_users = {}
          /\ Dependable(F) => LineFollowsUsers(z)
    <2> DEFINE z == priv_reset_wakeline_state(s, F)
    <2>1. /\ z.proto_state = s.proto_state /\ z.priv_state = s.priv_state
          /\ z.wakeline_users = {}
          /\ z.line = (s.line /\ ~LineSwitched(s, F))
        BY DEF priv_reset_wakeline_state, Assert, LibStates
    <2> HIDE DEF z
    <2> QED
        BY <2>1 DEF LineFollowsUsers, Dependable, LineSwitched, z
<1> QED
    BY <1>1, <1>2, <1>3

\* RequestEffects.  A failed write of SSI_CONFIG_REQ leaves priv_state IN_SYNC; a
\* failed write of RESET_CONN_REQ leaves the protocol state as it was.
LEMMA RequestEffects ==
    ASSUME NEW s \in LibStates, NEW F
    PROVE  LET t == cmtspeech_bc_send_timing_request(s, F)
               on == cmtspeech_send_ssi_config_request(s, TRUE, F)
               off == cmtspeech_send_ssi_config_request(s, FALSE, F)
               r == priv_send_reset(s, F)
           IN  /\ t.proto_state = s.proto_state
               /\ t.priv_state \in {s.priv_state, "TIMING"}
               /\ t.wakeline_users = s.wakeline_users /\ t.line = s.line
               /\ on.proto_state = s.proto_state
               /\ on.priv_state \in {"CONNECTING", "IN_SYNC"}
               /\ on.wakeline_users = s.wakeline_users \cup {"CALL"}
               /\ Dependable(F) /\ LineFollowsUsers(s) => LineFollowsUsers(on)
               /\ off.proto_state = s.proto_state
               /\ off.priv_state \in {"DISCONNECTING", "IN_SYNC"}
               /\ off.wakeline_users = s.wakeline_users /\ off.line = s.line
               /\ \/ r.proto_state = "INVALID" /\ r.priv_state = "IN_SYNC"
                  \/ /\ r.proto_state = s.proto_state
                     /\ r.priv_state = s.priv_state
                     /\ ~Dependable(F)
               /\ Dependable(F) =>
                    r.wakeline_users = s.wakeline_users \cup {"RESET"}
               /\ Dependable(F) /\ LineFollowsUsers(s) => LineFollowsUsers(r)
<1>1. /\ {"NEW_TIMING_CONFIG_REQ", "RESET_CONN_REQ"} \subseteq OutTypes
      /\ {"TIMING", "IN_SYNC", "CONNECTING", "DISCONNECTING"} \subseteq Privs
      /\ "INVALID" \in Protos /\ {"CALL", "RESET"} \subseteq WakelineUsers
    BY DEF OutTypes, Privs, Protos, WakelineUsers
<1>2. LET t == cmtspeech_bc_send_timing_request(s, F)
      IN  /\ t.proto_state = s.proto_state
          /\ t.priv_state \in {s.priv_state, "TIMING"}
          /\ t.wakeline_users = s.wakeline_users /\ t.line = s.line
    <2> DEFINE w == Write(s, OutMsg("NEW_TIMING_CONFIG_REQ"), F)
               p == PrivChangeTo(w, "TIMING")
    <2>1. w \in LibStates /\ Same(w, s)
        BY <1>1, Messages, ProtocolTyped, Frames
    <2>2. /\ p.proto_state = w.proto_state /\ p.priv_state = "TIMING"
          /\ p.wakeline_users = w.wakeline_users /\ p.line = w.line
        BY <1>1, <2>1, Changes
    <2> HIDE DEF w, p
    <2> QED
        BY <2>1, <2>2 DEF cmtspeech_bc_send_timing_request, Same, w, p
<1>3. ASSUME NEW u \in LibStates, NEW on \in BOOLEAN
      PROVE  LET c == SsiConfigWritten(u, on, F)
             IN  /\ c.proto_state = u.proto_state
                 /\ c.priv_state \in
                        {"IN_SYNC", IF on THEN "CONNECTING" ELSE "DISCONNECTING"}
                 /\ c.wakeline_users = u.wakeline_users /\ c.line = u.line
    <2> DEFINE q == IF on THEN "CONNECTING" ELSE "DISCONNECTING"
               p == PrivChangeTo(u, q)
               w == Write(p, SsiConfigReq(on, u.conf_proto_version), F)
               f == PrivChangeTo(w, "IN_SYNC")
    <2>1. q \in Privs
        BY <1>1
    <2> HIDE DEF q
    <2>2. /\ p \in LibStates
          /\ p.proto_state = u.proto_state /\ p.priv_state = q
          /\ p.wakeline_users = u.wakeline_users /\ p.line = u.line
        <3>1. "INVALID" \in Protos
            BY <1>1
        <3>2. p \in LibStates
            BY <2>1, <3>1, ProtocolTyped
        <3>3. /\ p.proto_state = u.proto_state /\ p.priv_state = q
              /\ p.wakeline_users = u.wakeline_users /\ p.line = u.line
            BY <2>1, <3>1, Changes
        <3> QED
            BY <3>2, <3>3
    <2>3. w \in LibStates /\ Same(w, p)
        BY <2>2, Fields, Messages, ProtocolTyped, Frames
    <2>4. /\ f.proto_state = w.proto_state /\ f.priv_state = "IN_SYNC"
          /\ f.wakeline_users = w.wakeline_users /\ f.line = w.line
        BY <1>1, <2>3, Changes
    <2> HIDE DEF p, w, f
    <2> QED
        BY <2>2, <2>3, <2>4 DEF SsiConfigWritten, Same, p, w, f, q
<1>4. ASSUME NEW u \in LibStates
      PROVE  LET on == cmtspeech_bc_send_ssi_config_request(u, TRUE, F)
                 off == cmtspeech_bc_send_ssi_config_request(u, FALSE, F)
             IN  /\ on.proto_state = u.proto_state
                 /\ on.priv_state \in {"CONNECTING", "IN_SYNC"}
                 /\ on.wakeline_users = u.wakeline_users /\ on.line = u.line
                 /\ off.proto_state = u.proto_state
                 /\ off.priv_state \in {"DISCONNECTING", "IN_SYNC"}
                 /\ off.wakeline_users = u.wakeline_users /\ off.line = u.line
    <2> DEFINE a == Assert(u, "send_ssi_config_request(1)",
                           \/ u.proto_state = "DISCONNECTED"
                           \/ u.priv_state = "SSI_CONFIG_PEND")
               b == Assert(u, "send_ssi_config_request(0)",
                           \/ u.proto_state = "CONNECTED"
                           \/ u.priv_state = "SSI_CONFIG_PEND")
    <2>1. a \in LibStates /\ b \in LibStates
        <3>1. {"send_ssi_config_request(0)", "send_ssi_config_request(1)"}
                \subseteq Assertions
            BY DEF Assertions
        <3> QED
            BY <3>1, AssertTyped
    <2>2. Same(a, u) /\ Same(b, u)
        BY AssertFrame
    <2> HIDE DEF a, b
    <2>3. LET on == SsiConfigWritten(a, TRUE, F)
              off == SsiConfigWritten(b, FALSE, F)
          IN  /\ on.proto_state = a.proto_state
              /\ on.priv_state \in {"CONNECTING", "IN_SYNC"}
              /\ on.wakeline_users = a.wakeline_users /\ on.line = a.line
              /\ off.proto_state = b.proto_state
              /\ off.priv_state \in {"DISCONNECTING", "IN_SYNC"}
              /\ off.wakeline_users = b.wakeline_users /\ off.line = b.line
        BY <1>3, <2>1
    <2> QED
        BY <2>2, <2>3 DEF cmtspeech_bc_send_ssi_config_request, Same, a, b
<1>5. LET on == cmtspeech_send_ssi_config_request(s, TRUE, F)
          off == cmtspeech_send_ssi_config_request(s, FALSE, F)
      IN  /\ on.proto_state = s.proto_state
          /\ on.priv_state \in {"CONNECTING", "IN_SYNC"}
          /\ on.wakeline_users = s.wakeline_users \cup {"CALL"}
          /\ Dependable(F) /\ LineFollowsUsers(s) => LineFollowsUsers(on)
          /\ off.proto_state = s.proto_state
          /\ off.priv_state \in {"DISCONNECTING", "IN_SYNC"}
          /\ off.wakeline_users = s.wakeline_users /\ off.line = s.line
    <2> DEFINE a == priv_acquire_wakeline(s, "CALL", F)
    <2>1. a \in LibStates
        BY <1>1, WakelineTyped
    <2>2. /\ a.proto_state = s.proto_state
          /\ a.wakeline_users = s.wakeline_users \cup {"CALL"}
          /\ Dependable(F) /\ LineFollowsUsers(s) => LineFollowsUsers(a)
        BY <1>1, WakelineFollows
    <2>3. LET on == cmtspeech_bc_send_ssi_config_request(a, TRUE, F)
          IN  /\ on.proto_state = a.proto_state
              /\ on.priv_state \in {"CONNECTING", "IN_SYNC"}
              /\ on.wakeline_users = a.wakeline_users /\ on.line = a.line
        BY <1>4, <2>1
    <2> HIDE DEF a
    <2> QED
        BY <1>4, <2>2, <2>3
           DEF cmtspeech_send_ssi_config_request, LineFollowsUsers, a
<1>6. LET r == priv_send_reset(s, F)
      IN  /\ \/ r.proto_state = "INVALID" /\ r.priv_state = "IN_SYNC"
             \/ /\ r.proto_state = s.proto_state /\ r.priv_state = s.priv_state
                /\ ~Dependable(F)
          /\ Dependable(F) =>
                r.wakeline_users = s.wakeline_users \cup {"RESET"}
          /\ Dependable(F) /\ LineFollowsUsers(s) => LineFollowsUsers(r)
    <2> DEFINE a == priv_acquire_wakeline(s, "RESET", F)
               x == Write(a, OutMsg("RESET_CONN_REQ"), F)
               w == WriteResetConnReq(a, F)
               l == priv_release_wakeline(w, "RESET", F)
               r == IF ~WakelineUp(s, F) THEN a
                    ELSE IF "RESET_CONN_REQ" \in F THEN l ELSE w
               z == [r EXCEPT !.slot_size = 0]
    <2>1. /\ a \in LibStates
          /\ a.proto_state = s.proto_state /\ a.priv_state = s.priv_state
          /\ a.wakeline_users = s.wakeline_users \cup {"RESET"}
          /\ Dependable(F) /\ LineFollowsUsers(s) => LineFollowsUsers(a)
        BY SMTT(30), <1>1, WakelineTyped, WakelineFollows
    <2>2. x \in LibStates /\ Same(x, a)
        BY <1>1, <2>1, Messages, ProtocolTyped, Frames
    <2>3. w \in LibStates
        BY <2>1, RequestsTyped
    <2>4. /\ w.wakeline_users = a.wakeline_users /\ w.line = a.line
          /\ "RESET_CONN_REQ" \in F =>
                w.proto_state = a.proto_state /\ w.priv_state = a.priv_state
          /\ "RESET_CONN_REQ" \notin F =>
                w.proto_state = "INVALID" /\ w.priv_state = "IN_SYNC"
        <3> DEFINE c == StateChangeTo(x, "INVALID", "IN_SYNC")
        <3>1. /\ c.proto_state = "INVALID" /\ c.priv_state = "IN_SYNC"
              /\ c.wakeline_users = x.wakeline_users /\ c.line = x.line
            BY <1>1, <2>2, Changes
        <3> HIDE DEF a, x, c
        <3> QED
            BY <2>2, <3>1 DEF WriteResetConnReq, Same, x, c
    <2> HIDE DEF a, w
    <2>5. /\ l \in LibStates
          /\ l.proto_state = w.proto_state /\ l.priv_state = w.priv_state
        <3>1. "RESET" \in WakelineUsers
            BY <1>1
        <3>2. l \in LibStates
            BY <2>3, <3>1, WakelineTyped
        <3>3. l.proto_state = w.proto_state /\ l.priv_state = w.priv_state
            <4>1. ASSUME NEW t \in LibStates
                  PROVE  LET q == priv_release_wakeline(t, "RESET", F)
                         IN  /\ q.proto_state = t.proto_state
                             /\ q.priv_state = t.priv_state
                BY SMTT(30), <3>1, WakelineFollows
            <4> QED
                BY <2>3, <4>1
        <3> QED
            BY <3>2, <3>3
    <2> HIDE DEF l
    <2>6. /\ r \in LibStates
          /\ \/ r.proto_state = "INVALID" /\ r.priv_state = "IN_SYNC"
             \/ /\ r.proto_state = s.proto_state /\ r.priv_state = s.priv_state
                /\ ~Dependable(F)
          /\ Dependable(F) => r = w
        BY <2>1, <2>3, <2>4, <2>5 DEF Dependable, WakelineUp, LineSwitched
    <2> HIDE DEF r
    <2>7. z \in LibStates /\ Same(z, r)
        BY <2>6, BuffersTyped, Frames
    <2> HIDE DEF z
    <2>8. Same(priv_setup_driver_bufconfig(z, F), z)
        BY <2>7, Frames
    <2>9. priv_send_reset(s, F) = priv_setup_driver_bufconfig(z, F)
        BY DEF priv_send_reset, a, w, l, r, z
    <2> QED
        BY <2>1, <2>4, <2>6, <2>7, <2>8, <2>9 DEF Same, LineFollowsUsers
<1> QED
    BY <1>2, <1>5, <1>6

\* The part of RequestEffects about RESET_CONN_REQ.
LEMMA ResetRequest ==
    ASSUME NEW s \in LibStates, NEW F
    PROVE  /\ \/ /\ priv_send_reset(s, F).proto_state = "INVALID"
                 /\ priv_send_reset(s, F).priv_state = "IN_SYNC"
              \/ /\ priv_send_reset(s, F).proto_state = s.proto_state
                 /\ priv_send_reset(s, F).priv_state = s.priv_state
                 /\ ~Dependable(F)
           /\ Dependable(F) =>
                priv_send_reset(s, F).wakeline_users
                    = s.wakeline_users \cup {"RESET"}
           /\ Dependable(F) /\ LineFollowsUsers(s)
                => LineFollowsUsers(priv_send_reset(s, F))
BY RequestEffects

\* The step from s to t keeps the protocol state consistent and, with a
\* dependable driver, the wakeline recorded.
Keeps(t, s, F) ==
    /\ Agrees(s) => Agrees(t)
    /\ Agrees(s) /\ Recorded(s) /\ Dependable(F) => Recorded(t)

\* What every step of an operation keeps, the operation keeps.
LEMMA KeepsChain ==
    ASSUME NEW s, NEW t, NEW u, NEW F
    PROVE  /\ Keeps(t, s, F) /\ Keeps(u, t, F) => Keeps(u, s, F)
           /\ Same(t, s) => Keeps(t, s, F)
           /\ Keeps(s, s, F)
    BY SameKeeps DEF Keeps

\* priv_send_reset forgets the states and takes the wakeline for the reset.
LEMMA SendResetKeeps ==
    ASSUME NEW s \in LibStates, NEW F
    PROVE  Keeps(priv_send_reset(s, F), s, F)
<1> DEFINE r == priv_send_reset(s, F)
<1>1. /\ \/ r.proto_state = "INVALID" /\ r.priv_state = "IN_SYNC"
         \/ /\ r.proto_state = s.proto_state /\ r.priv_state = s.priv_state
            /\ ~Dependable(F)
      /\ Dependable(F) => r.wakeline_users = s.wakeline_users \cup {"RESET"}
      /\ Dependable(F) /\ LineFollowsUsers(s) => LineFollowsUsers(r)
    BY RequestEffects
<1> HIDE DEF r
<1> QED
    BY <1>1 DEF Keeps, Agrees, Recorded, Engaged, Enabled, Active, r

\* The answer to SPEECH_CONFIG_REQ, whenever it is given.
LEMMA SpeechConfigKeeps ==
    ASSUME NEW s \in LibStates, NEW F
    PROVE  /\ \A stream \in BOOLEAN, rate \in Rates :
                    Keeps(priv_handle_speech_config(s, stream, rate, F), s, F)
           /\ Keeps(LayoutChangeReleased(s, F), s, F)
<1>1. /\ {"IN_SYNC", "CONFIG_ACT_PEND"} \subseteq Privs
      /\ "post_command" \in Assertions
      /\ {"CONNECTED", "ACTIVE_DL"} \subseteq Protos
    BY DEF Privs, Protos, Assertions
<1>2. ASSUME NEW t \in LibStates, NEW ok \in BOOLEAN
      PROVE  /\ PostSpeechConfigResp(t, ok, F) \in LibStates
             /\ Keeps(PostSpeechConfigResp(t, ok, F), t, F)
    <2> DEFINE a == Assert(t, "post_command", t.priv_state \in ConfigPending)
               i == PrivChangeTo(a, "IN_SYNC")
               stopped == StateChangeTo(a, "CONNECTED", "IN_SYNC")
               started == StateChangeTo(a, "ACTIVE_DL", "IN_SYNC")
               timed == cmtspeech_bc_send_timing_request(started, F)
               closed == cmtspeech_send_ssi_config_request(stopped, FALSE, F)
               post == PostSpeechConfigResp(t, ok, F)
    <2>1. a \in LibStates /\ Same(a, t)
        BY <1>1, AssertTyped, AssertFrame
    <2> HIDE DEF a
    <2>2. /\ i.proto_state = a.proto_state /\ i.priv_state = "IN_SYNC"
          /\ i.wakeline_users = a.wakeline_users /\ i.line = a.line
          /\ i \in LibStates
        <3>1. "IN_SYNC" \in Privs /\ a.proto_state \in Protos
            BY <1>1, <2>1, Fields
        <3>2. i \in LibStates
            BY <2>1, <3>1, ProtocolTyped
        <3> QED
            BY <2>1, <3>1, <3>2, Changes
    <2>3. /\ stopped.proto_state = "CONNECTED" /\ stopped.priv_state = "IN_SYNC"
          /\ stopped.wakeline_users = a.wakeline_users /\ stopped.line = a.line
          /\ stopped \in LibStates
        <3>1. "IN_SYNC" \in Privs /\ "CONNECTED" \in Protos
            BY <1>1
        <3>2. stopped \in LibStates
            BY <2>1, <3>1, ProtocolTyped
        <3> QED
            BY <2>1, <3>1, <3>2, Changes
    <2>4. /\ started.proto_state = "ACTIVE_DL" /\ started.priv_state = "IN_SYNC"
          /\ started.wakeline_users = a.wakeline_users /\ started.line = a.line
          /\ started \in LibStates
        <3>1. "IN_SYNC" \in Privs /\ "ACTIVE_DL" \in Protos
            BY <1>1
        <3>2. started \in LibStates
            BY <2>1, <3>1, ProtocolTyped
        <3> QED
            BY <2>1, <3>1, <3>2, Changes
    <2> HIDE DEF i, stopped, started
    <2>5. /\ timed \in LibStates /\ timed.proto_state = "ACTIVE_DL"
          /\ timed.priv_state \in {"IN_SYNC", "TIMING"}
          /\ timed.wakeline_users = a.wakeline_users /\ timed.line = a.line
        BY <2>4, RequestsTyped, RequestEffects
    <2>6. /\ closed \in LibStates /\ closed.proto_state = "CONNECTED"
          /\ closed.priv_state \in {"DISCONNECTING", "IN_SYNC"}
          /\ closed.wakeline_users = a.wakeline_users /\ closed.line = a.line
        BY <2>3, RequestsTyped, RequestEffects
    <2> HIDE DEF timed, closed
    <2>7. \/ post = a \/ post = i
          \/ post \in {timed, started} /\ t.proto_state \in {"CONNECTED", "ACTIVE_DLUL"}
          \/ post \in {stopped, closed} /\ t.proto_state \in Active
        BY Zenon DEF PostSpeechConfigResp, StreamStarted, StreamStopped,
            a, i, timed, started, stopped, closed
    <2> HIDE DEF post
    <2>8. post \in LibStates
        BY <2>1, <2>2, <2>3, <2>4, <2>5, <2>6, <2>7
    <2>9. Keeps(post, t, F)
        <3>1. CASE post = a
            BY <2>1, <3>1, KeepsChain
        <3>2. CASE post = i
            BY <2>1, <2>2, <3>2 DEF Keeps, Agrees, Recorded, Engaged, Enabled,
                                    Active, LineFollowsUsers, Same
        <3>3. CASE /\ post \in {timed, started}
                   /\ t.proto_state \in {"CONNECTED", "ACTIVE_DLUL"}
            BY <2>1, <2>4, <2>5, <3>3
               DEF Keeps, Agrees, Recorded, Engaged, Enabled, Active,
                   LineFollowsUsers, Same
        <3>4. CASE post \in {stopped, closed} /\ t.proto_state \in Active
            BY <2>1, <2>3, <2>6, <3>4
               DEF Keeps, Agrees, Recorded, Engaged, Enabled, Active,
                   LineFollowsUsers, Same
        <3> QED
            BY <2>7, <3>1, <3>2, <3>3, <3>4
    <2> QED
        BY <2>8, <2>9 DEF post
<1>3. ASSUME NEW t \in LibStates, NEW ok \in BOOLEAN
      PROVE  /\ WriteSpeechConfigResp(t, ok, F) \in LibStates
             /\ Keeps(WriteSpeechConfigResp(t, ok, F), t, F)
    <2> DEFINE m == [type |-> "SPEECH_CONFIG_RESP", on |-> ok, version |-> 0]
               w == [t EXCEPT !.sent = Append(t.sent, m)]
               f == [t EXCEPT !.io_errors = TRUE]
               p == PostSpeechConfigResp(w, ok, F)
               q == [p EXCEPT !.io_errors = FALSE]
    <2>1. /\ w \in LibStates /\ f \in LibStates
        <3>1. Append(t.sent, m) \in Seq(OutMsgs)
            BY Fields, Messages
        <3> QED
            BY <3>1, Zenon DEF LibStates
    <2>2. Same(w, t) /\ Same(f, t)
        BY DEF Same, LibStates
    <2> HIDE DEF w, f
    <2>3. p \in LibStates /\ Keeps(p, w, F)
        BY <1>2, <2>1
    <2> HIDE DEF p
    <2>4. q \in LibStates
        BY <2>3, Zenon DEF LibStates
    <2>5. Same(q, p)
        BY <2>3 DEF Same, LibStates
    <2> HIDE DEF q
    <2>6. Keeps(q, t, F) /\ Keeps(f, t, F)
        BY <2>2, <2>3, <2>5, KeepsChain
    <2>7. WriteSpeechConfigResp(t, ok, F) \in {f, q}
        BY Zenon DEF WriteSpeechConfigResp, f, q, p, w
    <2> QED
        BY <2>1, <2>4, <2>6, <2>7
<1>4. ASSUME NEW t \in LibStates
      PROVE  /\ priv_setup_and_send_speech_config_reply(t, F) \in LibStates
             /\ Keeps(priv_setup_and_send_speech_config_reply(t, F), t, F)
    <2> DEFINE ok == "CS_CONFIG_BUFS" \notin F
               b == [t EXCEPT !.speech_config_resp_pend = FALSE]
               c == priv_setup_driver_bufconfig(b, F)
               w == WriteSpeechConfigResp(c, ok, F)
               v == priv_invalidate_buffer_slots(w)
               z == priv_send_reset(v, F)
    <2>1. b \in LibStates
        BY Zenon DEF LibStates
    <2>2. Same(b, t)
        BY DEF Same, LibStates
    <2> HIDE DEF b
    <2>3. c \in LibStates /\ Same(c, b)
        BY <2>1, BuffersTyped, Frames
    <2> HIDE DEF c
    <2>4. w \in LibStates /\ Keeps(w, c, F)
        BY <1>3, <2>3
    <2> HIDE DEF w
    <2>5. v \in LibStates /\ Same(v, w)
        BY <2>4, BuffersTyped, Frames
    <2> HIDE DEF v
    <2>6. z \in LibStates /\ Keeps(z, v, F)
        BY <2>5, SendResetTyped, SendResetKeeps
    <2> HIDE DEF z
    <2>7. Keeps(w, t, F) /\ Keeps(z, t, F)
        <3>1. Keeps(c, t, F)
            BY <2>2, <2>3, KeepsChain
        <3>2. Keeps(w, t, F)
            BY <2>4, <3>1, KeepsChain
        <3> QED
            BY <2>5, <2>6, <3>2, KeepsChain
    <2>8. priv_setup_and_send_speech_config_reply(t, F) \in {w, z}
        BY Zenon DEF priv_setup_and_send_speech_config_reply, w, z, v, c, b
    <2> QED
        BY <2>4, <2>6, <2>7, <2>8
<1>5. Keeps(LayoutChangeReleased(s, F), s, F)
    <2> DEFINE r == priv_setup_and_send_speech_config_reply(s, F)
               v == priv_invalidate_buffer_slots(r)
    <2>1. r \in LibStates /\ Keeps(r, s, F)
        BY <1>4
    <2> HIDE DEF r
    <2>2. Keeps(v, r, F)
        BY <2>1, Frames, KeepsChain
    <2> HIDE DEF v
    <2>3. LayoutChangeReleased(s, F) \in {s, r, v}
        BY Zenon DEF LayoutChangeReleased, r, v
    <2> QED
        BY <2>1, <2>2, <2>3, KeepsChain
<1>6. ASSUME NEW stream \in BOOLEAN, NEW rate \in Rates
      PROVE  Keeps(priv_handle_speech_config(s, stream, rate, F), s, F)
    <2> DEFINE size == IF stream THEN SlotSize(rate) ELSE 0
               c == [s EXCEPT !.slot_size = size]
               q == [c EXCEPT !.speech_config_resp_pend = TRUE]
               v == priv_invalidate_buffer_slots(q)
    <2>1. size \in Nat
        BY DEF SlotSize, Rates
    <2> HIDE DEF size
    <2>2. c \in LibStates /\ Same(c, s)
        BY <2>1, BuffersTyped, Frames
    <2> HIDE DEF c
    <2>3. q \in LibStates
        BY <2>2, Zenon DEF LibStates
    <2>4. Same(q, c)
        BY <2>2 DEF Same, LibStates
    <2> HIDE DEF q
    <2>5. Same(v, q)
        BY <2>3, Frames
    <2> HIDE DEF v
    <2>6. Keeps(v, s, F)
        BY <2>2, <2>4, <2>5, KeepsChain
    <2>7. Keeps(priv_setup_and_send_speech_config_reply(c, F), s, F)
        BY <1>4, <2>2, KeepsChain
    <2> QED
        BY <2>6, <2>7, Zenon
           DEF priv_handle_speech_config, size, c, q, v
<1> QED
    BY <1>5, <1>6

\* The answer to SSI_CONFIG_REQ.  Its two halves, cmtspeech_bc_handle_command
\* and priv_handle_ssi_config_resp, keep the wakeline only together: the
\* state in between is the one the line is released by.
LEMMA SsiConfigKeeps ==
    ASSUME NEW s \in LibStates, NEW F, NEW ok \in BOOLEAN,
           NEW layout \in SampleLayouts
    PROVE  LET a == SsiConfigAnswered(s, ok, layout, F)
           IN  Keeps(priv_handle_ssi_config_resp(a, F), s, F)
<1>1. /\ "IN_SYNC" \in Privs /\ "CONNECTING" \in Privs
      /\ "DISCONNECTING" \in Privs
      /\ "CONNECTED" \in Protos /\ "DISCONNECTED" \in Protos
      /\ "CALL" \in WakelineUsers
    BY DEF Privs, Protos, WakelineUsers
<1>2. ASSUME NEW t \in LibStates, NEW proto \in Protos, NEW priv \in Privs
      PROVE  LET c == StateChangeTo(t, proto, priv)
             IN  /\ c \in LibStates
                 /\ c.proto_state = proto /\ c.priv_state = priv
                 /\ c.wakeline_users = t.wakeline_users /\ c.line = t.line
    <2>1. StateChangeTo(t, proto, priv) \in LibStates
        BY ProtocolTyped
    <2> QED
        BY <2>1, Changes
<1> DEFINE i == PrivChangeTo(s, "IN_SYNC")
           pending == s.priv_state \in {"CONNECTING", "DISCONNECTING"}
           r == priv_send_reset(IF pending THEN i ELSE s, F)
           c == StateChangeTo(s, "CONNECTED", "IN_SYNC")
           l == [c EXCEPT !.sample_layout =
                    IF layout = "no_pref" THEN "swapped" ELSE layout]
           d == priv_reset_state_to_disconnected(s)
           on == cmtspeech_send_ssi_config_request(s, TRUE, F)
           up == StateChangeTo(on, "DISCONNECTED", "CONNECTING")
           off == cmtspeech_send_ssi_config_request(s, FALSE, F)
           down == StateChangeTo(off, "CONNECTED", "DISCONNECTING")
           a == SsiConfigAnswered(s, ok, layout, F)
\* What each case of the first half leaves.
<1>3. /\ r \in LibStates /\ Keeps(r, s, F)
      /\ Dependable(F) => r.proto_state = "INVALID"
      /\ r.priv_state \notin {"CONNECTING", "DISCONNECTING"}
      /\ r.proto_state \in {"INVALID", s.proto_state}
    <2> DEFINE t == IF pending THEN i ELSE s
    <2>1. i \in LibStates
        BY <1>1, ProtocolTyped
    <2>2. /\ i.proto_state = s.proto_state /\ i.priv_state = "IN_SYNC"
          /\ i.wakeline_users = s.wakeline_users /\ i.line = s.line
        <3>1. s.proto_state \in Protos /\ "IN_SYNC" \in Privs
            BY <1>1, Fields
        <3> QED
            BY <3>1, Changes
    <2> HIDE DEF i
    <2>3. /\ t \in LibStates /\ t.proto_state = s.proto_state
          /\ t.priv_state \notin {"CONNECTING", "DISCONNECTING"}
          /\ Keeps(t, s, F)
        BY <2>1, <2>2, KeepsChain
           DEF Keeps, Agrees, Recorded, Engaged, Enabled, Active,
               LineFollowsUsers
    <2> HIDE DEF t
    <2>4. /\ priv_send_reset(t, F) \in LibStates
          /\ Keeps(priv_send_reset(t, F), t, F)
        BY <2>3, SendResetTyped, SendResetKeeps
    <2>5. LET z == priv_send_reset(t, F)
          IN  \/ z.proto_state = "INVALID" /\ z.priv_state = "IN_SYNC"
              \/ /\ z.proto_state = t.proto_state /\ z.priv_state = t.priv_state
                 /\ ~Dependable(F)
        BY <2>3, ResetRequest
    <2>6. Keeps(priv_send_reset(t, F), s, F)
        BY <2>3, <2>4, KeepsChain
    <2>7. r = priv_send_reset(t, F)
        BY DEF t
    <2> HIDE DEF r
    <2> QED
        BY <2>3, <2>4, <2>5, <2>6, <2>7
<1>4. /\ l \in LibStates
      /\ l.proto_state = "CONNECTED" /\ l.priv_state = "IN_SYNC"
      /\ l.wakeline_users = s.wakeline_users /\ l.line = s.line
    <2>1. /\ c \in LibStates
          /\ c.proto_state = "CONNECTED" /\ c.priv_state = "IN_SYNC"
          /\ c.wakeline_users = s.wakeline_users /\ c.line = s.line
        BY <1>1, <1>2
    <2> HIDE DEF c
    <2>2. (IF layout = "no_pref" THEN "swapped" ELSE layout)
                \in {"inorder", "swapped", "none"}
        BY DEF SampleLayouts
    <2>3. l \in LibStates
        BY <2>1, <2>2, Zenon DEF LibStates
    <2>4. Same(l, c)
        BY <2>1 DEF Same, LibStates
    <2> QED
        BY <2>1, <2>3, <2>4 DEF Same
<1>5. /\ d \in LibStates
      /\ d.proto_state = "DISCONNECTED" /\ d.priv_state = "IN_SYNC"
      /\ d.wakeline_users = s.wakeline_users /\ d.line = s.line
    <2>1. d \in LibStates
        BY ProtocolTyped
    <2> QED
        BY <1>1, <2>1, Changes
<1>6. /\ up \in LibStates
      /\ up.proto_state = "DISCONNECTED" /\ up.priv_state = "CONNECTING"
      /\ up.wakeline_users = s.wakeline_users \cup {"CALL"}
      /\ Dependable(F) /\ LineFollowsUsers(s) => LineFollowsUsers(up)
    <2>1. on \in LibStates
        BY RequestsTyped
    <2>2. /\ on.wakeline_users = s.wakeline_users \cup {"CALL"}
          /\ Dependable(F) /\ LineFollowsUsers(s) => LineFollowsUsers(on)
        BY RequestEffects
    <2> HIDE DEF on
    <2>3. /\ up \in LibStates
          /\ up.proto_state = "DISCONNECTED" /\ up.priv_state = "CONNECTING"
          /\ up.wakeline_users = on.wakeline_users /\ up.line = on.line
        BY <1>1, <1>2, <2>1
    <2> HIDE DEF up
    <2> QED
        BY <2>2, <2>3 DEF LineFollowsUsers
<1>7. /\ down \in LibStates
      /\ down.proto_state = "CONNECTED" /\ down.priv_state = "DISCONNECTING"
      /\ down.wakeline_users = s.wakeline_users /\ down.line = s.line
    <2>1. off \in LibStates
        BY RequestsTyped
    <2>2. off.wakeline_users = s.wakeline_users /\ off.line = s.line
        BY RequestEffects
    <2> HIDE DEF off
    <2>3. /\ down \in LibStates
          /\ down.proto_state = "CONNECTED" /\ down.priv_state = "DISCONNECTING"
          /\ down.wakeline_users = off.wakeline_users /\ down.line = off.line
        BY <1>1, <1>2, <2>1
    <2> HIDE DEF down
    <2> QED
        BY <2>2, <2>3
<1>8. \/ a = r
      \/ a = l /\ s.priv_state = "CONNECTING"
      \/ a = d /\ s.priv_state = "DISCONNECTING"
      \/ a \in {up, down} /\ s.priv_state = "SSI_CONFIG_PEND"
      \/ a = s /\ s.priv_state \notin {"CONNECTING", "DISCONNECTING",
                                      "SSI_CONFIG_PEND"}
    <2> HIDE DEF i, r, l, d, up, down, pending
    <2> QED
        BY DEF SsiConfigAnswered, a, i, r, c, l, d, on, up, off, down, pending
<1> HIDE DEF i, r, c, l, d, on, up, off, down, a, pending
\* The second half releases the line only when nothing is engaged any more.
<1>9. /\ a \in LibStates
      /\ \/ Keeps(a, s, F)
         \/ a = d
    BY <1>3, <1>4, <1>5, <1>6, <1>7, <1>8, KeepsChain
       DEF Keeps, Agrees, Recorded, Engaged, Enabled, Active, LineFollowsUsers
<1>10. Keeps(a, s, F)
    BY <1>5, <1>8, <1>9
       DEF Keeps, Agrees, Recorded, Engaged, Enabled, Active, LineFollowsUsers
<1>11. Agrees(s) /\ a.proto_state = "DISCONNECTED" /\ a.priv_state # "CONNECTING"
        => ~Engaged(a) \/ ~Dependable(F)
    BY <1>3, <1>4, <1>5, <1>6, <1>7, <1>8
       DEF Agrees, Engaged, Enabled, Active
<1>12. Keeps(priv_handle_ssi_config_resp(a, F), a, F) \/ ~Agrees(s)
    <2> DEFINE z == priv_release_wakeline(a, "CALL", F)
               u == priv_update_dl_buffer_descriptors(a)
    <2>1. ASSUME NEW t \in LibStates
          PROVE  LET q == priv_release_wakeline(t, "CALL", F)
                 IN  /\ q.proto_state = t.proto_state
                     /\ q.priv_state = t.priv_state
                     /\ q.wakeline_users = t.wakeline_users \ {"CALL"}
                     /\ Dependable(F) /\ LineFollowsUsers(t)
                            => LineFollowsUsers(q)
        BY <1>1, WakelineFollows
    <2>2. /\ z.proto_state = a.proto_state /\ z.priv_state = a.priv_state
          /\ z.wakeline_users = a.wakeline_users \ {"CALL"}
          /\ Dependable(F) /\ LineFollowsUsers(a) => LineFollowsUsers(z)
        BY <1>9, <2>1
    <2>3. Same(u, a)
        BY <1>9, Frames
    <2> HIDE DEF z, u
    <2>4. priv_handle_ssi_config_resp(a, F) \in {a, u}
          \/ /\ priv_handle_ssi_config_resp(a, F) = z
             /\ a.proto_state = "DISCONNECTED" /\ a.priv_state # "CONNECTING"
        BY Zenon DEF priv_handle_ssi_config_resp, z, u
    <2>5. CASE priv_handle_ssi_config_resp(a, F) \in {a, u}
        BY <2>3, <2>5, KeepsChain
    <2>6. CASE /\ priv_handle_ssi_config_resp(a, F) = z
               /\ a.proto_state = "DISCONNECTED" /\ a.priv_state # "CONNECTING"
        <3>1. Agrees(s) => Keeps(z, a, F)
            BY <1>11, <2>2, <2>6 DEF Keeps, Agrees, Recorded, Engaged
        <3> QED
            BY <2>6, <3>1
    <2> QED
        BY <2>4, <2>5, <2>6
<1>13. ASSUME Agrees(s)
       PROVE  Keeps(priv_handle_ssi_config_resp(a, F), s, F)
    BY <1>10, <1>12, <1>13, KeepsChain
<1> QED
    BY <1>13 DEF Keeps, a

\* The state after a reset of either side.
LEMMA PeerResetKeeps ==
    ASSUME NEW s \in LibStates, NEW t \in LibStates, NEW F
    PROVE  Keeps(priv_initialize_after_peer_reset(t, F), s, F)
<1> DEFINE z == [t EXCEPT !.slot_size = 0]
           b == priv_setup_driver_bufconfig(z, F)
           d == priv_reset_state_to_disconnected(b)
           w == priv_reset_wakeline_state(d, F)
<1>1. z \in LibStates
    BY BuffersTyped
<1> HIDE DEF z
<1>2. b \in LibStates
    BY <1>1, BuffersTyped
<1> HIDE DEF b
<1>3. d \in LibStates
    BY <1>2, ProtocolTyped
<1>4. d.proto_state = "DISCONNECTED" /\ d.priv_state = "IN_SYNC"
    BY <1>2, Changes DEF Protos, Privs
<1> HIDE DEF d
<1>5. /\ w.proto_state = d.proto_state /\ w.priv_state = d.priv_state
      /\ w.wakeline_users = {}
      /\ Dependable(F) => LineFollowsUsers(w)
    BY <1>3, WakelineFollows
<1>6. priv_initialize_after_peer_reset(t, F) = w
    BY DEF priv_initialize_after_peer_reset, w, d, b, z
<1> HIDE DEF w
<1> QED
    BY <1>4, <1>5, <1>6 DEF Keeps, Agrees, Recorded, Engaged, Enabled, Active

\* Filling the event touches neither states, users nor buffers.
LEMMA ReportedFrame ==
    ASSUME NEW b, NEW s \in LibStates, NEW type
    PROVE  Same(Reported(b, s, type), s)
    BY DEF Same, Reported, LibStates

\* The handlers of the modem's messages and the driver's reports.
LEMMA HandlersKeep ==
    ASSUME NEW s \in LibStates, NEW F
    PROVE  /\ \A stream \in BOOLEAN, rate \in Rates :
                    Keeps(HandleSpeechConfigReq(s, stream, rate, F), s, F)
           /\ Keeps(HandleUplinkConfigNtf(s), s, F)
           /\ Keeps(HandleTimingConfigNtf(s), s, F)
           /\ \A ok \in BOOLEAN, layout \in SampleLayouts :
                    Keeps(HandleSsiConfigResp(s, ok, layout, F), s, F)
           /\ Keeps(HandleResetConnReq(s, F), s, F)
           /\ Keeps(HandleResetConnResp(s, F), s, F)
           /\ Keeps(HandleDriverError(s, F), s, F)
           /\ \A len \in Nat : Keeps(HandleTestRampPing(s, len, F), s, F)
           /\ Keeps(HandleRxData(s), s, F)
<1> DEFINE e == Entered(s)
<1>1. e \in LibStates /\ Same(e, s)
    BY ProtocolTyped, Frames
<1>2. /\ {"speech_config_req", "uplink_config_ntf", "timing_config_ntf",
          "ssi_config_resp", "reset_conn_req", "reset_conn_resp",
          "test_ramp_ping", "ping_acquire_wakeline"} \subseteq Assertions
      /\ {"IN_SYNC", "CONFIG_ACT_PEND", "CONFIG_DEACT_PEND"} \subseteq Privs
      /\ "ACTIVE_DLUL" \in Protos
      /\ {"RESET", "TEST_RAMP_PING"} \subseteq WakelineUsers
      /\ {"RESET_CONN_RESP", "TX_DATA_READY"} \subseteq OutTypes
    BY DEF Assertions, Privs, Protos, WakelineUsers, OutTypes
<1> HIDE DEF e
\* A handler starts with an assertion about the state before the message.
<1>3. ASSUME NEW name \in Assertions, NEW holds
      PROVE  /\ Assert(e, name, holds) \in LibStates
             /\ Same(Assert(e, name, holds), s)
    BY <1>1, AssertTyped, AssertFrame DEF Same
<1>4. ASSUME NEW t \in LibStates, NEW type, Keeps(t, s, F)
      PROVE  Keeps(Reported(s, t, type), s, F)
    BY <1>4, ReportedFrame, KeepsChain
<1>5. ASSUME NEW t \in LibStates
      PROVE  UplinkStarted(t) \in LibStates /\ Keeps(UplinkStarted(t), t, F)
    <2> DEFINE c == StateChangeTo(t, "ACTIVE_DLUL", "IN_SYNC")
    <2>1. c \in LibStates
        BY <1>2, ProtocolTyped
    <2>2. /\ c.proto_state = "ACTIVE_DLUL" /\ c.priv_state = "IN_SYNC"
          /\ c.wakeline_users = t.wakeline_users /\ c.line = t.line
        BY <1>2, Changes
    <2> HIDE DEF c
    <2>3. t.proto_state = "ACTIVE_DL" => Keeps(c, t, F)
        BY <2>2 DEF Keeps, Agrees, Recorded, Engaged, Enabled, Active,
                    LineFollowsUsers
    <2> QED
        BY <2>1, <2>3, KeepsChain DEF UplinkStarted, c
<1>6. ASSUME NEW t \in LibStates, NEW priv \in {"IN_SYNC", "CONFIG_ACT_PEND",
                                              "CONFIG_DEACT_PEND"}
      PROVE  PrivChangeTo(t, priv) \in LibStates
             /\ Keeps(PrivChangeTo(t, priv), t, F)
    <2>1. PrivChangeTo(t, priv) \in LibStates
        BY <1>2, ProtocolTyped
    <2>2. LET p == PrivChangeTo(t, priv)
          IN  /\ p.proto_state = t.proto_state /\ p.priv_state = priv
              /\ p.wakeline_users = t.wakeline_users /\ p.line = t.line
        <3>1. t.proto_state \in Protos /\ priv \in Privs
            BY <1>2, Fields
        <3> QED
            BY <3>1, Changes
    <2>3. Keeps(PrivChangeTo(t, priv), t, F)
        BY <2>2 DEF Keeps, Agrees, Recorded, Engaged, LineFollowsUsers
    <2> QED
        BY <2>1, <2>3
<1>7. ASSUME NEW stream \in BOOLEAN, NEW rate \in Rates
      PROVE  Keeps(HandleSpeechConfigReq(s, stream, rate, F), s, F)
    <2> DEFINE a == Assert(e, "speech_config_req", s.proto_state \in Enabled)
               p == PrivChangeTo(a, IF stream THEN "CONFIG_ACT_PEND"
                                    ELSE "CONFIG_DEACT_PEND")
               h == priv_handle_speech_config(p, stream, rate, F)
    <2>1. a \in LibStates /\ Keeps(a, s, F)
        BY <1>2, <1>3, KeepsChain
    <2> HIDE DEF a
    <2>2. p \in LibStates /\ Keeps(p, a, F)
        BY <1>6, <2>1
    <2> HIDE DEF p
    <2>3. h \in LibStates /\ Keeps(h, p, F)
        BY <2>2, SpeechConfigTyped, SpeechConfigKeeps
    <2> HIDE DEF h
    <2>4. Keeps(h, s, F)
        BY <2>1, <2>2, <2>3, KeepsChain
    <2>5. Keeps(Reported(s, h, "SPEECH_CONFIG_REQ"), s, F)
        BY <1>4, <2>3, <2>4
    <2> QED
        BY <2>5 DEF HandleSpeechConfigReq, e, a, p, h
<1>8. Keeps(HandleUplinkConfigNtf(s), s, F)
    <2> DEFINE a == Assert(e, "uplink_config_ntf", s.proto_state = "ACTIVE_DL")
               u == UplinkStarted(a)
    <2>1. a \in LibStates /\ Keeps(a, s, F)
        BY <1>2, <1>3, KeepsChain
    <2> HIDE DEF a
    <2>2. u \in LibStates /\ Keeps(u, s, F)
        BY <1>5, <2>1, KeepsChain
    <2> HIDE DEF u
    <2>3. Keeps(Reported(s, u, "UPLINK_CONFIG_NTF"), s, F)
        BY <1>4, <2>2
    <2> QED
        BY <2>3 DEF HandleUplinkConfigNtf, e, a, u
<1>9. Keeps(HandleTimingConfigNtf(s), s, F)
    <2> DEFINE a == Assert(e, "timing_config_ntf", s.proto_state \in Active)
               u == UplinkStarted(a)
               t == IF u.priv_state = "TIMING" THEN PrivChangeTo(u, "IN_SYNC")
                    ELSE u
    <2>1. a \in LibStates /\ Keeps(a, s, F)
        BY <1>2, <1>3, KeepsChain
    <2> HIDE DEF a
    <2>2. u \in LibStates /\ Keeps(u, s, F)
        BY <1>5, <2>1, KeepsChain
    <2> HIDE DEF u
    <2>3. t \in LibStates /\ Keeps(t, s, F)
        BY <1>6, <2>2, KeepsChain
    <2> HIDE DEF t
    <2>4. Keeps(Reported(s, t, "TIMING_CONFIG_NTF"), s, F)
        BY <1>4, <2>3
    <2> QED
        BY <2>4 DEF HandleTimingConfigNtf, e, a, u, t
<1>10. ASSUME NEW ok \in BOOLEAN, NEW layout \in SampleLayouts
       PROVE  Keeps(HandleSsiConfigResp(s, ok, layout, F), s, F)
    <2> DEFINE a == Assert(e, "ssi_config_resp",
                           s.proto_state \in {"CONNECTED", "DISCONNECTED"})
               c == SsiConfigAnswered(a, ok, layout, F)
               h == priv_handle_ssi_config_resp(c, F)
    <2>1. a \in LibStates /\ Keeps(a, s, F)
        BY <1>2, <1>3, KeepsChain
    <2> HIDE DEF a
    <2>2. c \in LibStates
        BY <2>1, SsiConfigTyped
    <2>3. Keeps(h, a, F)
        BY <2>1, SsiConfigKeeps
    <2> HIDE DEF c
    <2>4. h \in LibStates
        BY <2>2, SsiConfigTyped
    <2> HIDE DEF h
    <2>5. Keeps(Reported(s, h, "SSI_CONFIG_RESP"), s, F)
        BY <1>4, <2>1, <2>3, <2>4, KeepsChain
    <2> QED
        BY <2>5 DEF HandleSsiConfigResp, e, a, c, h
<1>11. ASSUME NEW t \in LibStates
       PROVE  /\ priv_initialize_after_peer_reset(t, F) \in LibStates
              /\ Keeps(priv_initialize_after_peer_reset(t, F), s, F)
    <2> DEFINE z == [t EXCEPT !.slot_size = 0]
               b == priv_setup_driver_bufconfig(z, F)
               d == priv_reset_state_to_disconnected(b)
    <2>1. z \in LibStates
        BY BuffersTyped
    <2> HIDE DEF z
    <2>2. b \in LibStates
        BY <2>1, BuffersTyped
    <2> HIDE DEF b
    <2>3. d \in LibStates
        BY <2>2, ProtocolTyped
    <2> HIDE DEF d
    <2>4. priv_reset_wakeline_state(d, F) \in LibStates
        BY <2>3, WakelineTyped
    <2> QED
        BY <2>4, PeerResetKeeps DEF priv_initialize_after_peer_reset, z, b, d
<1>12. Keeps(HandleResetConnReq(s, F), s, F)
    <2> DEFINE a == Assert(e, "reset_conn_req", s.proto_state # "DISCONNECTED")
               w == Write(priv_reset_state_to_disconnected(a),
                          OutMsg("RESET_CONN_RESP"), F)
               h == priv_initialize_after_peer_reset(w, F)
    <2>1. a \in LibStates
        BY <1>2, <1>3
    <2> HIDE DEF a
    <2>2. w \in LibStates
        <3>1. priv_reset_state_to_disconnected(a) \in LibStates
            BY <2>1, ProtocolTyped
        <3> QED
            BY <1>2, <3>1, Messages, ProtocolTyped
    <2> HIDE DEF w
    <2>3. h \in LibStates /\ Keeps(h, s, F)
        BY <1>11, <2>2
    <2> HIDE DEF h
    <2>4. Keeps(Reported(s, h, "EVENT_RESET"), s, F)
        BY <1>4, <2>3
    <2> QED
        BY <2>4 DEF HandleResetConnReq, e, a, w, h
<1>13. Keeps(HandleResetConnResp(s, F), s, F)
    <2> DEFINE a == Assert(e, "reset_conn_resp", s.proto_state # "DISCONNECTED")
               d == priv_reset_state_to_disconnected(a)
               on == cmtspeech_send_ssi_config_request(d, TRUE, F)
               c == IF s.priv_state = "RESET_BEFORE_CONNECT" THEN on ELSE d
               z == priv_release_wakeline(c, "RESET", F)
    <2>1. a \in LibStates /\ Same(a, s)
        BY <1>2, <1>3
    <2> HIDE DEF a
    <2>2. d \in LibStates
        BY <2>1, ProtocolTyped
    <2>3. /\ d.proto_state = "DISCONNECTED" /\ d.priv_state = "IN_SYNC"
          /\ d.wakeline_users = a.wakeline_users /\ d.line = a.line
        BY <2>1, Changes DEF Protos, Privs
    <2> HIDE DEF d
    <2>4. on \in LibStates
        BY <2>2, RequestsTyped
    <2>5. /\ on.proto_state = d.proto_state
          /\ on.priv_state \in {"CONNECTING", "IN_SYNC"}
          /\ on.wakeline_users = d.wakeline_users \cup {"CALL"}
          /\ Dependable(F) /\ LineFollowsUsers(d) => LineFollowsUsers(on)
        BY <2>2, RequestEffects
    <2> HIDE DEF on
    <2>6. /\ c \in LibStates /\ c.proto_state = "DISCONNECTED"
          /\ \/ c.priv_state = "IN_SYNC"
             \/ c.priv_state = "CONNECTING" /\ "CALL" \in c.wakeline_users
          /\ Dependable(F) /\ LineFollowsUsers(s) => LineFollowsUsers(c)
        BY <2>1, <2>2, <2>3, <2>4, <2>5 DEF LineFollowsUsers, Same
    <2> HIDE DEF c
    <2>7. z \in LibStates
        BY <1>2, <2>6, WakelineTyped
    <2>8. ASSUME NEW t \in LibStates
          PROVE  LET q == priv_release_wakeline(t, "RESET", F)
                 IN  /\ q.proto_state = t.proto_state
                     /\ q.priv_state = t.priv_state
                     /\ q.wakeline_users = t.wakeline_users \ {"RESET"}
                     /\ Dependable(F) /\ LineFollowsUsers(t)
                            => LineFollowsUsers(q)
        BY SMTT(30), <1>2, WakelineFollows
    <2>9. /\ z.proto_state = c.proto_state /\ z.priv_state = c.priv_state
          /\ z.wakeline_users = c.wakeline_users \ {"RESET"}
          /\ Dependable(F) /\ LineFollowsUsers(c) => LineFollowsUsers(z)
        BY <2>6, <2>8
    <2> HIDE DEF z
    <2>10. Keeps(z, s, F)
        BY <2>6, <2>9 DEF Keeps, Agrees, Recorded, Engaged, Enabled, Active
    <2>11. Keeps(Reported(s, z, "EVENT_RESET"), s, F)
        BY <1>4, <2>7, <2>10
    <2> QED
        BY <2>11 DEF HandleResetConnResp, e, a, d, on, c, z
<1>14. Keeps(HandleDriverError(s, F), s, F)
    BY <1>1, <1>4, <1>11 DEF HandleDriverError, e
<1>15. ASSUME NEW len \in Nat PROVE Keeps(HandleTestRampPing(s, len, F), s, F)
    <2> DEFINE a == Assert(e, "test_ramp_ping", s.proto_state = "DISCONNECTED")
               q == priv_acquire_wakeline(a, "TEST_RAMP_PING", F)
               w == Assert(q, "ping_acquire_wakeline", WakelineUp(s, F))
               b == [w EXCEPT !.slot_size = RampSlot(len)]
               c == RampConfigured(w, len, F)
    <2>1. a \in LibStates /\ Same(a, s)
        BY <1>2, <1>3
    <2> HIDE DEF a
    <2>2. q \in LibStates
        BY <1>2, <2>1, WakelineTyped
    <2>3. Keeps(q, a, F)
        <3>1. /\ q.proto_state = a.proto_state /\ q.priv_state = a.priv_state
              /\ q.wakeline_users = a.wakeline_users \cup {"TEST_RAMP_PING"}
              /\ Dependable(F) /\ LineFollowsUsers(a) => LineFollowsUsers(q)
            BY <1>2, <2>1, WakelineFollows
        <3> HIDE DEF q
        <3> QED
            BY <3>1 DEF Keeps, Agrees, Recorded, Engaged
    <2> HIDE DEF q
    <2>4. w \in LibStates /\ Same(w, q)
        BY <1>2, <2>2, AssertTyped, AssertFrame
    <2> HIDE DEF w
    <2>5. RampSlot(len) \in Nat
        BY DEF RampSlot
    <2>6. b \in LibStates /\ Same(b, w)
        BY <2>4, <2>5, BuffersTyped, Frames
    <2> HIDE DEF b
    <2>7. /\ priv_setup_driver_bufconfig(b, F) \in LibStates
          /\ Same(priv_setup_driver_bufconfig(b, F), b)
        BY <2>6, BuffersTyped, Frames
    <2>8. c \in LibStates /\ Same(c, w)
        BY <2>4, <2>6, <2>7 DEF RampConfigured, b, Same
    <2> HIDE DEF c
    <2>9. Same(Write(c, OutMsg("TX_DATA_READY"), F), c)
        BY <1>2, <2>8, Messages, Frames
    <2>10. /\ Keeps(c, s, F)
           /\ Keeps(Write(c, OutMsg("TX_DATA_READY"), F), s, F)
        <3>1. Keeps(c, s, F)
            BY <2>1, <2>3, <2>4, <2>8, KeepsChain
        <3> QED
            BY <2>9, <3>1, KeepsChain
    <2> QED
        BY <2>10 DEF HandleTestRampPing, e, a, q, w, c
<1>16. Keeps(HandleRxData(s), s, F)
    <2>1. Same(HandleRxData(s), e)
        BY <1>1 DEF Same, HandleRxData, LibStates, e
    <2> QED
        BY <1>1, <2>1, KeepsChain
<1> QED
    BY <1>7, <1>8, <1>9, <1>10, <1>12, <1>13, <1>14, <1>15, <1>16

\* The calls of the application.
LEMMA CallsKeep ==
    ASSUME NEW s \in LibStates, NEW F
    PROVE  /\ \A on \in BOOLEAN :
                Keeps(cmtspeech_state_change_call_status(s, on, F), s, F)
           /\ Keeps(cmtspeech_state_change_error(s, F), s, F)
           /\ \A version \in {1, 2} :
                Keeps(cmtspeech_set_wb_preference(s, version), s, F)
           /\ s.proto_state \in Active =>
                Keeps(cmtspeech_send_timing_request(s, F), s, F)
           /\ \A len \in Nat :
                Keeps(cmtspeech_test_data_ramp_req(s, len, F), s, F)
           /\ \A i \in ULSlots :
                /\ Keeps(cmtspeech_ul_buffer_acquire(s, i), s, F)
                /\ Keeps(cmtspeech_ul_buffer_release(s, i, F), s, F)
           /\ \A i \in DLSlots :
                /\ Keeps(cmtspeech_dl_buffer_acquire(s, i), s, F)
                /\ Keeps(cmtspeech_dl_buffer_release(s, i, F), s, F)
<1> DEFINE e == Entered(s)
<1>1. e \in LibStates /\ Same(e, s)
    BY ProtocolTyped, Frames
<1>2. /\ {"state_change_call_status", "test_data_ramp_req", "ul_buffer_release",
          "dl_buffer_acquire", "dl_buffer_release", "layout_change_released"}
            \subseteq Assertions
      /\ {"IN_SYNC", "SSI_CONFIG_PEND", "RESET_BEFORE_CONNECT"} \subseteq Privs
      /\ {"DISCONNECTED", "TEST_RAMP_PING_ACTIVE"} \subseteq Protos
      /\ "TEST_RAMP_PING" \in WakelineUsers /\ "TEST_RAMP_PING" \in OutTypes
    BY DEF Assertions, Privs, Protos, WakelineUsers, OutTypes
<1> HIDE DEF e
<1>3. ASSUME NEW t \in LibStates, NEW priv \in {"SSI_CONFIG_PEND",
                                              "RESET_BEFORE_CONNECT"}
      PROVE  LET p == PrivChangeTo(t, priv)
             IN  /\ p \in LibStates
                 /\ p.proto_state = t.proto_state /\ p.priv_state = priv
                 /\ p.wakeline_users = t.wakeline_users /\ p.line = t.line
    <2>1. t.proto_state \in Protos /\ priv \in Privs
        BY <1>2, Fields
    <2>2. PrivChangeTo(t, priv) \in LibStates
        BY <2>1, ProtocolTyped
    <2> QED
        BY <2>1, <2>2, Changes
<1>4. Keeps(CallInactive(e, F), e, F)
    <2> DEFINE a == Assert(e, "state_change_call_status",
                           e.proto_state = "CONNECTED")
               f == [a EXCEPT !.io_errors = TRUE]
               off == cmtspeech_send_ssi_config_request(e, FALSE, F)
               p == PrivChangeTo(e, "SSI_CONFIG_PEND")
               c == CallInactive(e, F)
    <2>1. a \in LibStates /\ Same(a, e)
        BY <1>1, <1>2, AssertTyped, AssertFrame
    <2> HIDE DEF a
    <2>2. Same(f, a)
        BY <2>1 DEF Same, LibStates
    <2> HIDE DEF f
    <2>3. /\ off.proto_state = e.proto_state
          /\ off.priv_state \in {"DISCONNECTING", "IN_SYNC"}
          /\ off.wakeline_users = e.wakeline_users /\ off.line = e.line
        BY <1>1, RequestEffects
    <2>4. /\ p.proto_state = e.proto_state /\ p.priv_state = "SSI_CONFIG_PEND"
          /\ p.wakeline_users = e.wakeline_users /\ p.line = e.line
        BY <1>1, <1>3
    <2> HIDE DEF off, p
    <2>5. \/ c \in {e, f}
          \/ c = off /\ e.proto_state = "CONNECTED"
          \/ c = p /\ e.priv_state = "CONNECTING"
        BY DEF CallInactive, c, f, a, off, p
    <2> HIDE DEF c
    <2> SUFFICES Keeps(c, e, F)
        BY DEF c
    <2>6. CASE c \in {e, f}
        BY <2>1, <2>2, <2>6, KeepsChain
    <2>7. CASE c = off /\ e.proto_state = "CONNECTED"
        BY <2>3, <2>7 DEF Keeps, Agrees, Recorded, Engaged, Enabled, Active,
                          LineFollowsUsers
    <2>8. CASE c = p /\ e.priv_state = "CONNECTING"
        BY <2>4, <2>8 DEF Keeps, Agrees, Recorded, Engaged, Enabled, Active,
                          LineFollowsUsers
    <2> QED
        BY <2>5, <2>6, <2>7, <2>8
<1>5. Keeps(CallActive(e, F), e, F)
    <2> DEFINE on == cmtspeech_send_ssi_config_request(e, TRUE, F)
               p == PrivChangeTo(e, "SSI_CONFIG_PEND")
               r == priv_send_reset(e, F)
               b == PrivChangeTo(r, "RESET_BEFORE_CONNECT")
               d == priv_reset_state_to_disconnected(e)
               again == cmtspeech_send_ssi_config_request(d, TRUE, F)
               c == CallActive(e, F)
    <2>1. /\ on.proto_state = e.proto_state
          /\ on.priv_state \in {"CONNECTING", "IN_SYNC"}
          /\ on.wakeline_users = e.wakeline_users \cup {"CALL"}
          /\ Dependable(F) /\ LineFollowsUsers(e) => LineFollowsUsers(on)
        BY <1>1, RequestEffects
    <2>2. /\ p.proto_state = e.proto_state /\ p.priv_state = "SSI_CONFIG_PEND"
          /\ p.wakeline_users = e.wakeline_users /\ p.line = e.line
        BY <1>1, <1>3
    <2>3. r \in LibStates
        BY <1>1, SendResetTyped
    <2>4. /\ r.proto_state \in {"INVALID", e.proto_state}
          /\ Dependable(F) => r.wakeline_users = e.wakeline_users \cup {"RESET"}
          /\ Dependable(F) /\ LineFollowsUsers(e) => LineFollowsUsers(r)
        BY <1>1, ResetRequest
    <2> HIDE DEF r
    <2>5. /\ b.proto_state = r.proto_state
          /\ b.priv_state = "RESET_BEFORE_CONNECT"
          /\ b.wakeline_users = r.wakeline_users /\ b.line = r.line
        BY <1>3, <2>3
    <2>6. d \in LibStates
        BY <1>1, ProtocolTyped
    <2>7. /\ d.proto_state = "DISCONNECTED"
          /\ d.wakeline_users = e.wakeline_users /\ d.line = e.line
        BY <1>1, Changes DEF Protos, Privs
    <2> HIDE DEF d
    <2>8. /\ again.proto_state = d.proto_state
          /\ again.priv_state \in {"CONNECTING", "IN_SYNC"}
          /\ again.wakeline_users = d.wakeline_users \cup {"CALL"}
          /\ Dependable(F) /\ LineFollowsUsers(d) => LineFollowsUsers(again)
        BY <2>6, RequestEffects
    <2> HIDE DEF on, p, b, again
    <2>9. \/ c = e
          \/ c = on /\ e.proto_state = "DISCONNECTED"
          \/ /\ c = p
             /\ e.proto_state = "CONNECTED" /\ e.priv_state = "DISCONNECTING"
          \/ c = b /\ e.proto_state \in {"INVALID", "TEST_RAMP_PING_ACTIVE"}
          \/ c = again
        <3> DEFINE closing == /\ e.proto_state = "CONNECTED"
                              /\ e.priv_state = "DISCONNECTING"
                   void == e.proto_state \in {"INVALID", "TEST_RAMP_PING_ACTIVE"}
                   restart == /\ e.proto_state \in Active
                              /\ ~e.call_server_active /\ e.io_errors
        <3>1. CASE e.proto_state = "DISCONNECTED"
            <4>1. /\ e.proto_state # "CONNECTED" /\ ~void
                  /\ e.proto_state \notin Active
                BY <3>1 DEF Active
            <4> QED
                BY <3>1, <4>1, Zenon DEF CallActive, c, on
        <3>2. CASE closing
            <4>1. e.proto_state # "DISCONNECTED" /\ ~void /\ e.proto_state \notin Active
                BY <3>2 DEF Active
            <4> QED
                BY <3>2, <4>1, Zenon DEF CallActive, c, p
        <3>3. CASE void
            <4>1. /\ e.proto_state # "DISCONNECTED" /\ e.proto_state # "CONNECTED"
                  /\ e.proto_state \notin Active
                BY <3>3 DEF Active
            <4> QED
                BY <3>3, <4>1, Zenon DEF CallActive, c, r, b
        <3>4. CASE restart
            <4>1. /\ e.proto_state # "DISCONNECTED" /\ e.proto_state # "CONNECTED"
                  /\ ~void
                BY <3>4 DEF Active
            <4> QED
                BY <3>4, <4>1, Zenon DEF CallActive, c, d, again
        <3>5. CASE ~(e.proto_state = "DISCONNECTED" \/ closing \/ void \/ restart)
            BY <3>5, Zenon DEF CallActive, c
        <3> QED
            BY <3>1, <3>2, <3>3, <3>4, <3>5
    <2> HIDE DEF c
    <2> SUFFICES Keeps(c, e, F)
        BY DEF c
    <2>10. CASE c = e
        BY <2>10, KeepsChain
    <2>11. CASE c = on /\ e.proto_state = "DISCONNECTED"
        BY <2>1, <2>11 DEF Keeps, Agrees, Recorded, Engaged, Enabled, Active
    <2>12. CASE /\ c = p
                /\ e.proto_state = "CONNECTED" /\ e.priv_state = "DISCONNECTING"
        BY <2>2, <2>12 DEF Keeps, Agrees, Recorded, Engaged, Enabled, Active,
                           LineFollowsUsers
    <2>13. CASE c = b /\ e.proto_state \in {"INVALID", "TEST_RAMP_PING_ACTIVE"}
        BY <2>4, <2>5, <2>13 DEF Keeps, Agrees, Recorded, Engaged, Enabled,
                                 Active, LineFollowsUsers
    <2>14. CASE c = again
        BY <2>7, <2>8, <2>14 DEF Keeps, Agrees, Recorded, Engaged, Enabled,
                                 Active, LineFollowsUsers
    <2> QED
        BY <2>9, <2>10, <2>11, <2>12, <2>13, <2>14
<1>6. ASSUME NEW on \in BOOLEAN
      PROVE  Keeps(cmtspeech_state_change_call_status(s, on, F), s, F)
    <2> DEFINE c == IF on THEN CallActive(e, F) ELSE CallInactive(e, F)
               f == [c EXCEPT !.call_server_active = on]
    <2>1. Keeps(c, e, F)
        BY <1>4, <1>5
    <2>2. c \in LibStates
        BY <1>1, StatusTyped
    <2> HIDE DEF c
    <2>3. Same(f, c)
        BY <2>2 DEF Same, LibStates
    <2>4. Keeps(f, s, F)
        BY <1>1, <2>1, <2>3, KeepsChain
    <2> QED
        BY <2>4 DEF cmtspeech_state_change_call_status, e, c
<1>7. Keeps(cmtspeech_state_change_error(s, F), s, F)
    BY <1>1, SendResetKeeps, KeepsChain DEF cmtspeech_state_change_error, e
<1>8. ASSUME NEW version \in {1, 2}
      PROVE  Keeps(cmtspeech_set_wb_preference(s, version), s, F)
    <2> DEFINE f == [e EXCEPT !.conf_proto_version = version]
    <2>1. Same(f, e)
        BY <1>1 DEF Same, LibStates
    <2>2. Keeps(f, s, F) /\ Keeps(e, s, F)
        BY <1>1, <2>1, KeepsChain
    <2> QED
        BY <2>2 DEF cmtspeech_set_wb_preference, e
<1>9. ASSUME s.proto_state \in Active
      PROVE  Keeps(cmtspeech_send_timing_request(s, F), s, F)
    <2> DEFINE t == cmtspeech_bc_send_timing_request(e, F)
    <2>1. /\ t.proto_state = e.proto_state
          /\ t.priv_state \in {e.priv_state, "TIMING"}
          /\ t.wakeline_users = e.wakeline_users /\ t.line = e.line
        BY <1>1, RequestEffects
    <2> HIDE DEF t
    <2>2. Keeps(t, e, F)
        BY <2>1 DEF Keeps, Agrees, Recorded, Engaged, LineFollowsUsers
    <2>3. Keeps(t, s, F)
        BY <1>1, <2>2, KeepsChain
    <2> QED
        BY <2>3 DEF cmtspeech_send_timing_request, e, t
<1>10. ASSUME NEW t \in LibStates PROVE Keeps(RampRequested(t, F), t, F)
    <2> DEFINE a == Assert(t, "test_data_ramp_req",
                           t.proto_state = "DISCONNECTED")
               w == Write(a, OutMsg("TEST_RAMP_PING"), F)
               c == StateChangeTo(w, "TEST_RAMP_PING_ACTIVE", "IN_SYNC")
    <2>1. a \in LibStates /\ Same(a, t)
        BY <1>2, AssertTyped, AssertFrame
    <2> HIDE DEF a
    <2>2. w \in LibStates /\ Same(w, a)
        BY <1>2, <2>1, Messages, ProtocolTyped, Frames
    <2> HIDE DEF w
    <2>3. /\ c.proto_state = "TEST_RAMP_PING_ACTIVE" /\ c.priv_state = "IN_SYNC"
          /\ c.wakeline_users = w.wakeline_users /\ c.line = w.line
        BY <1>2, <2>2, Changes
    <2> HIDE DEF c
    <2>4. Keeps(a, t, F) /\ Keeps(w, t, F)
        BY <2>1, <2>2, KeepsChain
    <2>5. Keeps(c, w, F)
        BY <2>3 DEF Keeps, Agrees, Recorded, Engaged, Enabled, Active,
                    LineFollowsUsers
    <2>6. RampRequested(t, F) \in {a, w, c}
        BY Zenon DEF RampRequested, a, w, c
    <2> QED
        BY <2>4, <2>5, <2>6, KeepsChain
<1>11. ASSUME NEW len \in Nat
       PROVE  Keeps(cmtspeech_test_data_ramp_req(s, len, F), s, F)
    <2> DEFINE b == [e EXCEPT !.slot_size = RampSlot(len)]
               g == priv_setup_driver_bufconfig(b, F)
               c == RampConfigured(e, len, F)
               w == priv_acquire_wakeline(c, "TEST_RAMP_PING", F)
               r == RampRequested(w, F)
    <2>1. RampSlot(len) \in Nat
        BY DEF RampSlot
    <2>2. b \in LibStates /\ Same(b, e)
        BY <1>1, <2>1, BuffersTyped, Frames
    <2> HIDE DEF b
    <2>3. g \in LibStates /\ Same(g, b)
        BY <2>2, BuffersTyped, Frames
    <2> HIDE DEF g
    <2>4. c \in {e, g}
        BY DEF RampConfigured, b, g
    <2> HIDE DEF c
    <2>5. c \in LibStates /\ Same(c, s)
        BY <1>1, <2>2, <2>3, <2>4 DEF Same
    <2>6. w \in LibStates
        BY <1>2, <2>5, WakelineTyped
    <2>7. /\ w.proto_state = c.proto_state /\ w.priv_state = c.priv_state
          /\ w.wakeline_users = c.wakeline_users \cup {"TEST_RAMP_PING"}
          /\ Dependable(F) /\ LineFollowsUsers(c) => LineFollowsUsers(w)
        BY <1>2, <2>5, WakelineFollows
    <2> HIDE DEF w
    <2>8. Keeps(w, c, F)
        BY <2>7 DEF Keeps, Agrees, Recorded, Engaged
    <2>9. Keeps(r, w, F)
        BY <1>10, <2>6
    <2> HIDE DEF r
    <2>10. Keeps(c, s, F) /\ Keeps(w, s, F) /\ Keeps(r, s, F)
        BY <2>5, <2>8, <2>9, KeepsChain
    <2>11. cmtspeech_test_data_ramp_req(s, len, F) \in {c, w, r}
        BY Zenon DEF cmtspeech_test_data_ramp_req, e, c, w, r
    <2> QED
        BY <2>10, <2>11
<1>12. ASSUME NEW i \in ULSlots
       PROVE  /\ Keeps(cmtspeech_ul_buffer_acquire(s, i), s, F)
              /\ Keeps(cmtspeech_ul_buffer_release(s, i, F), s, F)
    <2> DEFINE q == cmtspeech_ul_buffer_acquire(s, i)
               b == Assert(e, "ul_buffer_release", s.proto_state = "ACTIVE_DLUL")
               u == [b EXCEPT !.ul_locked = b.ul_locked \ {i}]
               a == Assert(u, "layout_change_released",
                           i \in s.ul_locked /\ s.ul_desc = 0)
               r == LayoutChangeReleased(a, F)
               z == Assert(r, "ul_buffer_release", r.ul_desc > 0)
    <2>1. Same(q, e)
        BY <1>1 DEF Same, cmtspeech_ul_buffer_acquire, LibStates, e
    <2> HIDE DEF q
    <2>2. b \in LibStates /\ Same(b, e)
        BY <1>1, <1>2, AssertTyped, AssertFrame
    <2> HIDE DEF b
    <2>3. u \in LibStates
        <3>1. b.ul_locked \ {i} \in SUBSET ULSlots
            BY <2>2, Fields
        <3> QED
            BY <2>2, <3>1, Zenon DEF LibStates
    <2>4. Same(u, b)
        BY <2>2 DEF Same, LibStates
    <2> HIDE DEF u
    <2>5. a \in LibStates /\ Same(a, u)
        BY <1>2, <2>3, AssertTyped, AssertFrame
    <2> HIDE DEF a
    <2>6. r \in LibStates /\ Keeps(r, a, F)
        BY <2>5, SpeechConfigTyped, SpeechConfigKeeps
    <2> HIDE DEF r
    <2>7. Same(z, r)
        BY <2>6, AssertFrame
    <2> HIDE DEF z
    <2>8. Keeps(q, s, F) /\ Keeps(u, s, F)
        BY <1>1, <2>1, <2>2, <2>4, KeepsChain
    <2>9. Keeps(z, s, F)
        BY <2>5, <2>6, <2>7, <2>8, KeepsChain
    <2>10. cmtspeech_ul_buffer_release(s, i, F) \in {u, z}
        BY Zenon DEF cmtspeech_ul_buffer_release, e, b, u, a, r, z
    <2> QED
        BY <2>8, <2>9, <2>10 DEF q
<1>13. ASSUME NEW i \in DLSlots
       PROVE  /\ Keeps(cmtspeech_dl_buffer_acquire(s, i), s, F)
              /\ Keeps(cmtspeech_dl_buffer_release(s, i, F), s, F)
    <2> DEFINE l == [e EXCEPT !.dl_locked = e.dl_locked \cup {i}]
               q == Assert(l, "dl_buffer_acquire", s.dl_desc = s.slot_size)
               d == StateChangeTo(q, "DISCONNECTED", "IN_SYNC")
               u == [e EXCEPT !.dl_locked = e.dl_locked \ {i}]
               a == Assert(u, "layout_change_released", s.dl_desc = 0)
               r == LayoutChangeReleased(a, F)
               z == Assert(r, "dl_buffer_release", r.dl_desc > 0)
    <2>1. l \in LibStates /\ u \in LibStates
        <3>1. /\ e.dl_locked \cup {i} \in SUBSET DLSlots
              /\ e.dl_locked \ {i} \in SUBSET DLSlots
            BY <1>1, Fields
        <3> QED
            BY <1>1, <3>1, Zenon DEF LibStates
    <2>2. Same(l, e) /\ Same(u, e)
        BY <1>1 DEF Same, LibStates
    <2> HIDE DEF l, u
    <2>3. /\ q \in LibStates /\ Same(q, l)
          /\ a \in LibStates /\ Same(a, u)
        BY <1>2, <2>1, AssertTyped, AssertFrame
    <2> HIDE DEF q, a
    <2>4. /\ d.proto_state = "DISCONNECTED" /\ d.priv_state = "IN_SYNC"
          /\ d.wakeline_users = q.wakeline_users /\ d.line = q.line
        BY <1>2, <2>3, Changes
    <2> HIDE DEF d
    <2>5. Keeps(d, q, F)
        BY <2>4 DEF Keeps, Agrees, Recorded, Engaged, Enabled, Active,
                    LineFollowsUsers
    <2>6. Keeps(q, s, F) /\ Keeps(u, s, F) /\ Keeps(e, s, F)
        BY <1>1, <2>2, <2>3, KeepsChain
    <2>7. Keeps(d, s, F)
        BY <2>5, <2>6, KeepsChain
    <2>8. r \in LibStates /\ Keeps(r, a, F)
        BY <2>3, SpeechConfigTyped, SpeechConfigKeeps
    <2> HIDE DEF r
    <2>9. Same(z, r)
        BY <2>8, AssertFrame
    <2> HIDE DEF z
    <2>10. Keeps(z, s, F)
        BY <2>3, <2>6, <2>8, <2>9, KeepsChain
    <2>11. /\ cmtspeech_dl_buffer_acquire(s, i) \in {q, d}
           /\ cmtspeech_dl_buffer_release(s, i, F) \in {e, u, z}
        BY Zenon DEF cmtspeech_dl_buffer_acquire, cmtspeech_dl_buffer_release,
                     e, l, q, d, u, a, r, z
    <2> QED
        BY <2>6, <2>7, <2>10, <2>11
<1> QED
    BY <1>6, <1>7, <1>8, <1>9, <1>11, <1>12, <1>13

-----------------------------------------------------------------------------
(* The requests that close the connection, and the buffer descriptors.     *)

Closes(m) == m.type = "SSI_CONFIG_REQ" /\ ~m.on

\* The current call has not closed the connection,
Mute(s) == \A k \in 1 .. Len(s.sent) : ~Closes(s.sent[k])

\* or the library does not believe in an active call.
Discreet(s) == s.call_server_active => Mute(s)

\* DescriptorsMatch, of any state.
Matched(s) ==
    /\ s.dl_desc > 0 => s.dl_desc = s.slot_size
    /\ s.ul_desc > 0 => s.ul_desc = s.slot_size

Calmer(t, s) == t.call_server_active => s.call_server_active

SameBuffers(t, s) ==
    /\ t.slot_size = s.slot_size
    /\ t.dl_desc = s.dl_desc /\ t.ul_desc = s.ul_desc

\* From s to t nothing was closed and no call became active,
Quieter(t, s) == (Mute(s) => Mute(t)) /\ Calmer(t, s)

\* and no buffer changed.
Modest(t, s) == Quieter(t, s) /\ SameBuffers(t, s)

\* The same, but the connection may have been closed with no call active.
Proper(t, s) == (Discreet(s) => Discreet(t)) /\ Calmer(t, s) /\ SameBuffers(t, s)

\* The step from s to t neither closes an active call nor leaves a mismatch.
Sound(t, s) == (Discreet(s) => Discreet(t)) /\ (Matched(s) => Matched(t))

\* They follow from each other, and chain.
LEMMA QuieterChain ==
    ASSUME NEW s, NEW t, NEW u
    PROVE  /\ Quieter(t, s) /\ Quieter(u, t) => Quieter(u, s)
           /\ Quieter(s, s)
           /\ Quieter(t, s) => (Discreet(s) => Discreet(t)) /\ Calmer(t, s)
           /\ Modest(t, s) => Quieter(t, s)
    BY DEF Quieter, Calmer, Discreet, Modest

\* Modest steps make a modest operation.
LEMMA ModestChain ==
    ASSUME NEW s, NEW t, NEW u
    PROVE  /\ Modest(t, s) /\ Modest(u, t) => Modest(u, s)
           /\ Modest(s, s)
           /\ Modest(t, s) => Proper(t, s)
    BY DEF Modest, Quieter, Calmer, SameBuffers, Proper, Discreet

\* Proper steps make a proper operation.
LEMMA ProperChain ==
    ASSUME NEW s, NEW t, NEW u
    PROVE  /\ Proper(t, s) /\ Proper(u, t) => Proper(u, s)
           /\ Proper(s, s)
           /\ Proper(t, s) => Sound(t, s)
    BY DEF Calmer, SameBuffers, Proper, Sound, Matched

\* Sound steps make a sound operation.
LEMMA SoundChain ==
    ASSUME NEW s, NEW t, NEW u
    PROVE  Sound(s, s) /\ (Sound(t, s) /\ Sound(u, t) => Sound(u, s))
    BY DEF Sound

\* What the operations are built from.
LEMMA AssertModest ==
    ASSUME NEW s \in LibStates, NEW name, NEW holds
    PROVE  Modest(Assert(s, name, holds), s)
    BY DEF Modest, Quieter, Mute, Calmer, SameBuffers, Assert, LibStates

\* The helpers of the handlers are modest.
LEMMA PartsModest ==
    ASSUME NEW s \in LibStates, NEW F
    PROVE  /\ Mute(Entered(s)) /\ SameBuffers(Entered(s), s)
           /\ \A proto \in Protos, priv \in Privs :
                Modest(StateChangeTo(s, proto, priv), s)
           /\ \A priv \in Privs : Modest(PrivChangeTo(s, priv), s)
           /\ Modest(priv_reset_state_to_disconnected(s), s)
           /\ \A id \in WakelineUsers :
                /\ Modest(priv_acquire_wakeline(s, id, F), s)
                /\ Modest(priv_release_wakeline(s, id, F), s)
           /\ Modest(priv_reset_wakeline_state(s, F), s)
           /\ \A m \in OutMsgs :
                /\ ~Closes(m) => Modest(Write(s, m, F), s)
                /\ Calmer(Write(s, m, F), s) /\ SameBuffers(Write(s, m, F), s)
<1>1. Mute(Entered(s)) /\ SameBuffers(Entered(s), s)
    <2>1. Entered(s).sent = <<>> /\ SameBuffers(Entered(s), s)
        BY DEF SameBuffers, Entered, LibStates
    <2>2. Entered(s).sent \in Seq(OutMsgs)
        BY <2>1
    <2>3. 1 .. Len(Entered(s).sent) = {}
        BY <2>1
    <2> QED
        BY <2>1, <2>3 DEF Mute
<1>2. ASSUME NEW proto \in Protos, NEW priv \in Privs
      PROVE  Modest(StateChangeTo(s, proto, priv), s)
    BY DEF Modest, Quieter, Mute, Calmer, SameBuffers, StateChangeTo, LibStates
<1>3. ASSUME NEW priv \in Privs PROVE Modest(PrivChangeTo(s, priv), s)
    BY DEF Modest, Quieter, Mute, Calmer, SameBuffers, PrivChangeTo, LibStates
<1>4. Modest(priv_reset_state_to_disconnected(s), s)
    BY DEF Modest, Quieter, Mute, Calmer, SameBuffers, priv_reset_state_to_disconnected,
           LibStates
<1>5. ASSUME NEW id \in WakelineUsers
      PROVE  /\ Modest(priv_acquire_wakeline(s, id, F), s)
             /\ Modest(priv_release_wakeline(s, id, F), s)
    <2>1. Modest(priv_acquire_wakeline(s, id, F), s)
        BY DEF Modest, Quieter, Mute, Calmer, SameBuffers, priv_acquire_wakeline, LibStates
    <2>2. Modest(priv_release_wakeline(s, id, F), s)
        BY DEF Modest, Quieter, Mute, Calmer, SameBuffers, priv_release_wakeline, Assert,
               LibStates
    <2> QED
        BY <2>1, <2>2
<1>6. Modest(priv_reset_wakeline_state(s, F), s)
    BY DEF Modest, Quieter, Mute, Calmer, SameBuffers, priv_reset_wakeline_state, Assert,
           LibStates
<1>7. ASSUME NEW m \in OutMsgs
      PROVE  /\ ~Closes(m) => Modest(Write(s, m, F), s)
             /\ Calmer(Write(s, m, F), s) /\ SameBuffers(Write(s, m, F), s)
    <2> DEFINE w == Write(s, m, F)
    <2>1. /\ w.call_server_active = s.call_server_active /\ SameBuffers(w, s)
          /\ w.sent \in {s.sent, Append(s.sent, m)}
        BY DEF Write, SameBuffers, LibStates
    <2> HIDE DEF w
    <2>2. s.sent \in Seq(OutMsgs)
        BY Fields
    <2>3. ~Closes(m) /\ Mute(s) => Mute(w)
        <3> SUFFICES ASSUME ~Closes(m), Mute(s), NEW k \in 1 .. Len(w.sent)
                     PROVE  ~Closes(w.sent[k])
            BY DEF Mute
        <3>1. w.sent[k] \in {s.sent[k], m} /\ (w.sent[k] # m => k \in 1 .. Len(s.sent))
            BY SMTT(30), <2>1, <2>2
        <3> QED
            BY <3>1 DEF Mute
    <2> QED
        BY <2>1, <2>3 DEF Modest, Quieter, Calmer, w
<1> QED
    BY <1>1, <1>2, <1>3, <1>4, <1>5, <1>6, <1>7

\* The requests: only cmtspeech_send_ssi_config_request(0) closes anything.
LEMMA RequestsModest ==
    ASSUME NEW s \in LibStates, NEW F
    PROVE  /\ Modest(cmtspeech_bc_send_timing_request(s, F), s)
           /\ Modest(cmtspeech_send_ssi_config_request(s, TRUE, F), s)
           /\ LET off == cmtspeech_send_ssi_config_request(s, FALSE, F)
              IN  Calmer(off, s) /\ SameBuffers(off, s)
           /\ Modest(WriteResetConnReq(s, F), s)
<1>1. /\ {"NEW_TIMING_CONFIG_REQ", "RESET_CONN_REQ"} \subseteq OutTypes
      /\ {"TIMING", "IN_SYNC", "CONNECTING", "DISCONNECTING"} \subseteq Privs
      /\ "INVALID" \in Protos /\ "CALL" \in WakelineUsers
      /\ {"send_ssi_config_request(0)", "send_ssi_config_request(1)"}
            \subseteq Assertions
    BY DEF OutTypes, Privs, Protos, WakelineUsers, Assertions
<1>2. ASSUME NEW type \in {"NEW_TIMING_CONFIG_REQ", "RESET_CONN_REQ"}
      PROVE  /\ Write(s, OutMsg(type), F) \in LibStates
             /\ Modest(Write(s, OutMsg(type), F), s)
    <2>1. OutMsg(type) \in OutMsgs /\ ~Closes(OutMsg(type))
        BY <1>1, Messages DEF Closes, OutMsg
    <2> QED
        BY <2>1, ProtocolTyped, PartsModest
<1>3. Modest(cmtspeech_bc_send_timing_request(s, F), s)
    <2> DEFINE w == Write(s, OutMsg("NEW_TIMING_CONFIG_REQ"), F)
    <2>1. w \in LibStates /\ Modest(w, s)
        BY <1>2
    <2> HIDE DEF w
    <2>2. Modest(PrivChangeTo(w, "TIMING"), w)
        BY <1>1, <2>1, PartsModest
    <2> QED
        BY <2>1, <2>2, ModestChain DEF cmtspeech_bc_send_timing_request, w
<1>4. Modest(WriteResetConnReq(s, F), s)
    <2> DEFINE w == Write(s, OutMsg("RESET_CONN_REQ"), F)
    <2>1. w \in LibStates /\ Modest(w, s)
        BY <1>2
    <2> HIDE DEF w
    <2>2. Modest(StateChangeTo(w, "INVALID", "IN_SYNC"), w)
        BY <1>1, <2>1, PartsModest
    <2> QED
        BY <2>1, <2>2, ModestChain DEF WriteResetConnReq, w
<1>5. ASSUME NEW u \in LibStates, NEW on \in BOOLEAN
      PROVE  LET c == SsiConfigWritten(u, on, F)
             IN  /\ on => Modest(c, u)
                 /\ Calmer(c, u) /\ SameBuffers(c, u)
    <2> DEFINE q == IF on THEN "CONNECTING" ELSE "DISCONNECTING"
               p == PrivChangeTo(u, q)
               m == SsiConfigReq(on, u.conf_proto_version)
               w == Write(p, m, F)
               f == PrivChangeTo(w, "IN_SYNC")
    <2>1. q \in Privs
        BY <1>1
    <2>2. p \in LibStates /\ Modest(p, u)
        BY <1>1, <2>1, ProtocolTyped, PartsModest
    <2> HIDE DEF q, p
    <2>3. m \in OutMsgs /\ (on => ~Closes(m))
        BY Fields, Messages DEF SsiConfigReq, Closes
    <2> HIDE DEF m
    <2>4. /\ w \in LibStates
          /\ on => Modest(w, p)
          /\ Calmer(w, p) /\ SameBuffers(w, p)
        BY <2>2, <2>3, ProtocolTyped, PartsModest
    <2> HIDE DEF w
    <2>5. Modest(f, w)
        BY <1>1, <2>4, PartsModest
    <2> HIDE DEF f
    <2>6. SsiConfigWritten(u, on, F) \in {f, w}
        BY DEF SsiConfigWritten, f, w, m, p, q
    <2> QED
        BY <2>2, <2>4, <2>5, <2>6 DEF Modest, Quieter, Calmer, SameBuffers
<1>6. ASSUME NEW u \in LibStates
      PROVE  /\ Modest(cmtspeech_bc_send_ssi_config_request(u, TRUE, F), u)
             /\ LET off == cmtspeech_bc_send_ssi_config_request(u, FALSE, F)
                IN  Calmer(off, u) /\ SameBuffers(off, u)
    <2> DEFINE a == Assert(u, "send_ssi_config_request(1)",
                           \/ u.proto_state = "DISCONNECTED"
                           \/ u.priv_state = "SSI_CONFIG_PEND")
               b == Assert(u, "send_ssi_config_request(0)",
                           \/ u.proto_state = "CONNECTED"
                           \/ u.priv_state = "SSI_CONFIG_PEND")
    <2>1. /\ a \in LibStates /\ b \in LibStates
          /\ Modest(a, u) /\ Modest(b, u)
        BY <1>1, AssertTyped, AssertModest
    <2> HIDE DEF a, b
    <2>2. /\ Modest(SsiConfigWritten(a, TRUE, F), a)
          /\ Calmer(SsiConfigWritten(b, FALSE, F), b)
          /\ SameBuffers(SsiConfigWritten(b, FALSE, F), b)
        BY <1>5, <2>1
    <2> QED
        BY <2>1, <2>2, ModestChain
           DEF cmtspeech_bc_send_ssi_config_request, a, b, Modest, Quieter, Calmer,
               SameBuffers
<1>7. /\ Modest(cmtspeech_send_ssi_config_request(s, TRUE, F), s)
      /\ LET off == cmtspeech_send_ssi_config_request(s, FALSE, F)
         IN  Calmer(off, s) /\ SameBuffers(off, s)
    <2> DEFINE a == priv_acquire_wakeline(s, "CALL", F)
    <2>1. a \in LibStates /\ Modest(a, s)
        BY <1>1, WakelineTyped, PartsModest
    <2> HIDE DEF a
    <2>2. Modest(cmtspeech_bc_send_ssi_config_request(a, TRUE, F), a)
        BY <1>6, <2>1
    <2> QED
        BY <1>6, <2>1, <2>2, ModestChain DEF cmtspeech_send_ssi_config_request, a
<1> QED
    BY <1>3, <1>4, <1>7

\* The descriptors are made for the current slot size when the driver takes
\* the configuration, and when there is none.
LEMMA BuffersQuieter ==
    ASSUME NEW s \in LibStates, NEW F
    PROVE  /\ \A size \in Nat : Quieter([s EXCEPT !.slot_size = size], s)
           /\ LET v == priv_invalidate_buffer_slots(s)
              IN  Quieter(v, s) /\ Matched(v)
           /\ LET u == priv_update_dl_buffer_descriptors(s)
              IN  Quieter(u, s) /\ (Matched(s) => Matched(u))
           /\ LET b == priv_setup_driver_bufconfig(s, F)
              IN  /\ Quieter(b, s)
                  /\ s.slot_size = 0 \/ "CS_CONFIG_BUFS" \notin F => Matched(b)
<1>1. ASSUME NEW size \in Nat PROVE Quieter([s EXCEPT !.slot_size = size], s)
    BY DEF Quieter, Mute, Calmer, LibStates
<1>2. LET v == priv_invalidate_buffer_slots(s)
      IN  Quieter(v, s) /\ Matched(v)
    BY DEF Quieter, Mute, Calmer, Matched, priv_invalidate_buffer_slots, LibStates
<1>3. LET u == priv_update_dl_buffer_descriptors(s)
      IN  Quieter(u, s) /\ (Matched(s) => Matched(u))
    BY DEF Quieter, Mute, Calmer, Matched, priv_update_dl_buffer_descriptors,
           LibStates
<1>4. ASSUME NEW t \in LibStates
      PROVE  LET b == priv_setup_driver_bufconfig_v2api(t, F)
             IN  /\ Quieter(b, t)
                 /\ t.slot_size > 0 /\ "CS_CONFIG_BUFS" \notin F => Matched(b)
                 /\ t.slot_size = 0 => SameBuffers(b, t)
    BY DEF Quieter, Mute, Calmer, Matched, SameBuffers,
           priv_setup_driver_bufconfig_v2api, LibStates
<1>5. LET b == priv_setup_driver_bufconfig(s, F)
      IN  /\ Quieter(b, s)
          /\ s.slot_size = 0 \/ "CS_CONFIG_BUFS" \notin F => Matched(b)
    <2> DEFINE z == priv_reset_buf_state_to_disconnected(s)
               n == [s EXCEPT !.rx_started = FALSE]
    <2>1. z \in LibStates
        BY BuffersTyped
    <2>2. Quieter(z, s) /\ z.slot_size = 0 /\ z.dl_desc = 0 /\ z.ul_desc = 0
        BY DEF Quieter, Mute, Calmer, priv_reset_buf_state_to_disconnected, LibStates
    <2>3. n \in LibStates
        BY Zenon DEF LibStates
    <2>4. Quieter(n, s) /\ n.slot_size = s.slot_size
        BY DEF Quieter, Mute, Calmer, LibStates
    <2> HIDE DEF z, n
    <2>5. /\ Quieter(priv_setup_driver_bufconfig_v2api(z, F), s)
          /\ Matched(priv_setup_driver_bufconfig_v2api(z, F))
        BY <1>4, <2>1, <2>2, QuieterChain DEF Matched, SameBuffers
    <2>6. /\ Quieter(priv_setup_driver_bufconfig_v2api(n, F), s)
          /\ s.slot_size > 0 /\ "CS_CONFIG_BUFS" \notin F
                => Matched(priv_setup_driver_bufconfig_v2api(n, F))
        BY <1>4, <2>3, <2>4, QuieterChain
    <2>7. s.slot_size \in Nat
        BY Fields
    <2>8. CASE s.slot_size = 0
        BY <2>5, <2>8 DEF priv_setup_driver_bufconfig, z
    <2>9. CASE s.slot_size # 0
        BY <2>6, <2>7, <2>9 DEF priv_setup_driver_bufconfig, n
    <2> QED
        BY <2>8, <2>9
<1> QED
    BY <1>1, <1>2, <1>3, <1>5

\* A reset takes the buffers away.
LEMMA SendResetQuieter ==
    ASSUME NEW s \in LibStates, NEW F
    PROVE  Quieter(priv_send_reset(s, F), s) /\ Matched(priv_send_reset(s, F))
<1> DEFINE a == priv_acquire_wakeline(s, "RESET", F)
           w == WriteResetConnReq(a, F)
           l == priv_release_wakeline(w, "RESET", F)
           r == IF ~WakelineUp(s, F) THEN a
                ELSE IF "RESET_CONN_REQ" \in F THEN l ELSE w
           z == [r EXCEPT !.slot_size = 0]
           b == priv_setup_driver_bufconfig(z, F)
<1>1. "RESET" \in WakelineUsers
    BY DEF WakelineUsers
<1>2. a \in LibStates /\ Quieter(a, s)
    BY <1>1, WakelineTyped, PartsModest, QuieterChain
<1> HIDE DEF a
<1>3. w \in LibStates /\ Quieter(w, s)
    BY <1>2, RequestsTyped, RequestsModest, QuieterChain
<1> HIDE DEF w
<1>4. l \in LibStates /\ Quieter(l, s)
    BY <1>1, <1>3, WakelineTyped, PartsModest, QuieterChain
<1> HIDE DEF l
<1>5. r \in LibStates /\ Quieter(r, s)
    BY <1>2, <1>3, <1>4
<1> HIDE DEF r
<1>6. z \in LibStates /\ Quieter(z, s)
    BY <1>5, BuffersTyped, BuffersQuieter, QuieterChain
<1>7. z.slot_size = 0
    BY <1>5 DEF LibStates
<1> HIDE DEF z
<1>8. Quieter(b, s) /\ Matched(b)
    BY <1>6, <1>7, BuffersQuieter, QuieterChain
<1> HIDE DEF b
<1>9. priv_send_reset(s, F) = b
    BY DEF priv_send_reset, a, w, l, r, z, b
<1> QED
    BY <1>8, <1>9

\* The answer to SPEECH_CONFIG_REQ, whenever it is given: the connection goes
\* with the stream only when the call is over.
LEMMA SpeechConfigSound ==
    ASSUME NEW s \in LibStates, NEW F
    PROVE  /\ \A stream \in BOOLEAN, rate \in Rates :
                    Sound(priv_handle_speech_config(s, stream, rate, F), s)
           /\ Sound(LayoutChangeReleased(s, F), s)
<1>1. /\ {"IN_SYNC", "CONFIG_ACT_PEND"} \subseteq Privs
      /\ "post_command" \in Assertions
      /\ {"CONNECTED", "ACTIVE_DL"} \subseteq Protos
    BY DEF Privs, Protos, Assertions
<1>2. ASSUME NEW t \in LibStates, NEW ok \in BOOLEAN
      PROVE  /\ PostSpeechConfigResp(t, ok, F) \in LibStates
             /\ Proper(PostSpeechConfigResp(t, ok, F), t)
    <2> DEFINE a == Assert(t, "post_command", t.priv_state \in ConfigPending)
               i == PrivChangeTo(a, "IN_SYNC")
               stopped == StateChangeTo(a, "CONNECTED", "IN_SYNC")
               started == StateChangeTo(a, "ACTIVE_DL", "IN_SYNC")
               timed == cmtspeech_bc_send_timing_request(started, F)
               closed == cmtspeech_send_ssi_config_request(stopped, FALSE, F)
               post == PostSpeechConfigResp(t, ok, F)
    <2>1. a \in LibStates /\ Modest(a, t)
        BY <1>1, AssertTyped, AssertModest
    <2>2. a.call_server_active = t.call_server_active
        BY DEF Assert, LibStates
    <2> HIDE DEF a
    <2>3. /\ Modest(i, a) /\ Modest(stopped, a) /\ Modest(started, a)
          /\ i \in LibStates /\ stopped \in LibStates /\ started \in LibStates
        BY <1>1, <2>1, ProtocolTyped, PartsModest
    <2> HIDE DEF i, stopped, started
    <2>4. timed \in LibStates /\ Modest(timed, started)
        BY <2>3, RequestsTyped, RequestsModest
    <2>5. /\ closed \in LibStates
          /\ Calmer(closed, stopped) /\ SameBuffers(closed, stopped)
        BY <2>3, RequestsTyped, RequestsModest
    <2> HIDE DEF timed, closed
    <2>6. \/ post \in {a, i, started, timed, stopped}
          \/ post = closed /\ ~a.call_server_active
        BY Zenon DEF PostSpeechConfigResp, StreamStarted, StreamStopped,
            a, i, timed, started, stopped, closed
    <2> HIDE DEF post
    <2>7. CASE post \in {a, i, started, timed, stopped}
        <3>1. post \in LibStates /\ Modest(post, t)
            BY <2>1, <2>3, <2>4, <2>7, ModestChain
        <3> QED
            BY <3>1, ModestChain DEF post
    <2>8. CASE post = closed /\ ~a.call_server_active
        <3>1. ~closed.call_server_active /\ SameBuffers(closed, t)
            BY <2>1, <2>3, <2>5, <2>8 DEF Modest, Quieter, Calmer, SameBuffers
        <3> QED
            BY <2>5, <2>8, <3>1 DEF Proper, Calmer, Discreet, post
    <2> QED
        BY <2>6, <2>7, <2>8
<1>3. ASSUME NEW t \in LibStates, NEW ok \in BOOLEAN
      PROVE  /\ WriteSpeechConfigResp(t, ok, F) \in LibStates
             /\ Proper(WriteSpeechConfigResp(t, ok, F), t)
    <2> DEFINE m == [type |-> "SPEECH_CONFIG_RESP", on |-> ok, version |-> 0]
               w == [t EXCEPT !.sent = Append(t.sent, m)]
               f == [t EXCEPT !.io_errors = TRUE]
               p == PostSpeechConfigResp(w, ok, F)
               q == [p EXCEPT !.io_errors = FALSE]
    <2>1. m \in OutMsgs /\ ~Closes(m) /\ t.sent \in Seq(OutMsgs)
        BY Fields, Messages DEF Closes
    <2>2. /\ w \in LibStates /\ f \in LibStates
        <3>1. Append(t.sent, m) \in Seq(OutMsgs)
            BY <2>1
        <3> QED
            BY <3>1, Zenon DEF LibStates
    <2> HIDE DEF m
    <2>3. Modest(f, t)
        BY DEF Modest, Quieter, Mute, Calmer, SameBuffers, LibStates
    <2>4. Modest(w, t)
        <3>1. /\ w.sent = Append(t.sent, m) /\ SameBuffers(w, t)
              /\ w.call_server_active = t.call_server_active
            BY DEF SameBuffers, LibStates
        <3> HIDE DEF w
        <3>2. ASSUME Mute(t), NEW k \in 1 .. Len(w.sent) PROVE ~Closes(w.sent[k])
            <4>1. /\ w.sent[k] \in {t.sent[k], m}
                  /\ w.sent[k] # m => k \in 1 .. Len(t.sent)
                BY <2>1, <3>1
            <4> QED
                BY <2>1, <3>2, <4>1 DEF Mute
        <3> QED
            BY <3>1, <3>2 DEF Modest, Quieter, Calmer, Mute
    <2> HIDE DEF w, f
    <2>5. p \in LibStates /\ Proper(p, w)
        BY <1>2, <2>2
    <2> HIDE DEF p
    <2>6. q \in LibStates
        BY <2>5, Zenon DEF LibStates
    <2>7. Modest(q, p)
        BY <2>5 DEF Modest, Quieter, Mute, Calmer, SameBuffers, LibStates
    <2> HIDE DEF q
    <2>8. Proper(q, t) /\ Proper(f, t)
        BY <2>3, <2>4, <2>5, <2>7, ModestChain, ProperChain
    <2>9. WriteSpeechConfigResp(t, ok, F) \in {f, q}
        BY Zenon DEF WriteSpeechConfigResp, f, q, p, w, m
    <2> QED
        BY <2>2, <2>6, <2>8, <2>9
<1>4. ASSUME NEW t \in LibStates
      PROVE  LET r == priv_setup_and_send_speech_config_reply(t, F)
             IN  r \in LibStates /\ (Discreet(t) => Discreet(r)) /\ Matched(r)
    <2> DEFINE ok == "CS_CONFIG_BUFS" \notin F
               b == [t EXCEPT !.speech_config_resp_pend = FALSE]
               c == priv_setup_driver_bufconfig(b, F)
               w == WriteSpeechConfigResp(c, ok, F)
               v == priv_invalidate_buffer_slots(w)
               z == priv_send_reset(v, F)
               r == priv_setup_and_send_speech_config_reply(t, F)
    <2>1. b \in LibStates
        BY Zenon DEF LibStates
    <2>2. Quieter(b, t)
        BY DEF Quieter, Mute, Calmer, LibStates
    <2> HIDE DEF b
    <2>3. /\ c \in LibStates /\ Quieter(c, b)
          /\ ok => Matched(c)
        BY <2>1, BuffersTyped, BuffersQuieter
    <2> HIDE DEF c, ok
    <2>4. ok \in BOOLEAN
        BY DEF ok
    <2>5. w \in LibStates /\ Proper(w, c)
        BY <1>3, <2>3, <2>4
    <2> HIDE DEF w
    <2>6. v \in LibStates /\ Quieter(v, w)
        BY <2>5, BuffersTyped, BuffersQuieter
    <2> HIDE DEF v
    <2>7. z \in LibStates /\ Quieter(z, v) /\ Matched(z)
        BY <2>6, SendResetTyped, SendResetQuieter
    <2> HIDE DEF z
    <2>8. r = IF ok THEN w ELSE z
        BY DEF priv_setup_and_send_speech_config_reply, w, z, v, c, b, ok
    <2> HIDE DEF r
    <2>9. Discreet(t) => Discreet(w) /\ Discreet(z)
        BY <2>2, <2>3, <2>5, <2>6, <2>7, QuieterChain DEF Proper
    <2>10. ok => Matched(w)
        BY <2>3, <2>5, ProperChain DEF Sound
    <2> QED
        BY <2>5, <2>7, <2>8, <2>9, <2>10 DEF r
<1>5. Sound(LayoutChangeReleased(s, F), s)
    <2> DEFINE r == priv_setup_and_send_speech_config_reply(s, F)
               v == priv_invalidate_buffer_slots(r)
    <2>1. r \in LibStates /\ Sound(r, s)
        BY <1>4 DEF Sound
    <2> HIDE DEF r
    <2>2. Sound(v, r)
        BY <2>1, BuffersQuieter, QuieterChain DEF Sound
    <2> HIDE DEF v
    <2>3. LayoutChangeReleased(s, F) \in {s, r, v}
        BY Zenon DEF LayoutChangeReleased, r, v
    <2> QED
        BY <2>1, <2>2, <2>3, SoundChain
<1>6. ASSUME NEW stream \in BOOLEAN, NEW rate \in Rates
      PROVE  Sound(priv_handle_speech_config(s, stream, rate, F), s)
    <2> DEFINE size == IF stream THEN SlotSize(rate) ELSE 0
               c == [s EXCEPT !.slot_size = size]
               q == [c EXCEPT !.speech_config_resp_pend = TRUE]
               v == priv_invalidate_buffer_slots(q)
               r == priv_setup_and_send_speech_config_reply(c, F)
    <2>1. size \in Nat
        BY DEF SlotSize, Rates
    <2> HIDE DEF size
    <2>2. c \in LibStates /\ Quieter(c, s)
        BY <2>1, BuffersTyped, BuffersQuieter
    <2> HIDE DEF c
    <2>3. q \in LibStates
        BY <2>2, Zenon DEF LibStates
    <2>4. Quieter(q, c)
        BY <2>2 DEF Quieter, Mute, Calmer, LibStates
    <2> HIDE DEF q
    <2>5. Quieter(v, q) /\ Matched(v)
        BY <2>3, BuffersQuieter
    <2> HIDE DEF v
    <2>6. Sound(v, s)
        BY <2>2, <2>4, <2>5, QuieterChain DEF Sound
    <2>7. Sound(r, s)
        BY <1>4, <2>2, QuieterChain DEF Sound
    <2> HIDE DEF r
    <2>8. priv_handle_speech_config(s, stream, rate, F) \in {v, r}
        BY Zenon DEF priv_handle_speech_config, size, c, q, v, r
    <2> QED
        BY <2>6, <2>7, <2>8
<1> QED
    BY <1>5, <1>6

\* The answer to SSI_CONFIG_REQ: the connection is closed again when the call
\* ended meanwhile.
LEMMA SsiConfigSound ==
    ASSUME NEW s \in LibStates, NEW F, NEW ok \in BOOLEAN,
           NEW layout \in SampleLayouts
    PROVE  LET a == SsiConfigAnswered(s, ok, layout, F)
           IN  Sound(priv_handle_ssi_config_resp(a, F), s)
<1>1. /\ "IN_SYNC" \in Privs /\ "CONNECTING" \in Privs
      /\ "DISCONNECTING" \in Privs
      /\ "CONNECTED" \in Protos /\ "DISCONNECTED" \in Protos
      /\ "CALL" \in WakelineUsers
    BY DEF Privs, Protos, WakelineUsers
<1> DEFINE i == PrivChangeTo(s, "IN_SYNC")
           pending == s.priv_state \in {"CONNECTING", "DISCONNECTING"}
           p == IF pending THEN i ELSE s
           r == priv_send_reset(p, F)
           c == StateChangeTo(s, "CONNECTED", "IN_SYNC")
           l == [c EXCEPT !.sample_layout =
                    IF layout = "no_pref" THEN "swapped" ELSE layout]
           d == priv_reset_state_to_disconnected(s)
           on == cmtspeech_send_ssi_config_request(s, TRUE, F)
           up == StateChangeTo(on, "DISCONNECTED", "CONNECTING")
           off == cmtspeech_send_ssi_config_request(s, FALSE, F)
           down == StateChangeTo(off, "CONNECTED", "DISCONNECTING")
           a == SsiConfigAnswered(s, ok, layout, F)
<1>2. Sound(r, s)
    <2>1. i \in LibStates /\ Modest(i, s)
        BY <1>1, ProtocolTyped, PartsModest
    <2> HIDE DEF i
    <2>2. p \in LibStates /\ Quieter(p, s)
        BY <2>1, QuieterChain
    <2> HIDE DEF p
    <2>3. Quieter(r, p) /\ Matched(r)
        BY <2>2, SendResetQuieter
    <2> QED
        BY <2>2, <2>3, QuieterChain DEF Sound
<1>3. Modest(l, s)
    <2>1. c \in LibStates /\ Modest(c, s)
        BY <1>1, ProtocolTyped, PartsModest
    <2> HIDE DEF c
    <2>2. Modest(l, c)
        BY <2>1 DEF Modest, Quieter, Mute, Calmer, SameBuffers, LibStates
    <2> QED
        BY <2>1, <2>2, ModestChain
<1>4. Modest(d, s)
    BY PartsModest
<1>5. Modest(up, s)
    <2>1. on \in LibStates /\ Modest(on, s)
        BY RequestsTyped, RequestsModest
    <2> HIDE DEF on
    <2>2. Modest(up, on)
        BY <1>1, <2>1, PartsModest
    <2> QED
        BY <2>1, <2>2, ModestChain
<1>6. ~s.call_server_active => Proper(down, s)
    <2>1. /\ off \in LibStates
          /\ Calmer(off, s) /\ SameBuffers(off, s)
        BY RequestsTyped, RequestsModest
    <2> HIDE DEF off
    <2>2. Modest(down, off)
        BY <1>1, <2>1, PartsModest
    <2> HIDE DEF down
    <2> QED
        BY <2>1, <2>2 DEF Modest, Quieter, Calmer, SameBuffers, Proper, Discreet
<1>7. \/ a \in {r, l, d, up, s}
      \/ a = down /\ ~s.call_server_active
    <2> HIDE DEF i, p, r, l, d, up, down, pending
    <2> QED
        BY Zenon DEF SsiConfigAnswered, a, i, p, r, c, l, d, on, up, off, down, pending
<1>8. a \in LibStates
    BY SsiConfigTyped
<1> HIDE DEF i, p, r, c, l, d, on, up, off, down, a, pending
<1>9. Sound(a, s)
    BY <1>2, <1>3, <1>4, <1>5, <1>6, <1>7, ModestChain, ProperChain
<1>10. Sound(priv_handle_ssi_config_resp(a, F), a)
    <2> DEFINE z == priv_release_wakeline(a, "CALL", F)
               u == priv_update_dl_buffer_descriptors(a)
    <2>1. Modest(z, a)
        BY <1>1, <1>8, PartsModest
    <2>2. Sound(u, a)
        BY <1>8, BuffersQuieter, QuieterChain DEF Sound
    <2> HIDE DEF z, u
    <2>3. priv_handle_ssi_config_resp(a, F) \in {a, u, z}
        BY Zenon DEF priv_handle_ssi_config_resp, z, u
    <2> QED
        BY <2>1, <2>2, <2>3, ModestChain, ProperChain, SoundChain
<1> QED
    BY <1>9, <1>10, SoundChain DEF a

\* The state after a reset of either side.
LEMMA PeerResetSound ==
    ASSUME NEW t \in LibStates, NEW F
    PROVE  LET w == priv_initialize_after_peer_reset(t, F)
           IN  w \in LibStates /\ Quieter(w, t) /\ Matched(w)
<1> DEFINE z == [t EXCEPT !.slot_size = 0]
           b == priv_setup_driver_bufconfig(z, F)
           d == priv_reset_state_to_disconnected(b)
           w == priv_reset_wakeline_state(d, F)
<1>1. z \in LibStates /\ Quieter(z, t)
    BY BuffersTyped, BuffersQuieter
<1>2. z.slot_size = 0
    BY DEF LibStates
<1> HIDE DEF z
<1>3. b \in LibStates /\ Quieter(b, z) /\ Matched(b)
    BY <1>1, <1>2, BuffersTyped, BuffersQuieter
<1> HIDE DEF b
<1>4. d \in LibStates /\ Modest(d, b)
    BY <1>3, ProtocolTyped, PartsModest
<1> HIDE DEF d
<1>5. w \in LibStates /\ Modest(w, d)
    BY <1>4, WakelineTyped, PartsModest
<1> HIDE DEF w
<1>6. Quieter(w, t)
    BY <1>1, <1>3, <1>4, <1>5, QuieterChain
<1>7. Matched(w)
    BY <1>3, <1>4, <1>5, ModestChain, ProperChain DEF Sound
<1>8. priv_initialize_after_peer_reset(t, F) = w
    BY DEF priv_initialize_after_peer_reset, w, d, b, z
<1> QED
    BY <1>5, <1>6, <1>7, <1>8

\* A call of the library, from s to t, is done as it should be.
Done(t, s) == Discreet(t) /\ (Matched(s) => Matched(t))

\* Filling the event is modest.
LEMMA ReportedModest ==
    ASSUME NEW b, NEW s \in LibStates, NEW type
    PROVE  Modest(Reported(b, s, type), s)
    BY DEF Modest, Quieter, Mute, Calmer, SameBuffers, Reported, LibStates

\* Every call starts with nothing sent.
LEMMA EnteredDone ==
    ASSUME NEW s \in LibStates
    PROVE  /\ Entered(s) \in LibStates
           /\ \A t : Sound(t, Entered(s)) => Done(t, s)
<1>1. /\ Entered(s) \in LibStates
      /\ Mute(Entered(s)) /\ SameBuffers(Entered(s), s)
    BY ProtocolTyped, PartsModest
<1> QED
    BY <1>1 DEF Sound, Done, Discreet, SameBuffers, Matched

\* A test ramp changes the slot size before it asks the driver, and leaves the
\* descriptors of the old one when the driver refuses.
LEMMA RampConfiguredQuieter ==
    ASSUME NEW s \in LibStates, NEW F, NEW len \in Nat
    PROVE  LET c == RampConfigured(s, len, F)
           IN  /\ c \in LibStates /\ Quieter(c, s)
               /\ "CS_CONFIG_BUFS" \notin F => (Matched(s) => Matched(c))
<1> DEFINE b == [s EXCEPT !.slot_size = RampSlot(len)]
           g == priv_setup_driver_bufconfig(b, F)
           c == RampConfigured(s, len, F)
<1>1. RampSlot(len) \in Nat
    BY DEF RampSlot
<1>2. b \in LibStates /\ Quieter(b, s)
    BY <1>1, BuffersTyped, BuffersQuieter
<1> HIDE DEF b
<1>3. /\ g \in LibStates /\ Quieter(g, b)
      /\ "CS_CONFIG_BUFS" \notin F => Matched(g)
    BY <1>2, BuffersTyped, BuffersQuieter
<1> HIDE DEF g
<1>4. c \in {s, g}
    BY Zenon DEF RampConfigured, b, g
<1> HIDE DEF c
<1>5. c \in LibStates /\ Quieter(c, s)
    BY <1>2, <1>3, <1>4, QuieterChain
<1> QED
    BY <1>3, <1>4, <1>5 DEF c

\* The handlers of the modem's messages and the driver's reports.
LEMMA HandlersDone ==
    ASSUME NEW s \in LibStates, NEW F
    PROVE  /\ \A stream \in BOOLEAN, rate \in Rates :
                    Done(HandleSpeechConfigReq(s, stream, rate, F), s)
           /\ Done(HandleUplinkConfigNtf(s), s)
           /\ Done(HandleTimingConfigNtf(s), s)
           /\ \A ok \in BOOLEAN, layout \in SampleLayouts :
                    Done(HandleSsiConfigResp(s, ok, layout, F), s)
           /\ Done(HandleResetConnReq(s, F), s)
           /\ Done(HandleResetConnResp(s, F), s)
           /\ Done(HandleDriverError(s, F), s)
           /\ \A len \in Nat :
                /\ Discreet(HandleTestRampPing(s, len, F))
                /\ "CS_CONFIG_BUFS" \notin F =>
                        Done(HandleTestRampPing(s, len, F), s)
           /\ Done(HandleRxData(s), s)
<1> DEFINE e == Entered(s)
<1>1. e \in LibStates /\ \A t : Sound(t, e) => Done(t, s)
    BY EnteredDone
<1>2. /\ {"speech_config_req", "uplink_config_ntf", "timing_config_ntf",
          "ssi_config_resp", "reset_conn_req", "reset_conn_resp",
          "test_ramp_ping", "ping_acquire_wakeline"} \subseteq Assertions
      /\ {"IN_SYNC", "CONFIG_ACT_PEND", "CONFIG_DEACT_PEND"} \subseteq Privs
      /\ "ACTIVE_DLUL" \in Protos
      /\ {"RESET", "TEST_RAMP_PING"} \subseteq WakelineUsers
      /\ {"RESET_CONN_RESP", "TX_DATA_READY"} \subseteq OutTypes
    BY DEF Assertions, Privs, Protos, WakelineUsers, OutTypes
<1>3. SameBuffers(e, s) /\ Mute(e)
    BY PartsModest
<1> HIDE DEF e
<1>4. ASSUME NEW name \in Assertions, NEW holds
      PROVE  /\ Assert(e, name, holds) \in LibStates
             /\ Modest(Assert(e, name, holds), e)
    BY <1>1, AssertTyped, AssertModest
<1>5. ASSUME NEW t \in LibStates, NEW type, Sound(t, e)
      PROVE  Done(Reported(s, t, type), s)
    <2>1. Sound(Reported(s, t, type), t)
        BY ReportedModest, ModestChain, ProperChain
    <2> QED
        BY <1>1, <1>5, <2>1, SoundChain
<1>6. ASSUME NEW t \in LibStates
      PROVE  UplinkStarted(t) \in LibStates /\ Modest(UplinkStarted(t), t)
    <2> DEFINE c == StateChangeTo(t, "ACTIVE_DLUL", "IN_SYNC")
    <2>1. c \in LibStates /\ Modest(c, t)
        BY <1>2, ProtocolTyped, PartsModest
    <2> HIDE DEF c
    <2> QED
        BY <2>1, ModestChain DEF UplinkStarted, c
<1>7. ASSUME NEW t \in LibStates, NEW priv \in {"IN_SYNC", "CONFIG_ACT_PEND",
                                              "CONFIG_DEACT_PEND"}
      PROVE  PrivChangeTo(t, priv) \in LibStates
             /\ Modest(PrivChangeTo(t, priv), t)
    <2>1. priv \in Privs /\ "ACTIVE_DLUL" \in Protos
        BY <1>2
    <2> QED
        BY <2>1, ProtocolTyped, PartsModest
<1>8. ASSUME NEW stream \in BOOLEAN, NEW rate \in Rates
      PROVE  Done(HandleSpeechConfigReq(s, stream, rate, F), s)
    <2> DEFINE a == Assert(e, "speech_config_req", s.proto_state \in Enabled)
               p == PrivChangeTo(a, IF stream THEN "CONFIG_ACT_PEND"
                                    ELSE "CONFIG_DEACT_PEND")
               h == priv_handle_speech_config(p, stream, rate, F)
    <2>1. a \in LibStates /\ Modest(a, e)
        BY <1>2, <1>4
    <2> HIDE DEF a
    <2>2. p \in LibStates /\ Modest(p, a)
        BY <1>7, <2>1
    <2> HIDE DEF p
    <2>3. h \in LibStates /\ Sound(h, p)
        BY <2>2, SpeechConfigTyped, SpeechConfigSound
    <2> HIDE DEF h
    <2>4. Sound(h, e)
        BY <2>1, <2>2, <2>3, ModestChain, ProperChain, SoundChain
    <2>5. Done(Reported(s, h, "SPEECH_CONFIG_REQ"), s)
        BY <1>5, <2>3, <2>4
    <2> QED
        BY <2>5 DEF HandleSpeechConfigReq, e, a, p, h
<1>9. Done(HandleUplinkConfigNtf(s), s)
    <2> DEFINE a == Assert(e, "uplink_config_ntf", s.proto_state = "ACTIVE_DL")
               u == UplinkStarted(a)
    <2>1. a \in LibStates /\ Modest(a, e)
        BY <1>2, <1>4
    <2> HIDE DEF a
    <2>2. u \in LibStates /\ Modest(u, a)
        BY <1>6, <2>1
    <2> HIDE DEF u
    <2>3. Done(Reported(s, u, "UPLINK_CONFIG_NTF"), s)
        BY <1>5, <2>1, <2>2, ModestChain, ProperChain
    <2> QED
        BY <2>3 DEF HandleUplinkConfigNtf, e, a, u
<1>10. Done(HandleTimingConfigNtf(s), s)
    <2> DEFINE a == Assert(e, "timing_config_ntf", s.proto_state \in Active)
               u == UplinkStarted(a)
               t == IF u.priv_state = "TIMING" THEN PrivChangeTo(u, "IN_SYNC")
                    ELSE u
    <2>1. a \in LibStates /\ Modest(a, e)
        BY <1>2, <1>4
    <2> HIDE DEF a
    <2>2. u \in LibStates /\ Modest(u, a)
        BY <1>6, <2>1
    <2> HIDE DEF u
    <2>3. t \in LibStates /\ Modest(t, u)
        BY <1>7, <2>2, ModestChain
    <2> HIDE DEF t
    <2>4. Modest(t, e)
        BY <2>1, <2>2, <2>3, ModestChain
    <2>5. Done(Reported(s, t, "TIMING_CONFIG_NTF"), s)
        BY <1>5, <2>3, <2>4, ModestChain, ProperChain
    <2> QED
        BY <2>5 DEF HandleTimingConfigNtf, e, a, u, t
<1>11. ASSUME NEW ok \in BOOLEAN, NEW layout \in SampleLayouts
       PROVE  Done(HandleSsiConfigResp(s, ok, layout, F), s)
    <2> DEFINE a == Assert(e, "ssi_config_resp",
                           s.proto_state \in {"CONNECTED", "DISCONNECTED"})
               c == SsiConfigAnswered(a, ok, layout, F)
               h == priv_handle_ssi_config_resp(c, F)
    <2>1. a \in LibStates /\ Modest(a, e)
        BY <1>2, <1>4
    <2> HIDE DEF a
    <2>2. c \in LibStates
        BY <2>1, SsiConfigTyped
    <2>3. Sound(h, a)
        BY <2>1, SsiConfigSound
    <2> HIDE DEF c
    <2>4. h \in LibStates
        BY <2>2, SsiConfigTyped
    <2> HIDE DEF h
    <2>5. Sound(h, e)
        BY <2>1, <2>3, ModestChain, ProperChain, SoundChain
    <2>6. Done(Reported(s, h, "SSI_CONFIG_RESP"), s)
        BY <1>5, <2>4, <2>5
    <2> QED
        BY <2>6 DEF HandleSsiConfigResp, e, a, c, h
<1>12. Done(HandleResetConnReq(s, F), s)
    <2> DEFINE a == Assert(e, "reset_conn_req", s.proto_state # "DISCONNECTED")
               d == priv_reset_state_to_disconnected(a)
               w == Write(d, OutMsg("RESET_CONN_RESP"), F)
               h == priv_initialize_after_peer_reset(w, F)
    <2>1. a \in LibStates /\ Modest(a, e)
        BY <1>2, <1>4
    <2> HIDE DEF a
    <2>2. d \in LibStates /\ Modest(d, a)
        BY <2>1, ProtocolTyped, PartsModest
    <2> HIDE DEF d
    <2>3. w \in LibStates /\ Modest(w, d)
        <3>1. OutMsg("RESET_CONN_RESP") \in OutMsgs /\ ~Closes(OutMsg("RESET_CONN_RESP"))
            BY <1>2, Messages DEF Closes, OutMsg
        <3> QED
            BY <2>2, <3>1, ProtocolTyped, PartsModest
    <2> HIDE DEF w
    <2>4. h \in LibStates /\ Quieter(h, w) /\ Matched(h)
        BY <2>3, PeerResetSound
    <2> HIDE DEF h
    <2>5. Sound(h, e)
        BY <2>1, <2>2, <2>3, <2>4, QuieterChain DEF Sound
    <2>6. Done(Reported(s, h, "EVENT_RESET"), s)
        BY <1>5, <2>4, <2>5
    <2> QED
        BY <2>6 DEF HandleResetConnReq, e, a, d, w, h
<1>13. Done(HandleResetConnResp(s, F), s)
    <2> DEFINE a == Assert(e, "reset_conn_resp", s.proto_state # "DISCONNECTED")
               d == priv_reset_state_to_disconnected(a)
               on == cmtspeech_send_ssi_config_request(d, TRUE, F)
               c == IF s.priv_state = "RESET_BEFORE_CONNECT" THEN on ELSE d
               z == priv_release_wakeline(c, "RESET", F)
    <2>1. a \in LibStates /\ Modest(a, e)
        BY <1>2, <1>4
    <2> HIDE DEF a
    <2>2. d \in LibStates /\ Modest(d, a)
        BY <2>1, ProtocolTyped, PartsModest
    <2> HIDE DEF d
    <2>3. on \in LibStates /\ Modest(on, d)
        BY <2>2, RequestsTyped, RequestsModest
    <2> HIDE DEF on
    <2>4. c \in LibStates /\ Modest(c, d)
        BY <2>2, <2>3, ModestChain
    <2> HIDE DEF c
    <2>5. z \in LibStates /\ Modest(z, c)
        BY <1>2, <2>4, WakelineTyped, PartsModest
    <2> HIDE DEF z
    <2>6. Modest(z, e)
        BY <2>1, <2>2, <2>4, <2>5, ModestChain
    <2>7. Done(Reported(s, z, "EVENT_RESET"), s)
        BY <1>5, <2>5, <2>6, ModestChain, ProperChain
    <2> QED
        BY <2>7 DEF HandleResetConnResp, e, a, d, on, c, z
<1>14. Done(HandleDriverError(s, F), s)
    <2> DEFINE h == priv_initialize_after_peer_reset(e, F)
    <2>1. h \in LibStates /\ Quieter(h, e) /\ Matched(h)
        BY <1>1, PeerResetSound
    <2> HIDE DEF h
    <2>2. Done(Reported(s, h, "EVENT_RESET"), s)
        BY <1>5, <2>1, QuieterChain DEF Sound
    <2> QED
        BY <2>2 DEF HandleDriverError, e, h
<1>15. ASSUME NEW len \in Nat
       PROVE  /\ Discreet(HandleTestRampPing(s, len, F))
              /\ "CS_CONFIG_BUFS" \notin F =>
                        Done(HandleTestRampPing(s, len, F), s)
    <2> DEFINE a == Assert(e, "test_ramp_ping", s.proto_state = "DISCONNECTED")
               q == priv_acquire_wakeline(a, "TEST_RAMP_PING", F)
               w == Assert(q, "ping_acquire_wakeline", WakelineUp(s, F))
               c == RampConfigured(w, len, F)
               x == Write(c, OutMsg("TX_DATA_READY"), F)
               h == HandleTestRampPing(s, len, F)
    <2>1. a \in LibStates /\ Modest(a, e)
        BY <1>2, <1>4
    <2> HIDE DEF a
    <2>2. q \in LibStates /\ Modest(q, a)
        BY <1>2, <2>1, WakelineTyped, PartsModest
    <2> HIDE DEF q
    <2>3. w \in LibStates /\ Modest(w, q)
        BY <1>2, <2>2, AssertTyped, AssertModest
    <2> HIDE DEF w
    <2>4. /\ c \in LibStates /\ Quieter(c, w)
          /\ "CS_CONFIG_BUFS" \notin F => (Matched(w) => Matched(c))
        BY <2>3, RampConfiguredQuieter
    <2> HIDE DEF c
    <2>5. Modest(x, c)
        <3>1. OutMsg("TX_DATA_READY") \in OutMsgs /\ ~Closes(OutMsg("TX_DATA_READY"))
            BY <1>2, Messages DEF Closes, OutMsg
        <3> QED
            BY <2>4, <3>1, PartsModest
    <2> HIDE DEF x
    <2>6. h \in {c, x}
        BY Zenon DEF HandleTestRampPing, e, a, q, w, c, x
    <2> HIDE DEF h
    <2>7. Modest(w, e)
        BY <2>1, <2>2, <2>3, ModestChain
    <2>8. Quieter(c, e) /\ Quieter(x, e)
        BY <2>4, <2>5, <2>7, QuieterChain
    <2>9. Discreet(h)
        BY <1>3, <2>6, <2>8 DEF Quieter, Discreet
    <2>10. Matched(s) => Matched(w)
        BY <1>3, <2>7 DEF Modest, SameBuffers, Matched
    <2>11. Matched(c) => Matched(x)
        BY <2>5 DEF Modest, SameBuffers, Matched
    <2> QED
        BY <2>4, <2>6, <2>9, <2>10, <2>11 DEF Done, h
<1>16. Done(HandleRxData(s), s)
    <2>1. Modest(HandleRxData(s), e)
        BY <1>1 DEF Modest, Quieter, Mute, Calmer, SameBuffers, HandleRxData,
                    LibStates, e
    <2> QED
        BY <1>1, <2>1, ModestChain, ProperChain
<1> QED
    BY <1>8, <1>9, <1>10, <1>11, <1>12, <1>13, <1>14, <1>15, <1>16

\* The calls of the application.
LEMMA CallsDone ==
    ASSUME NEW s \in LibStates, NEW F
    PROVE  /\ \A on \in BOOLEAN :
                Done(cmtspeech_state_change_call_status(s, on, F), s)
           /\ Done(cmtspeech_state_change_error(s, F), s)
           /\ \A version \in {1, 2} :
                Done(cmtspeech_set_wb_preference(s, version), s)
           /\ Done(cmtspeech_send_timing_request(s, F), s)
           /\ \A len \in Nat :
                /\ Discreet(cmtspeech_test_data_ramp_req(s, len, F))
                /\ "CS_CONFIG_BUFS" \notin F =>
                        Done(cmtspeech_test_data_ramp_req(s, len, F), s)
           /\ \A i \in ULSlots :
                /\ Done(cmtspeech_ul_buffer_acquire(s, i), s)
                /\ Done(cmtspeech_ul_buffer_release(s, i, F), s)
           /\ \A i \in DLSlots :
                /\ Done(cmtspeech_dl_buffer_acquire(s, i), s)
                /\ Done(cmtspeech_dl_buffer_release(s, i, F), s)
<1> DEFINE e == Entered(s)
<1>1. e \in LibStates /\ \A t : Sound(t, e) => Done(t, s)
    BY EnteredDone
<1>2. /\ {"state_change_call_status", "test_data_ramp_req", "ul_buffer_release",
          "dl_buffer_acquire", "dl_buffer_release", "layout_change_released"}
            \subseteq Assertions
      /\ {"IN_SYNC", "SSI_CONFIG_PEND", "RESET_BEFORE_CONNECT"} \subseteq Privs
      /\ {"DISCONNECTED", "TEST_RAMP_PING_ACTIVE"} \subseteq Protos
      /\ "TEST_RAMP_PING" \in WakelineUsers /\ "TEST_RAMP_PING" \in OutTypes
    BY DEF Assertions, Privs, Protos, WakelineUsers, OutTypes
<1>3. SameBuffers(e, s) /\ Mute(e)
    BY PartsModest
<1> HIDE DEF e
<1>4. SameBuffers(CallInactive(e, F), e)
    <2> DEFINE a == Assert(e, "state_change_call_status",
                           e.proto_state = "CONNECTED")
               f == [a EXCEPT !.io_errors = TRUE]
               off == cmtspeech_send_ssi_config_request(e, FALSE, F)
               p == PrivChangeTo(e, "SSI_CONFIG_PEND")
    <2>1. a \in LibStates /\ Modest(a, e)
        BY <1>1, <1>2, AssertTyped, AssertModest
    <2> HIDE DEF a
    <2>2. SameBuffers(f, a)
        BY <2>1 DEF SameBuffers, LibStates
    <2> HIDE DEF f
    <2>3. SameBuffers(off, e)
        BY <1>1, RequestsModest
    <2>4. Modest(p, e)
        BY <1>1, <1>2, PartsModest
    <2> HIDE DEF off, p
    <2>5. CallInactive(e, F) \in {e, f, off, p}
        BY Zenon DEF CallInactive, f, a, off, p
    <2> QED
        BY <2>1, <2>2, <2>3, <2>4, <2>5 DEF Modest, SameBuffers
\* Nothing that starts or resumes a call closes the connection.
<1>5. Mute(CallActive(e, F)) /\ (Matched(e) => Matched(CallActive(e, F)))
    <2> DEFINE on == cmtspeech_send_ssi_config_request(e, TRUE, F)
               p == PrivChangeTo(e, "SSI_CONFIG_PEND")
               r == priv_send_reset(e, F)
               b == PrivChangeTo(r, "RESET_BEFORE_CONNECT")
               d == priv_reset_state_to_disconnected(e)
               again == cmtspeech_send_ssi_config_request(d, TRUE, F)
               c == CallActive(e, F)
    <2>1. Modest(on, e)
        BY <1>1, RequestsModest
    <2>2. Modest(p, e)
        BY <1>1, <1>2, PartsModest
    <2>3. r \in LibStates /\ Quieter(r, e) /\ Matched(r)
        BY <1>1, SendResetTyped, SendResetQuieter
    <2> HIDE DEF r
    <2>4. Modest(b, r)
        BY <1>2, <2>3, PartsModest
    <2>5. d \in LibStates /\ Modest(d, e)
        BY <1>1, ProtocolTyped, PartsModest
    <2> HIDE DEF d
    <2>6. Modest(again, e)
        BY <2>5, RequestsModest, ModestChain
    <2> HIDE DEF on, p, b, again
    <2>7. c \in {e, on, p, b, again}
        BY Zenon DEF CallActive, c, on, p, r, b, d, again
    <2> HIDE DEF c
    <2>8. Quieter(b, e) /\ Matched(b)
        BY <2>3, <2>4, QuieterChain DEF Modest, SameBuffers, Matched
    <2>9. CASE c = b
        BY <1>3, <2>8, <2>9 DEF Quieter, c
    <2>10. CASE c # b
        <3>1. Modest(c, e)
            BY <2>1, <2>2, <2>6, <2>7, <2>10, ModestChain
        <3> QED
            BY <1>3, <3>1 DEF Modest, Quieter, SameBuffers, Matched, c
    <2> QED
        BY <2>9, <2>10
<1>6. ASSUME NEW on \in BOOLEAN
      PROVE  Done(cmtspeech_state_change_call_status(s, on, F), s)
    <2> DEFINE c == IF on THEN CallActive(e, F) ELSE CallInactive(e, F)
               f == [c EXCEPT !.call_server_active = on]
    <2>1. (on => Mute(c)) /\ (Matched(e) => Matched(c))
        BY <1>4, <1>5 DEF SameBuffers, Matched
    <2>2. c \in LibStates
        BY <1>1, StatusTyped
    <2> HIDE DEF c
    <2>3. f.call_server_active = on /\ f.sent = c.sent /\ SameBuffers(f, c)
        BY <2>2 DEF SameBuffers, LibStates
    <2> HIDE DEF f
    <2>4. Discreet(f)
        BY <2>1, <2>3 DEF Discreet, Mute
    <2>5. Matched(s) => Matched(f)
        BY <1>3, <2>1, <2>3 DEF SameBuffers, Matched
    <2>6. cmtspeech_state_change_call_status(s, on, F) = f
        BY DEF cmtspeech_state_change_call_status, e, c, f
    <2> QED
        BY <2>4, <2>5, <2>6 DEF Done
<1>7. Done(cmtspeech_state_change_error(s, F), s)
    <2>1. Sound(priv_send_reset(e, F), e)
        BY <1>1, SendResetQuieter, QuieterChain DEF Sound
    <2> QED
        BY <1>1, <2>1 DEF cmtspeech_state_change_error, e
<1>8. ASSUME NEW version \in {1, 2}
      PROVE  Done(cmtspeech_set_wb_preference(s, version), s)
    <2> DEFINE f == [e EXCEPT !.conf_proto_version = version]
    <2>1. Modest(f, e)
        BY <1>1 DEF Modest, Quieter, Mute, Calmer, SameBuffers, LibStates
    <2> HIDE DEF f
    <2>2. Done(f, s) /\ Done(e, s)
        BY <1>1, <2>1, ModestChain, ProperChain
    <2> QED
        BY <2>2 DEF cmtspeech_set_wb_preference, e, f
<1>9. Done(cmtspeech_send_timing_request(s, F), s)
    BY <1>1, RequestsModest, ModestChain, ProperChain
       DEF cmtspeech_send_timing_request, e
<1>10. ASSUME NEW t \in LibStates PROVE Modest(RampRequested(t, F), t)
    <2> DEFINE a == Assert(t, "test_data_ramp_req",
                           t.proto_state = "DISCONNECTED")
               w == Write(a, OutMsg("TEST_RAMP_PING"), F)
               c == StateChangeTo(w, "TEST_RAMP_PING_ACTIVE", "IN_SYNC")
    <2>1. a \in LibStates /\ Modest(a, t)
        BY <1>2, AssertTyped, AssertModest
    <2> HIDE DEF a
    <2>2. w \in LibStates /\ Modest(w, a)
        <3>1. OutMsg("TEST_RAMP_PING") \in OutMsgs /\ ~Closes(OutMsg("TEST_RAMP_PING"))
            BY <1>2, Messages DEF Closes, OutMsg
        <3> QED
            BY <2>1, <3>1, ProtocolTyped, PartsModest
    <2> HIDE DEF w
    <2>3. Modest(c, w)
        BY <1>2, <2>2, PartsModest
    <2> HIDE DEF c
    <2>4. RampRequested(t, F) \in {a, w, c}
        BY Zenon DEF RampRequested, a, w, c
    <2> QED
        BY <2>1, <2>2, <2>3, <2>4, ModestChain
<1>11. ASSUME NEW len \in Nat
       PROVE  /\ Discreet(cmtspeech_test_data_ramp_req(s, len, F))
              /\ "CS_CONFIG_BUFS" \notin F =>
                        Done(cmtspeech_test_data_ramp_req(s, len, F), s)
    <2> DEFINE c == RampConfigured(e, len, F)
               w == priv_acquire_wakeline(c, "TEST_RAMP_PING", F)
               r == RampRequested(w, F)
               h == cmtspeech_test_data_ramp_req(s, len, F)
    <2>1. /\ c \in LibStates /\ Quieter(c, e)
          /\ "CS_CONFIG_BUFS" \notin F => (Matched(e) => Matched(c))
        BY <1>1, RampConfiguredQuieter
    <2> HIDE DEF c
    <2>2. w \in LibStates /\ Modest(w, c)
        BY <1>2, <2>1, WakelineTyped, PartsModest
    <2> HIDE DEF w
    <2>3. Modest(r, w)
        BY <1>10, <2>2
    <2> HIDE DEF r
    <2>4. h \in {c, w, r}
        BY Zenon DEF cmtspeech_test_data_ramp_req, e, c, w, r
    <2> HIDE DEF h
    <2>5. Modest(h, c)
        BY <2>2, <2>3, <2>4, ModestChain
    <2>6. Discreet(h)
        BY <1>3, <2>1, <2>5 DEF Modest, Quieter, Discreet
    <2>7. (Matched(s) => Matched(e)) /\ (Matched(c) => Matched(h))
        BY <1>3, <2>5 DEF Modest, SameBuffers, Matched
    <2> QED
        BY <2>1, <2>6, <2>7 DEF Done, h
<1>12. ASSUME NEW i \in ULSlots
       PROVE  /\ Done(cmtspeech_ul_buffer_acquire(s, i), s)
              /\ Done(cmtspeech_ul_buffer_release(s, i, F), s)
    <2> DEFINE q == cmtspeech_ul_buffer_acquire(s, i)
               b == Assert(e, "ul_buffer_release", s.proto_state = "ACTIVE_DLUL")
               u == [b EXCEPT !.ul_locked = b.ul_locked \ {i}]
               a == Assert(u, "layout_change_released",
                           i \in s.ul_locked /\ s.ul_desc = 0)
               r == LayoutChangeReleased(a, F)
               z == Assert(r, "ul_buffer_release", r.ul_desc > 0)
    <2>1. Modest(q, e)
        BY <1>1 DEF Modest, Quieter, Mute, Calmer, SameBuffers,
                    cmtspeech_ul_buffer_acquire, LibStates, e
    <2> HIDE DEF q
    <2>2. b \in LibStates /\ Modest(b, e)
        BY <1>1, <1>2, AssertTyped, AssertModest
    <2> HIDE DEF b
    <2>3. u \in LibStates
        <3>1. b.ul_locked \ {i} \in SUBSET ULSlots
            BY <2>2, Fields
        <3> QED
            BY <2>2, <3>1, Zenon DEF LibStates
    <2>4. Modest(u, b)
        BY <2>2 DEF Modest, Quieter, Mute, Calmer, SameBuffers, LibStates
    <2> HIDE DEF u
    <2>5. a \in LibStates /\ Modest(a, u)
        BY <1>2, <2>3, AssertTyped, AssertModest
    <2> HIDE DEF a
    <2>6. r \in LibStates /\ Sound(r, a)
        BY <2>5, SpeechConfigTyped, SpeechConfigSound
    <2> HIDE DEF r
    <2>7. Modest(z, r)
        BY <2>6, AssertModest
    <2> HIDE DEF z
    <2>8. Modest(u, e) /\ Modest(a, e)
        BY <2>2, <2>4, <2>5, ModestChain
    <2>9. Sound(z, e) /\ Sound(u, e) /\ Sound(q, e)
        BY <2>1, <2>6, <2>7, <2>8, ModestChain, ProperChain, SoundChain
    <2>10. cmtspeech_ul_buffer_release(s, i, F) \in {u, z}
        BY Zenon DEF cmtspeech_ul_buffer_release, e, b, u, a, r, z
    <2> QED
        BY <1>1, <2>9, <2>10 DEF q
<1>13. ASSUME NEW i \in DLSlots
       PROVE  /\ Done(cmtspeech_dl_buffer_acquire(s, i), s)
              /\ Done(cmtspeech_dl_buffer_release(s, i, F), s)
    <2> DEFINE l == [e EXCEPT !.dl_locked = e.dl_locked \cup {i}]
               q == Assert(l, "dl_buffer_acquire", s.dl_desc = s.slot_size)
               d == StateChangeTo(q, "DISCONNECTED", "IN_SYNC")
               u == [e EXCEPT !.dl_locked = e.dl_locked \ {i}]
               a == Assert(u, "layout_change_released", s.dl_desc = 0)
               r == LayoutChangeReleased(a, F)
               z == Assert(r, "dl_buffer_release", r.dl_desc > 0)
    <2>1. l \in LibStates /\ u \in LibStates
        <3>1. /\ e.dl_locked \cup {i} \in SUBSET DLSlots
              /\ e.dl_locked \ {i} \in SUBSET DLSlots
            BY <1>1, Fields
        <3> QED
            BY <1>1, <3>1, Zenon DEF LibStates
    <2>2. Modest(l, e) /\ Modest(u, e)
        BY <1>1 DEF Modest, Quieter, Mute, Calmer, SameBuffers, LibStates
    <2> HIDE DEF l, u
    <2>3. /\ q \in LibStates /\ Modest(q, l)
          /\ a \in LibStates /\ Modest(a, u)
        BY <1>2, <2>1, AssertTyped, AssertModest
    <2> HIDE DEF q, a
    <2>4. Modest(d, q)
        BY <1>2, <2>3, PartsModest
    <2> HIDE DEF d
    <2>5. r \in LibStates /\ Sound(r, a)
        BY <2>3, SpeechConfigTyped, SpeechConfigSound
    <2> HIDE DEF r
    <2>6. Modest(z, r)
        BY <2>5, AssertModest
    <2> HIDE DEF z
    <2>7. Modest(q, e) /\ Modest(d, e) /\ Modest(a, e) /\ Modest(e, e)
        BY <2>2, <2>3, <2>4, ModestChain
    <2>8. Sound(z, e)
        BY <2>5, <2>6, <2>7, ModestChain, ProperChain, SoundChain
    <2>9. Sound(q, e) /\ Sound(d, e) /\ Sound(u, e) /\ Sound(e, e)
        BY <2>2, <2>7, ModestChain, ProperChain
    <2>10. /\ cmtspeech_dl_buffer_acquire(s, i) \in {q, d}
           /\ cmtspeech_dl_buffer_release(s, i, F) \in {e, u, z}
        BY Zenon DEF cmtspeech_dl_buffer_acquire, cmtspeech_dl_buffer_release,
                     e, l, q, d, u, a, r, z
    <2> QED
        BY <1>1, <2>8, <2>9, <2>10
<1> QED
    BY <1>6, <1>7, <1>8, <1>9, <1>11, <1>12, <1>13
=============================================================================
