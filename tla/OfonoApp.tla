------------------------------ MODULE OfonoApp ------------------------------
(***************************************************************************)
(* The sample application cmtspeech_ofono_test on the link of CallLink: it *)
(* turns the events of the library into state transitions and starts and   *)
(* stops its audio source and sink by them.  Buffers are given back in the *)
(* handler that acquired them, so the application never holds one between  *)
(* two steps.  It has one thread: an event is read, and the audio devices  *)
(* are switched, in the round of the main loop that took the message.      *)
(***************************************************************************)
EXTENDS CallLink

VARIABLE app    \* the audio devices it has open, and what it has been told

appVars == <<lib, held, status, modem, toModem, toLib, call, used, app>>

AppInit ==
    /\ Init
    /\ app = [source |-> FALSE, sink |-> FALSE, ul_active |-> FALSE,
              dl_active |-> FALSE, exited |-> FALSE]

-----------------------------------------------------------------------------

Moved(e, from, to) == e.prev \in from /\ e.state = to

\* Faulty variant: the uplink's stop is taken for an update of parameters.
UplinkStopForgotten(e) ==
    CASE Moved(e, {"DISCONNECTED"}, "CONNECTED") -> "TR_1_CONNECTED"
      [] Moved(e, {"CONNECTED"}, "DISCONNECTED") -> "TR_2_DISCONNECTED"
      [] Moved(e, {"CONNECTED"}, "ACTIVE_DL")    -> "TR_3_DL_START"
      [] Moved(e, Active, "CONNECTED")           -> "TR_4_DLUL_STOP"
      [] Moved(e, Active, "ACTIVE_DL")           -> "TR_5_PARAM_UPDATE"
      [] Moved(e, {"ACTIVE_DL"}, "ACTIVE_DLUL")  -> "TR_12_UL_START"
      [] OTHER                                   -> "TR_6_TIMING_UPDATE"

\* Transitions that are known by the type of the message first, and by the
\* states only when it is neither of the two types.
OtherTransition(e) ==
    CASE e.type = "TIMING_CONFIG_NTF" -> "TR_6_TIMING_UPDATE"
      [] e.type = "EVENT_RESET"       -> "TR_10_RESET"
      [] e.type \notin {"TIMING_CONFIG_NTF", "EVENT_RESET"} ->
            IF Moved(e, {"ACTIVE_DLUL"}, "ACTIVE_DL") THEN "TR_11_UL_STOP"
            ELSE IF Moved(e, {"ACTIVE_DL"}, "ACTIVE_DLUL") THEN "TR_12_UL_START"
            ELSE "TR_INVALID"

cmtspeech_event_to_state_transition(e) ==
    CASE Moved(e, {"DISCONNECTED"}, "CONNECTED") -> "TR_1_CONNECTED"
      [] Moved(e, {"CONNECTED"}, "DISCONNECTED") -> "TR_2_DISCONNECTED"
      [] Moved(e, {"CONNECTED"}, "ACTIVE_DL")    -> "TR_3_DL_START"
      [] Moved(e, Active, "CONNECTED")           -> "TR_4_DLUL_STOP"
      [] Moved(e, {"ACTIVE_DL"}, "ACTIVE_DL")    -> "TR_5_PARAM_UPDATE"
      [] OTHER                                   -> OtherTransition(e)

-----------------------------------------------------------------------------

\* Faulty variant: the end of the streams is left to TR_11, which is only
\* reported at a handover.
SourceOnUplink(a, t) ==
    CASE t = "TR_3_DL_START" ->
            [a EXCEPT !.dl_active = TRUE, !.sink = TRUE]
      [] t = "TR_12_UL_START" ->
            [a EXCEPT !.ul_active = TRUE, !.source = TRUE]
      [] t = "TR_11_UL_STOP" ->
            [a EXCEPT !.ul_active = FALSE, !.source = FALSE]
      [] OTHER -> a

\* Faulty variant: the uplink and the downlink stop one after the other.
SinkLeftOpen(a, t) ==
    IF t = "TR_4_DLUL_STOP"
    THEN [a EXCEPT !.source = FALSE, !.ul_active = FALSE]
    ELSE IF t = "TR_12_UL_START"
    THEN [a EXCEPT !.ul_active = TRUE, !.source = @ \/ a.dl_active]
    ELSE SourceOnUplink(a, t)

\* The state of the application after test_handle_cmtspeech_control; starting
\* a device that is open opens it once more.
test_handle_cmtspeech_control(a, t) ==
    CASE t = "TR_3_DL_START" ->
            [a EXCEPT !.dl_active = TRUE, !.sink = TRUE,
                      !.source = @ \/ a.ul_active]
      [] t = "TR_4_DLUL_STOP" ->
            [a EXCEPT !.source = FALSE, !.sink = FALSE,
                      !.dl_active = FALSE, !.ul_active = FALSE]
      [] t = "TR_11_UL_STOP" ->
            [a EXCEPT !.ul_active = FALSE, !.source = FALSE]
      [] t = "TR_12_UL_START" ->
            [a EXCEPT !.ul_active = TRUE, !.source = @ \/ a.dl_active]
      [] OTHER -> a

\* The check at the head of test_handle_cmtspeech_data_upload: exit(1) when
\* the source is not open exactly while the uplink is.
Uploaded(a, proto) ==
    [a EXCEPT !.exited = @ \/ (a.source # (proto = "ACTIVE_DLUL"))]

\* test_handle_cmtspeech_data_download: exit(1) when there is a frame and no sink.
Downloaded(a, s) ==
    [a EXCEPT !.exited = @ \/ (/\ s.proto_state \in Active
                               /\ DLAvailable(s) # {}
                               /\ ~a.sink)]

\* One round of test_mainloop that takes a control message
AppControl ==
    /\ ~app.exited
    /\ CheckPending
    /\ LET t == cmtspeech_event_to_state_transition(Handled(Head(toLib)).event)
       IN  app' = Uploaded(test_handle_cmtspeech_control(app, t), lib'.proto_state)

\* One that takes a speech frame.  With its source open the application tries
\* an upload at the start of every round.
AppData ==
    /\ ~app.exited
    /\ DataReceived
    /\ app' = LET u == IF app.source THEN Uploaded(app, lib.proto_state) ELSE app
              IN  Downloaded(u, lib')

\* One that takes a signal of the call server
AppRelay ==
    /\ ~app.exited
    /\ Relay
    /\ app' = IF app.source THEN Uploaded(app, lib'.proto_state) ELSE app

Network ==
    /\ \/ ModemReads \/ StartStream \/ ChangeStream \/ StopStream \/ ModemReset
       \/ CallChanges
    /\ UNCHANGED app

AppNext == AppControl \/ AppData \/ AppRelay \/ Network

AppSpec == AppInit /\ [][AppNext]_appVars

\* The main loop polls both descriptors, and the modem is alive.
AppFairSpec ==
    /\ AppSpec
    /\ WF_appVars(AppControl)
    /\ WF_appVars(AppRelay)
    /\ WF_appVars(ModemReads /\ UNCHANGED app)
    /\ WF_appVars(StartStream /\ UNCHANGED app)
    /\ WF_appVars(StopStream /\ UNCHANGED app)

-----------------------------------------------------------------------------

\* cmtspeech_event_to_state_transition tells the application all it needs:
\* one that only looks at the transitions has its audio devices open exactly
\* while the library has the streams active.
AudioFollowsStream ==
    /\ app.sink <=> lib.proto_state \in Active
    /\ app.source <=> lib.proto_state = "ACTIVE_DLUL"

\* test_handle_cmtspeech_data_upload and _download: the checks after which
\* the application exits never fail.
KeepsRunning == ~app.exited

\* test_handle_cmtspeech_control: a call that lasts is heard at both ends.
CallIsHeard == <>[]call => <>[](app.sink /\ app.source /\ ~app.exited)

\* When the calls are over, the audio devices are closed.
DevicesClosed == <>[]~call => <>[](~app.sink /\ ~app.source)
=============================================================================
