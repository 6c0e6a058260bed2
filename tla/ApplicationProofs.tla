------------------------- MODULE ApplicationProofs -------------------------
(***************************************************************************)
(* Two applications on the link of CallLink, for every number of calls and *)
(* handovers, every set of buffer slots and every sample rate: the sample  *)
(* application, whose audio devices follow the stream, and a client that   *)
(* sends speech, whose frames go where they belong and whose buffers are   *)
(* back before the connection ends.                                        *)
(*                                                                         *)
(* Both specifications only take steps of the link, so that its invariant  *)
(* (LinkInv of CallLinkProofs) holds in them too.                          *)
(***************************************************************************)
EXTENDS OfonoApp, Uplink, CallLinkProofs

-----------------------------------------------------------------------------
(* The sample application                                                  *)

\* Its rounds are steps of the link.
LEMMA AppIsLink == AppSpec => Spec
<1>1. AppInit => Init
    BY DEF AppInit
<1>2. [AppNext]_appVars => [Next]_vars
    BY DEF AppNext, appVars, vars, AppControl, AppData, AppRelay, Network, Next
<1> QED
    BY <1>1, <1>2, PTL DEF AppSpec, Spec

\* Nothing has gone wrong on the link, and the application holds no buffer.
Calm == Unlocked(lib) /\ ~modem.resetting /\ lib.proto_state # "INVALID"

\* The uplink has started by the time the modem's timing arrives, which is the
\* only start the application can see: the event of a TIMING_CONFIG_NTF is
\* taken for an update of the timing, whatever the states.
TimingFollows ==
    \A k \in 1 .. Len(toLib) :
        toLib[k] = TM => IF k = 1 THEN lib.proto_state = "ACTIVE_DLUL"
                         ELSE toLib[k - 1] = UP

\* The messages of the modem on a link without resets.
Orderly ==
    /\ \A k \in 1 .. Len(toLib) : toLib[k].type # "RESET_CONN_REQ"
    /\ TimingFollows

\* The event of a call names the states before and after it.
LEMMA EventNames ==
    ASSUME NEW b, NEW x, NEW type, NEW t \in LibStates, t = Reported(b, x, type)
    PROVE  /\ t.event.type = type /\ t.event.prev = b.proto_state
           /\ t.event.state = t.proto_state
<1> DEFINE v == [type |-> type, prev |-> b.proto_state, state |-> x.proto_state]
<1>1. t = [x EXCEPT !.event = v]
    BY DEF Reported
<1> HIDE DEF v
<1>2. "event" \in DOMAIN x /\ "proto_state" \in DOMAIN x
    BY <1>1 DEF LibStates
<1>3. t.event = v /\ t.proto_state = x.proto_state
    BY <1>1, <1>2
<1> QED
    BY <1>3 DEF v

\* The event of a message.
LEMMA EventReported ==
    ASSUME TypeOK, NEW m \in ModemMsgs
    PROVE  LET t == Handled(m)
           IN  /\ t.event.prev = lib.proto_state /\ t.event.state = t.proto_state
               /\ m.type \notin {"RESET_CONN_REQ", "RESET_CONN_RESP"} =>
                    t.event.type = m.type
<1> DEFINE t == Handled(m)
           Names(type) == /\ t.event.type = type /\ t.event.prev = lib.proto_state
                          /\ t.event.state = t.proto_state
<1>1. t \in LibStates
    BY HandledTyped DEF TypeOK
<1>2. /\ m.type \in {"SPEECH_CONFIG_REQ", "UPLINK_CONFIG_NTF", "TIMING_CONFIG_NTF",
                     "SSI_CONFIG_RESP", "RESET_CONN_REQ", "RESET_CONN_RESP"}
    BY DEF ModemMsgs
<1>3. CASE m.type = "SPEECH_CONFIG_REQ"
    <2>1. \E x : t = Reported(lib, x, "SPEECH_CONFIG_REQ")
        BY <1>3, HandledIs DEF HandleSpeechConfigReq
    <2>2. Names("SPEECH_CONFIG_REQ")
        BY <1>1, <2>1, EventNames
    <2> QED
        BY <1>3, <2>2
<1>4. CASE m.type = "UPLINK_CONFIG_NTF"
    <2>1. \E x : t = Reported(lib, x, "UPLINK_CONFIG_NTF")
        BY <1>4, HandledIs DEF HandleUplinkConfigNtf
    <2>2. Names("UPLINK_CONFIG_NTF")
        BY <1>1, <2>1, EventNames
    <2> QED
        BY <1>4, <2>2
<1>5. CASE m.type = "TIMING_CONFIG_NTF"
    <2>1. \E x : t = Reported(lib, x, "TIMING_CONFIG_NTF")
        BY <1>5, HandledIs DEF HandleTimingConfigNtf
    <2>2. Names("TIMING_CONFIG_NTF")
        BY <1>1, <2>1, EventNames
    <2> QED
        BY <1>5, <2>2
<1>6. CASE m.type = "SSI_CONFIG_RESP"
    <2>1. \E x : t = Reported(lib, x, "SSI_CONFIG_RESP")
        BY <1>6, HandledIs DEF HandleSsiConfigResp
    <2>2. Names("SSI_CONFIG_RESP")
        BY <1>1, <2>1, EventNames
    <2> QED
        BY <1>6, <2>2
<1>7. CASE m.type \in {"RESET_CONN_REQ", "RESET_CONN_RESP"}
    <2>1. \E x : t = Reported(lib, x, "EVENT_RESET")
        BY <1>7, HandledIs DEF HandleResetConnReq, HandleResetConnResp
    <2>2. Names("EVENT_RESET")
        BY <1>1, <2>1, EventNames
    <2> QED
        BY <1>7, <2>2
<1> QED
    BY <1>2, <1>3, <1>4, <1>5, <1>6, <1>7

\* What the library may be told next, and the state it is told it in.
LEMMA NextMessage ==
    ASSUME TypeOK, Phases, Calm, Orderly, toLib # <<>>
    PROVE  \/ /\ toLib[1] = SR /\ lib.slot_size = 0
              /\ \/ In(lib, "DISCONNECTED", "CONNECTING")
                 \/ In(lib, "CONNECTED", "DISCONNECTING")
           \/ toLib[1] \in {UP, TM} /\ Running(lib)
           \/ \E r \in StreamRates :
                toLib[1] = SpeechConfig(r) /\ (Running(lib) \/ lib.proto_state = "CONNECTED")
           \/ toLib[1] = Off /\ Running(lib)
<1>1. Len(toLib) \in Nat \ {0} /\ 1 \in 1 .. Len(toLib)
    <2>1. toLib \in Seq(ModemMsgs)
        BY DEF TypeOK
    <2> QED
        BY <2>1, QueueSteps
<1>2. ~Resetting /\ ~Failed
    BY DEF Calm, Resetting, Reborn, Failed
<1>3. CASE Down
    BY <1>1, <1>3 DEF Down, Orderly
<1>4. CASE Calling
    BY <1>4 DEF Calling, Queues
<1>5. CASE Connecting
    <2>1. \A r : <<SR>>[1] = SR /\ <<SR, SpeechConfig(r)>>[1] = SR
                 /\ <<SpeechConfig(r)>>[1] = SpeechConfig(r)
        OBVIOUS
    <2> QED
        BY <1>5, <2>1 DEF Connecting, Queues, Fresh, In
<1>6. CASE Starting
    BY <1>6 DEF Starting, Queues
<1>7. CASE Streaming
    <2>1. /\ Running(lib) /\ modem.asked \in StreamRates \cup {"none"}
          /\ toLib[1] \in {UP, TM, SpeechConfig(modem.asked)}
          /\ modem.asked = "none" => ~AskedInLink
        BY <1>1, <1>7 DEF Streaming
    <2>2. toLib[1] = SpeechConfig(modem.asked) => AskedInLink
        BY <1>1 DEF SpeechConfig, AskedInLink
    <2> QED
        BY <2>1, <2>2
<1>8. CASE Ending
    <2>1. <<Off>>[1] = Off
        OBVIOUS
    <2> QED
        BY <1>8, <2>1 DEF Ending, Queues
<1>9. CASE Closing
    <2>1. <<SR>>[1] = SR
        OBVIOUS
    <2> QED
        BY <1>9, <2>1 DEF Closing, Queues, Fresh, In
<1> QED
    BY <1>2, <1>3, <1>4, <1>5, <1>6, <1>7, <1>8, <1>9 DEF Phases

\* The changes of the protocol state an event can report while all is calm.
Reportable(e) ==
    \/ /\ e.type = "SSI_CONFIG_RESP"
       /\ \/ e.prev = "DISCONNECTED" /\ e.state = "CONNECTED"
          \/ e.prev = "CONNECTED" /\ e.state = "DISCONNECTED"
    \/ e.type = "UPLINK_CONFIG_NTF" /\ e.prev \in Active /\ e.state = "ACTIVE_DLUL"
    \/ /\ e.type = "TIMING_CONFIG_NTF"
       /\ e.prev = "ACTIVE_DLUL" /\ e.state = "ACTIVE_DLUL"
    \/ /\ e.type = "SPEECH_CONFIG_REQ"
       /\ \/ e.prev \in Enabled /\ e.state = "ACTIVE_DL"
          \/ e.prev \in Active /\ e.state = "CONNECTED"

\* A report tells the application the state it had and the state it has.
\* UP alone comes with an active stream.
LEMMA Told ==
    ASSUME LinkAssumption, TypeOK, Phases, Calm, Orderly, CheckPending
    PROVE  LET e == Handled(Head(toLib)).event
           IN  /\ Reportable(e)
               /\ e.prev = lib.proto_state /\ e.state = lib'.proto_state
               /\ Unlocked(lib')
               /\ toLib[1] = UP => lib'.proto_state = "ACTIVE_DLUL"
<1> DEFINE t == Handled(toLib[1])
           e == t.event
<1>1. /\ Len(toLib) \in Nat \ {0} /\ toLib[1] \in ModemMsgs /\ t \in LibStates
      /\ Steps(t)
    BY Checked
<1>2. toLib # <<>> /\ Head(toLib) = toLib[1] /\ lib \in LibStates
    <2>1. toLib \in Seq(ModemMsgs) /\ lib \in LibStates
        BY DEF TypeOK
    <2> QED
        BY <1>1, <2>1, QueueSteps
<1>3. /\ e.prev = lib.proto_state /\ e.state = t.proto_state
      /\ toLib[1].type \notin {"RESET_CONN_REQ", "RESET_CONN_RESP"} =>
            e.type = toLib[1].type
    BY <1>1, EventReported
<1>4. /\ lib'.proto_state = t.proto_state
      /\ lib'.ul_locked = t.ul_locked /\ lib'.dl_locked = t.dl_locked
    BY <1>1, Returned
<1>5. Unlocked(lib)
    BY DEF Calm
<1> HIDE DEF t, e
<1>6. CASE /\ toLib[1] = SR /\ lib.slot_size = 0
           /\ \/ In(lib, "DISCONNECTED", "CONNECTING")
              \/ In(lib, "CONNECTED", "DISCONNECTING")
    <2>1. toLib[1].type = "SSI_CONFIG_RESP"
        BY <1>6, MessageIs
    <2>2. /\ SameSlots(t, lib)
          /\ lib.priv_state = "CONNECTING" => t.proto_state = "CONNECTED"
          /\ lib.priv_state = "DISCONNECTING" => t.proto_state = "DISCONNECTED"
        BY <1>6, <2>1, CheckedSsiConfig DEF t, Control
    <2>3. Reportable(e)
        BY <1>3, <1>6, <2>1, <2>2 DEF Reportable, In
    <2>4. toLib[1] # UP
        BY <2>1, MessageIs
    <2> QED
        BY <1>2, <1>3, <1>4, <1>5, <2>2, <2>3, <2>4 DEF SameSlots, Unlocked, e, t
<1>7. CASE toLib[1] = UP /\ Running(lib)
    <2>1. t = HandleUplinkConfigNtf(lib) /\ toLib[1].type = "UPLINK_CONFIG_NTF"
        BY <1>7, HandledIs, MessageIs DEF t
    <2>2. /\ SameSlots(t, lib)
          /\ lib.proto_state = "ACTIVE_DL" => t.proto_state = "ACTIVE_DLUL"
          /\ lib.proto_state # "ACTIVE_DL" => t.proto_state = lib.proto_state
        BY <1>2, <2>1, NotificationEffects DEF SameControl, Control
    <2>3. lib.proto_state \in Active /\ t.proto_state = "ACTIVE_DLUL"
        BY <1>7, <2>2 DEF Running, Active
    <2>4. Reportable(e)
        BY <1>3, <2>1, <2>3 DEF Reportable
    <2> QED
        BY <1>2, <1>3, <1>4, <1>5, <2>2, <2>3, <2>4 DEF SameSlots, Unlocked, e, t
<1>8. CASE toLib[1] = TM /\ Running(lib)
    <2>1. t = HandleTimingConfigNtf(lib) /\ toLib[1].type = "TIMING_CONFIG_NTF"
        BY <1>8, HandledIs, MessageIs DEF t
    <2>2. lib.proto_state = "ACTIVE_DLUL"
        BY <1>1, <1>8 DEF Orderly, TimingFollows
    <2>3. SameSlots(t, lib) /\ t.proto_state = lib.proto_state
        BY <1>2, <2>1, <2>2, NotificationEffects DEF Control
    <2>4. Reportable(e)
        BY <1>3, <2>1, <2>2, <2>3 DEF Reportable
    <2>5. toLib[1] # UP
        BY <2>1, MessageIs
    <2> QED
        BY <1>2, <1>3, <1>4, <1>5, <2>3, <2>4, <2>5 DEF SameSlots, Unlocked, e, t
<1>9. ASSUME NEW r \in StreamRates, toLib[1] = SpeechConfig(r),
             Running(lib) \/ lib.proto_state = "CONNECTED"
      PROVE  Reportable(e) /\ Unlocked(t) /\ toLib[1] # UP
    <2>1. r \in Streams /\ r # "off" /\ toLib[1].type = "SPEECH_CONFIG_REQ"
        BY <1>9, MessageIs DEF Streams, LinkAssumption
    <2>2. Replied(t, lib.proto_state, "CONFIG_ACT_PEND", lib.call_server_active,
                  SlotSize(r))
        BY <1>5, <1>9, <2>1, CheckedStream DEF t
    <2>3. t.proto_state = "ACTIVE_DL" /\ Unlocked(t)
        BY <1>9, <2>2 DEF Replied, Control, Fresh, Unlocked, Running, Active, ConfigPending
    <2>4. lib.proto_state \in Enabled
        BY <1>9 DEF Running, Enabled
    <2> QED
        BY <1>3, <2>1, <2>3, <2>4, MessageIs DEF Reportable
<1>10. CASE toLib[1] = Off /\ Running(lib)
    <2>1. "off" \in Streams /\ Off = SpeechConfig("off")
          /\ toLib[1].type = "SPEECH_CONFIG_REQ"
        BY <1>10, MessageIs DEF Streams, Off
    <2>2. Replied(t, lib.proto_state, "CONFIG_DEACT_PEND", lib.call_server_active, 0)
        BY <1>5, <1>10, <2>1, CheckedStream DEF t
    <2>3. lib.proto_state \in Active
        BY <1>10 DEF Running
    <2>4. t.proto_state = "CONNECTED" /\ Unlocked(t)
        BY <2>2, <2>3 DEF Replied, Control, Fresh, Unlocked
    <2>5. Reportable(e) /\ toLib[1] # UP
        BY <1>3, <2>1, <2>3, <2>4, MessageIs DEF Reportable
    <2> QED
        BY <1>2, <1>3, <1>4, <2>4, <2>5 DEF Unlocked, e, t
<1>11. ASSUME NEW r \in StreamRates, toLib[1] = SpeechConfig(r),
              Running(lib) \/ lib.proto_state = "CONNECTED"
       PROVE  /\ Reportable(e)
              /\ e.prev = lib.proto_state /\ e.state = lib'.proto_state
              /\ Unlocked(lib') /\ toLib[1] # UP
    BY <1>3, <1>4, <1>9, <1>11 DEF Unlocked
<1>12. e = Handled(Head(toLib)).event
    BY <1>2 DEF e, t
<1>13. CASE \E r \in StreamRates :
                toLib[1] = SpeechConfig(r) /\ (Running(lib) \/ lib.proto_state = "CONNECTED")
    BY <1>11, <1>12, <1>13
<1> QED
    BY <1>2, <1>6, <1>7, <1>8, <1>10, <1>13, NextMessage

Apps == [source : BOOLEAN, sink : BOOLEAN, ul_active : BOOLEAN,
         dl_active : BOOLEAN, exited : BOOLEAN]

\* The application as it should be when the library is in this state.
InTune(a, proto) ==
    /\ a \in Apps /\ ~a.exited
    /\ a.sink <=> proto \in Active
    /\ a.dl_active <=> proto \in Active
    /\ a.source <=> proto = "ACTIVE_DLUL"
    /\ a.ul_active <=> proto = "ACTIVE_DLUL"

\* The devices are switched as the transition says.
LEMMA DevicesSwitched ==
    ASSUME NEW a, NEW tr, NEW p, NEW q, InTune(a, p),
           \/ p \notin Active /\ q \notin Active
              /\ tr \in {"TR_1_CONNECTED", "TR_2_DISCONNECTED"}
           \/ p \notin Active /\ q = "ACTIVE_DL" /\ tr = "TR_3_DL_START"
           \/ q \notin Active /\ tr = "TR_4_DLUL_STOP"
           \/ p = "ACTIVE_DL" /\ q = "ACTIVE_DL" /\ tr = "TR_5_PARAM_UPDATE"
           \/ p = "ACTIVE_DLUL" /\ q = "ACTIVE_DL" /\ tr = "TR_11_UL_STOP"
           \/ p = "ACTIVE_DL" /\ q = "ACTIVE_DLUL" /\ tr = "TR_12_UL_START"
           \/ p = "ACTIVE_DLUL" /\ q = "ACTIVE_DLUL"
              /\ tr \in {"TR_INVALID", "TR_6_TIMING_UPDATE"}
    PROVE  InTune(test_handle_cmtspeech_control(a, tr), q)
<1> DEFINE b == test_handle_cmtspeech_control(a, tr)
<1>1. a \in Apps
    BY DEF InTune
<1>2. CASE tr = "TR_3_DL_START"
    <2> DEFINE x == a.source \/ a.ul_active
    <2>1. b = [a EXCEPT !.dl_active = TRUE, !.sink = TRUE, !.source = x]
        BY <1>2 DEF test_handle_cmtspeech_control
    <2>2. x = FALSE /\ p \notin Active /\ q = "ACTIVE_DL"
        BY <1>2 DEF InTune, Active
    <2> HIDE DEF b, x
    <2> QED
        BY <1>1, <2>1, <2>2 DEF InTune, Apps, Active, b
<1>3. CASE tr = "TR_12_UL_START"
    <2> DEFINE x == a.source \/ a.dl_active
    <2>1. b = [a EXCEPT !.ul_active = TRUE, !.source = x]
        BY <1>3 DEF test_handle_cmtspeech_control
    <2>2. x = TRUE /\ p = "ACTIVE_DL" /\ q = "ACTIVE_DLUL"
        BY <1>3 DEF InTune, Active
    <2> HIDE DEF b, x
    <2> QED
        BY <1>1, <2>1, <2>2 DEF InTune, Apps, Active, b
<1>4. CASE tr = "TR_4_DLUL_STOP"
    <2>1. b = [a EXCEPT !.source = FALSE, !.sink = FALSE,
                        !.dl_active = FALSE, !.ul_active = FALSE]
        BY <1>4 DEF test_handle_cmtspeech_control
    <2>2. q \notin Active
        BY <1>4
    <2> HIDE DEF b
    <2> QED
        BY <1>1, <2>1, <2>2 DEF InTune, Apps, Active, b
<1>5. CASE tr = "TR_11_UL_STOP"
    <2>1. b = [a EXCEPT !.ul_active = FALSE, !.source = FALSE]
        BY <1>5 DEF test_handle_cmtspeech_control
    <2>2. p = "ACTIVE_DLUL" /\ q = "ACTIVE_DL"
        BY <1>5
    <2> HIDE DEF b
    <2> QED
        BY <1>1, <2>1, <2>2 DEF InTune, Apps, Active, b
<1>6. CASE tr \notin {"TR_3_DL_START", "TR_4_DLUL_STOP", "TR_11_UL_STOP",
                     "TR_12_UL_START"}
    <2>1. b = a
        BY <1>6 DEF test_handle_cmtspeech_control
    <2>2. p = q \/ (p \notin Active /\ q \notin Active)
        BY <1>6
    <2> HIDE DEF b
    <2> QED
        BY <1>1, <2>1, <2>2 DEF InTune, Active, b
<1> QED
    BY <1>2, <1>3, <1>4, <1>5, <1>6

\* The check at the start of an upload finds nothing wrong.
LEMMA UploadGoesOn ==
    ASSUME NEW b, NEW proto, InTune(b, proto)
    PROVE  InTune(Uploaded(b, proto), proto)
<1> DEFINE x == b.exited \/ (b.source # (proto = "ACTIVE_DLUL"))
<1>1. Uploaded(b, proto) = [b EXCEPT !.exited = x]
    BY DEF Uploaded
<1>2. b.exited = FALSE
    BY DEF InTune, Apps
<1>3. b.source = (proto = "ACTIVE_DLUL")
    <2>1. b.source \in BOOLEAN /\ (b.source <=> proto = "ACTIVE_DLUL")
        BY DEF InTune, Apps
    <2> QED
        BY <2>1
<1>4. x = FALSE
    BY <1>2, <1>3
<1> HIDE DEF x
<1> QED
    BY <1>1, <1>2, <1>4 DEF InTune, Apps

\* The transitions are all the application needs to follow.
LEMMA InTuneAgain ==
    ASSUME NEW a, NEW e, Reportable(e), InTune(a, e.prev)
    PROVE  InTune(Uploaded(test_handle_cmtspeech_control(a,
                               cmtspeech_event_to_state_transition(e)), e.state),
                  e.state)
<1> DEFINE tr == cmtspeech_event_to_state_transition(e)
           b == test_handle_cmtspeech_control(a, tr)
           p == e.prev
           q == e.state
<1>1. \/ p \notin Active /\ q \notin Active
         /\ tr \in {"TR_1_CONNECTED", "TR_2_DISCONNECTED"}
      \/ p \notin Active /\ q = "ACTIVE_DL" /\ tr = "TR_3_DL_START"
      \/ q \notin Active /\ tr = "TR_4_DLUL_STOP"
      \/ p = "ACTIVE_DL" /\ q = "ACTIVE_DL" /\ tr = "TR_5_PARAM_UPDATE"
      \/ p = "ACTIVE_DLUL" /\ q = "ACTIVE_DL" /\ tr = "TR_11_UL_STOP"
      \/ p = "ACTIVE_DL" /\ q = "ACTIVE_DLUL" /\ tr = "TR_12_UL_START"
      \/ p = "ACTIVE_DLUL" /\ q = "ACTIVE_DLUL"
         /\ tr \in {"TR_INVALID", "TR_6_TIMING_UPDATE"}
    <2>1. CASE e.type = "SSI_CONFIG_RESP" \/ "CONNECTED" \in {p, q}
        BY <2>1 DEF Reportable, Active, Enabled, Moved, cmtspeech_event_to_state_transition
    <2>2. CASE e.type # "SSI_CONFIG_RESP" /\ "CONNECTED" \notin {p, q}
        BY <2>2 DEF Reportable, Active, Enabled, Moved,
                    cmtspeech_event_to_state_transition, OtherTransition
    <2> QED
        BY <2>1, <2>2
<1> HIDE DEF tr, p, q
<1>2. InTune(a, p)
    BY DEF p
<1>3. InTune(b, q)
    BY <1>1, <1>2, DevicesSwitched
<1> HIDE DEF b
<1>4. InTune(Uploaded(b, q), q)
    BY <1>3, UploadGoesOn
<1> QED
    BY <1>4 DEF tr, b, q

\* What the modem may read next, and whether it has a stream then.
LEMMA NextToModem ==
    ASSUME TypeOK, Phases, Calm, toModem # <<>>
    PROVE  \/ toModem[1].type \in {"SSI_CONFIG_REQ", "SPEECH_CONFIG_RESP",
                                   "RESET_CONN_RESP"}
           \/ toModem[1].type = "NEW_TIMING_CONFIG_REQ" /\ modem.stream # "off"
<1>1. 1 \in 1 .. Len(toModem)
    <2>1. toModem \in Seq(OutMsgs)
        BY DEF TypeOK
    <2> QED
        BY <2>1, QueueSteps
<1>2. ~Resetting /\ ~Failed
    BY DEF Calm, Resetting, Reborn, Failed
<1>3. RESP.type = "SPEECH_CONFIG_RESP" /\ NT.type = "NEW_TIMING_CONFIG_REQ"
      /\ \A on, v : SsiConfigReq(on, v).type = "SSI_CONFIG_REQ"
    BY DEF RESP, NT, OutMsg, SsiConfigReq
<1>4. \A a, b : <<a>>[1] = a /\ <<a, b>>[1] = a
    OBVIOUS
<1>5. CASE Down
    BY <1>1, <1>5 DEF Down, Harmless, Calm
<1>6. CASE Calling \/ Ending
    BY <1>6 DEF Calling, Ending, Queues
<1>7. CASE Connecting
    <2>1. \/ toModem = <<>> \/ \E v \in {1, 2} : toModem = <<SsiConfigReq(TRUE, v)>>
        BY <1>7 DEF Connecting, Queues
    <2>2. ASSUME NEW v \in {1, 2}, toModem = <<SsiConfigReq(TRUE, v)>>
          PROVE  toModem[1].type = "SSI_CONFIG_REQ"
        <3>1. toModem[1] = SsiConfigReq(TRUE, v)
            BY <1>4, <2>2, Zenon
        <3> QED
            BY <1>3, <3>1
    <2> QED
        BY <2>1, <2>2
<1>8. CASE Starting
    BY <1>3, <1>4, <1>8 DEF Starting, Queues
<1>9. CASE Streaming
    <2>1. toModem \in {<<NT>>, <<RESP>>, <<NT, RESP>>} /\ modem.stream # "off"
        BY <1>9, LinkAssumption DEF Streaming, LinkAssumption
    <2> QED
        BY <1>3, <1>4, <2>1
<1>10. CASE Closing
    <2>1. \/ toModem \in {<<>>, <<RESP>>}
          \/ \E v \in {1, 2} : toModem = <<SsiConfigReq(FALSE, v)>>
          \/ \E v \in {1, 2} : toModem = <<RESP, SsiConfigReq(FALSE, v)>>
        BY <1>10 DEF Closing, Queues
    <2>2. ASSUME NEW v \in {1, 2}, toModem = <<SsiConfigReq(FALSE, v)>>
          PROVE  toModem[1].type = "SSI_CONFIG_REQ"
        <3>1. toModem[1] = SsiConfigReq(FALSE, v)
            BY <1>4, <2>2, Zenon
        <3> QED
            BY <1>3, <3>1
    <2>3. ASSUME NEW v \in {1, 2}, toModem = <<RESP, SsiConfigReq(FALSE, v)>>
          PROVE  toModem[1].type = "SPEECH_CONFIG_RESP"
        <3>1. toModem[1] = RESP
            BY <1>4, <2>3, Zenon
        <3> QED
            BY <1>3, <3>1
    <2>4. toModem = <<RESP>> => toModem[1].type = "SPEECH_CONFIG_RESP"
        BY <1>3, <1>4
    <2> QED
        BY <2>1, <2>2, <2>3, <2>4
<1> QED
    BY <1>2, <1>5, <1>6, <1>7, <1>8, <1>9, <1>10 DEF Phases

\* What the modem sends keeps them in order.
LEMMA OrderlySent ==
    ASSUME TypeOK, Orderly, lib' = lib,
           \/ toLib' = toLib
           \/ \E a \in ModemMsgs :
                /\ toLib' = toLib \o <<a>>
                /\ a.type \notin {"RESET_CONN_REQ", "TIMING_CONFIG_NTF"}
           \/ toLib' = toLib \o <<UP, TM>>
    PROVE  Orderly'
<1>1. CASE toLib' = toLib
    BY <1>1 DEF Orderly, TimingFollows
<1>2. ASSUME NEW a \in ModemMsgs, toLib' = toLib \o <<a>>,
             a.type \notin {"RESET_CONN_REQ", "TIMING_CONFIG_NTF"}
      PROVE  Orderly'
    <2>1. /\ Len(toLib) \in Nat /\ Len(toLib') = Len(toLib) + 1
          /\ \A k \in 1 .. Len(toLib) : toLib'[k] = toLib[k]
          /\ toLib'[Len(toLib) + 1] = a
        BY <1>2, OneSent
    <2>2. a # TM
        BY <1>2, MessageIs
    <2>3. ASSUME NEW k \in 1 .. Len(toLib')
          PROVE  /\ toLib'[k].type # "RESET_CONN_REQ"
                 /\ toLib'[k] = TM => IF k = 1 THEN lib'.proto_state = "ACTIVE_DLUL"
                                      ELSE toLib'[k - 1] = UP
        <3>1. CASE k = Len(toLib) + 1
            BY <1>2, <2>1, <2>2, <3>1
        <3>2. CASE k \in 1 .. Len(toLib)
            <4>1. toLib'[k] = toLib[k] /\ (k # 1 => toLib'[k - 1] = toLib[k - 1])
                BY <2>1, <3>2
            <4> QED
                BY <3>2, <4>1 DEF Orderly, TimingFollows
        <3> QED
            BY <2>1, <3>1, <3>2
    <2> QED
        BY <2>3 DEF Orderly, TimingFollows
<1>3. CASE toLib' = toLib \o <<UP, TM>>
    <2>1. toLib \in Seq(ModemMsgs) /\ <<UP, TM>> \in Seq(ModemMsgs)
        <3>1. UP \in ModemMsgs /\ TM \in ModemMsgs
            BY ModemMessages DEF UP, TM
        <3> QED
            BY <3>1 DEF TypeOK
    <2>2. Len(<<UP, TM>>) = 2 /\ <<UP, TM>>[1] = UP /\ <<UP, TM>>[2] = TM
        BY TwoMessages
    <2> DEFINE r == <<UP, TM>>
    <2> HIDE DEF r
    <2>3. /\ Len(toLib) \in Nat /\ Len(toLib \o r) = Len(toLib) + Len(r)
          /\ \A k \in 1 .. Len(toLib) : (toLib \o r)[k] = toLib[k]
          /\ \A k \in 1 .. Len(r) : (toLib \o r)[Len(toLib) + k] = r[k]
        BY <2>1, QueueSteps, LenProperties DEF r
    <2>4. /\ Len(toLib') = Len(toLib) + 2
          /\ \A k \in 1 .. Len(toLib) : toLib'[k] = toLib[k]
          /\ toLib'[Len(toLib) + 1] = UP /\ toLib'[Len(toLib) + 2] = TM
        BY <1>3, <2>2, <2>3 DEF r
    <2>5. UP.type = "UPLINK_CONFIG_NTF" /\ TM.type = "TIMING_CONFIG_NTF"
        BY MessageIs
    <2>6. ASSUME NEW k \in 1 .. Len(toLib')
          PROVE  /\ toLib'[k].type # "RESET_CONN_REQ"
                 /\ toLib'[k] = TM => IF k = 1 THEN lib'.proto_state = "ACTIVE_DLUL"
                                      ELSE toLib'[k - 1] = UP
        <3>1. CASE k = Len(toLib) + 1
            BY <2>3, <2>4, <2>5, <3>1
        <3>2. CASE k = Len(toLib) + 2
            <4>1. k # 1 /\ k - 1 = Len(toLib) + 1 /\ toLib'[k] = TM
                BY <2>3, <2>4, <3>2
            <4> QED
                BY <2>4, <2>5, <4>1
        <3>3. CASE k \in 1 .. Len(toLib)
            <4>1. toLib'[k] = toLib[k] /\ (k # 1 => toLib'[k - 1] = toLib[k - 1])
                BY <2>3, <2>4, <3>3
            <4> QED
                BY <3>3, <4>1 DEF Orderly, TimingFollows
        <3> QED
            BY <2>3, <2>4, <3>1, <3>2, <3>3
    <2> QED
        BY <2>6 DEF Orderly, TimingFollows
<1> QED
    BY <1>1, <1>2, <1>3

\* The network and the modem keep the calm.
LEMMA NetworkCalm ==
    ASSUME LinkAssumption, TypeOK, Phases, Calm, Orderly, MaxResets = 0, Network
    PROVE  /\ Calm' /\ Orderly'
           /\ lib' = lib /\ app' = app
<1>1. app' = app
    BY DEF Network
<1>2. CASE CallChanges
    <2>1. lib' = lib /\ modem' = modem /\ toLib' = toLib
        BY <1>2 DEF CallChanges, application
    <2>2. Orderly'
        BY <2>1, OrderlySent
    <2> QED
        BY <1>1, <2>1, <2>2 DEF Calm, Unlocked
<1>3. CASE StartStream \/ ChangeStream \/ StopStream
    <2>1. PICK r \in Streams : ~modem'.resetting /\ toLib' = toLib \o <<SpeechConfig(r)>>
        BY <1>3, Asked
    <2>2. lib' = lib
        BY <1>3, Asked
    <2>3. SpeechConfig(r) \in ModemMsgs /\ SpeechConfig(r).type = "SPEECH_CONFIG_REQ"
        BY ModemMessages DEF SpeechConfig
    <2>4. Orderly'
        BY <2>1, <2>2, <2>3, OrderlySent
    <2> QED
        BY <1>1, <2>1, <2>2, <2>4 DEF Calm, Unlocked
<1>4. CASE ModemReads
    <2>1. /\ lib' = lib /\ toModem # <<>> /\ ~modem.resetting
        BY <1>4 DEF ModemReads, Calm
    <2>2. \/ toModem[1].type \in {"SSI_CONFIG_REQ", "SPEECH_CONFIG_RESP",
                                  "RESET_CONN_RESP"}
          \/ toModem[1].type = "NEW_TIMING_CONFIG_REQ" /\ modem.stream # "off"
        BY <2>1, NextToModem
    <2>3. SR \in ModemMsgs /\ SR.type = "SSI_CONFIG_RESP"
        BY ModemMessages, MessageIs DEF SR
    <2>4. toLib \o <<>> = toLib
        BY QueueSteps DEF TypeOK
    <2>5. CASE toModem[1].type = "SSI_CONFIG_REQ"
        <3>1. ~modem'.resetting /\ toLib' = toLib \o <<SR>>
            BY <1>4, <2>1, <2>5, ReadAnswers DEF Idling, ModemIs
        <3>2. Orderly'
            BY <2>1, <2>3, <3>1, OrderlySent
        <3> QED
            BY <1>1, <2>1, <3>1, <3>2 DEF Calm, Unlocked
    <2>6. CASE toModem[1].type = "SPEECH_CONFIG_RESP"
        <3>1. /\ ~modem'.resetting
              /\ toLib' = toLib \/ toLib' = toLib \o <<UP, TM>>
            BY <1>4, <2>1, <2>4, <2>6, ReadAnswers
        <3>2. Orderly'
            BY <2>1, <3>1, OrderlySent
        <3> QED
            BY <1>1, <2>1, <3>1, <3>2 DEF Calm, Unlocked
    <2>7. CASE toModem[1].type = "RESET_CONN_RESP"
        <3>1. ~modem'.resetting /\ toLib' = toLib
            BY <1>4, <2>1, <2>7, ReadAnswers
        <3>2. Orderly'
            BY <2>1, <3>1, OrderlySent
        <3> QED
            BY <1>1, <2>1, <3>1, <3>2 DEF Calm, Unlocked
    <2>8. CASE toModem[1].type = "NEW_TIMING_CONFIG_REQ" /\ modem.stream # "off"
        <3>1. modem' = modem /\ toLib' = toLib \o <<UP, TM>>
            BY <1>4, <2>1, <2>8, ReadAnswers
        <3>2. Orderly'
            BY <2>1, <3>1, OrderlySent
        <3> QED
            BY <1>1, <2>1, <3>1, <3>2 DEF Calm, Unlocked
    <2> QED
        BY <2>2, <2>5, <2>6, <2>7, <2>8
<1>5. CASE ModemReset
    <2>1. used["resets"] < Bounds["resets"] /\ used["resets"] \in 0 .. Bounds["resets"]
        BY <1>5 DEF ModemReset, Count, TypeOK, Bounds
    <2>2. Bounds["resets"] = 0
        BY DEF Bounds
    <2> QED
        BY <2>1, <2>2
<1> QED
    BY <1>2, <1>3, <1>4, <1>5 DEF Network

\* The call status changes the connection, not yet the protocol state.
LEMMA RelayCalm ==
    ASSUME LinkAssumption, TypeOK, Phases, Calm, Orderly, Relay
    PROVE  Calm' /\ Orderly' /\ lib'.proto_state = lib.proto_state
<1> DEFINE t == cmtspeech_state_change_call_status(lib, call, {})
<1>1. /\ status # call /\ status' = call
      /\ UNCHANGED <<modem, toLib, call>>
      /\ t \in LibStates /\ Steps(t)
    BY Relayed
<1>2. /\ call \in BOOLEAN /\ status \in BOOLEAN /\ lib \in LibStates
    BY DEF TypeOK
<1>3. ~Resetting /\ ~Failed
    BY DEF Calm, Resetting, Reborn, Failed
<1> HIDE DEF t
<1>4. SameSlots(t, lib) /\ t.proto_state = lib.proto_state
    <2>1. CASE call
        <3>1. Calling \/ Streaming
            BY <1>1, <1>2, <1>3, <2>1
               DEF Phases, Down, Connecting, Starting, Ending, Closing
        <3>2. \/ lib.proto_state = "DISCONNECTED"
              \/ lib.proto_state \in Active /\ ~lib.io_errors
            BY <3>1 DEF Calling, Streaming, Running, In
        <3>3. t = cmtspeech_state_change_call_status(lib, TRUE, {})
            BY <2>1 DEF t
        <3> QED
            BY <1>2, <3>2, <3>3, StatusEffects DEF Control
    <2>2. CASE ~call
        <3>1. Down \/ Ending \/ (Closing /\ status)
            BY <1>1, <1>2, <1>3, <2>2
               DEF Phases, Calling, Connecting, Starting, Streaming, Closing
        <3>2. \/ lib.priv_state = "CONFIG_DEACT_PEND"
              \/ In(lib, "CONNECTED", "IN_SYNC") \/ In(lib, "DISCONNECTED", "IN_SYNC")
              \/ Running(lib)
            BY <3>1 DEF Down, Ending, Closing, In
        <3>3. t = cmtspeech_state_change_call_status(lib, FALSE, {})
            BY <1>2, <2>2 DEF t
        <3> QED
            BY <1>2, <3>2, <3>3, StatusEffects DEF Control, In
    <2> QED
        BY <1>2, <2>1, <2>2
<1>5. /\ lib'.proto_state = t.proto_state
      /\ lib'.ul_locked = t.ul_locked /\ lib'.dl_locked = t.dl_locked
    BY <1>1, Returned
<1> QED
    BY <1>1, <1>4, <1>5 DEF Calm, Unlocked, SameSlots, Orderly, TimingFollows

\* A message is read, and the rest of the queue moves on.
LEMMA PendingCalm ==
    ASSUME LinkAssumption, TypeOK, Phases, Calm, Orderly, CheckPending
    PROVE  Calm' /\ Orderly'
<1> DEFINE e == Handled(Head(toLib)).event
<1>1. /\ Len(toLib) \in Nat \ {0} /\ Len(toLib') = Len(toLib) - 1
      /\ \A k \in 1 .. Len(toLib') : toLib'[k] = toLib[k + 1]
      /\ UNCHANGED <<modem>>
    BY Checked
<1>2. /\ Reportable(e) /\ e.state = lib'.proto_state /\ Unlocked(lib')
      /\ toLib[1] = UP => lib'.proto_state = "ACTIVE_DLUL"
    BY Told
<1> HIDE DEF e
<1>3. lib'.proto_state # "INVALID"
    BY <1>2 DEF Reportable
<1>4. ASSUME NEW k \in 1 .. Len(toLib')
      PROVE  /\ toLib'[k].type # "RESET_CONN_REQ"
             /\ toLib'[k] = TM => IF k = 1 THEN lib'.proto_state = "ACTIVE_DLUL"
                                  ELSE toLib'[k - 1] = UP
    <2>1. k + 1 \in 1 .. Len(toLib) /\ k + 1 # 1 /\ k \in Nat /\ (k + 1) - 1 = k
        BY <1>1
    <2>2. /\ toLib[k + 1].type # "RESET_CONN_REQ"
          /\ toLib[k + 1] = TM => toLib[k] = UP
        BY <2>1 DEF Orderly, TimingFollows
    <2>3. toLib'[k] = toLib[k + 1]
        BY <1>1
    <2>4. k # 1 => toLib'[k - 1] = toLib[k]
        <3>1. k # 1 => k - 1 \in 1 .. Len(toLib') /\ (k - 1) + 1 = k
            BY <1>1
        <3> QED
            BY <1>1, <3>1
    <2> QED
        BY <1>2, <2>2, <2>3, <2>4
<1> QED
    BY <1>1, <1>2, <1>3, <1>4 DEF Calm, Unlocked, Orderly, TimingFollows

\* A frame is taken while there is a sink.
LEMMA DownloadGoesOn ==
    ASSUME NEW u, NEW s, InTune(u, s.proto_state)
    PROVE  InTune(Downloaded(u, s), s.proto_state)
<1> DEFINE x == u.exited \/ (/\ s.proto_state \in Active /\ DLAvailable(s) # {}
                            /\ ~u.sink)
<1>1. Downloaded(u, s) = [u EXCEPT !.exited = x]
    BY DEF Downloaded
<1>2. x = FALSE
    BY DEF InTune, Apps
<1> HIDE DEF x
<1> QED
    BY <1>1, <1>2 DEF InTune, Apps

\* What holds while the application runs.
AppInv == Calm /\ Orderly /\ InTune(app, lib.proto_state)

\* On a patient link without resets of the modem the application is in tune
\* with the library after every round of its main loop.
THEOREM AppInvariant == ASSUME Patient, MaxResets = 0 PROVE AppSpec => []AppInv
<1>1. AppInit => AppInv
    <2> SUFFICES ASSUME AppInit PROVE AppInv
        OBVIOUS
    <2>1. lib = Opened /\ modem = Idle /\ toLib = <<>>
        BY DEF AppInit, Init
    <2>2. Calm /\ Orderly
        BY <2>1 DEF Calm, Unlocked, Orderly, TimingFollows, Opened, Idle
    <2>3. InTune(app, "DISCONNECTED")
        BY DEF AppInit, InTune, Apps, Active
    <2> QED
        BY <2>1, <2>2, <2>3 DEF AppInv, Opened
<1>2. TypeOK /\ LinkInv /\ AppInv /\ [AppNext]_appVars => AppInv'
    <2> SUFFICES ASSUME TypeOK, LinkInv, AppInv, [AppNext]_appVars PROVE AppInv'
        OBVIOUS
    <2>1. /\ LinkAssumption /\ Phases /\ Calm /\ Orderly
          /\ InTune(app, lib.proto_state)
        BY LinkAssumption DEF LinkInv, AppInv
    <2>2. CASE UNCHANGED appVars
        <3>1. lib' = lib /\ modem' = modem /\ toLib' = toLib /\ app' = app
            BY <2>2 DEF appVars
        <3> QED
            BY <2>1, <3>1 DEF AppInv, Calm, Unlocked, Orderly, TimingFollows
    <2>3. CASE AppControl
        <3> DEFINE e == Handled(Head(toLib)).event
        <3>1. /\ CheckPending
              /\ app' = Uploaded(test_handle_cmtspeech_control(app,
                                    cmtspeech_event_to_state_transition(e)),
                                 lib'.proto_state)
            BY <2>3 DEF AppControl
        <3>2. Reportable(e) /\ e.prev = lib.proto_state /\ e.state = lib'.proto_state
            BY <2>1, <3>1, Told
        <3> HIDE DEF e
        <3>3. InTune(app', lib'.proto_state)
            BY <2>1, <3>1, <3>2, InTuneAgain
        <3>4. Calm' /\ Orderly'
            BY <2>1, <3>1, PendingCalm
        <3> QED
            BY <3>3, <3>4 DEF AppInv
    <2>4. CASE AppData
        <3> DEFINE u == IF app.source THEN Uploaded(app, lib.proto_state) ELSE app
        <3>1. DataReceived /\ app' = Downloaded(u, lib')
            BY <2>4 DEF AppData
        <3>2. /\ SameControl(lib', lib) /\ SameSlots(lib', lib)
              /\ modem' = modem /\ toLib' = toLib
            BY <3>1, DataArrives
        <3>3. InTune(u, lib.proto_state)
            BY <2>1, UploadGoesOn
        <3> HIDE DEF u
        <3>4. lib'.proto_state = lib.proto_state
            BY <3>2 DEF SameControl, Control
        <3>5. InTune(app', lib'.proto_state)
            BY <3>1, <3>3, <3>4, DownloadGoesOn
        <3>6. Calm' /\ Orderly'
            BY <2>1, <3>2, <3>4
               DEF Calm, Unlocked, SameSlots, Orderly, TimingFollows
        <3> QED
            BY <3>5, <3>6 DEF AppInv
    <2>5. CASE AppRelay
        <3>1. /\ Relay
              /\ app' = IF app.source THEN Uploaded(app, lib'.proto_state) ELSE app
            BY <2>5 DEF AppRelay
        <3>2. Calm' /\ Orderly' /\ lib'.proto_state = lib.proto_state
            BY <2>1, <3>1, RelayCalm
        <3>3. InTune(app', lib'.proto_state)
            BY <2>1, <3>1, <3>2, UploadGoesOn
        <3> QED
            BY <3>2, <3>3 DEF AppInv
    <2>6. CASE Network
        <3>1. Calm' /\ Orderly' /\ lib' = lib /\ app' = app
            BY <2>1, <2>6, NetworkCalm
        <3> QED
            BY <2>1, <3>1 DEF AppInv
    <2> QED
        BY <2>2, <2>3, <2>4, <2>5, <2>6 DEF AppNext
<1> QED
    BY <1>1, <1>2, AppIsLink, LinkTypeCorrect, LinkInvariant, PTL DEF AppSpec

\* The audio devices are open exactly while the library has the streams active.
THEOREM AudioAlwaysFollows ==
    ASSUME Patient, MaxResets = 0 PROVE AppSpec => []AudioFollowsStream
<1>1. AppInv => AudioFollowsStream
    BY DEF AppInv, InTune, AudioFollowsStream
<1> QED
    BY <1>1, AppInvariant, PTL

\* None of the checks after which the application exits ever fails.
THEOREM AlwaysKeepsRunning ==
    ASSUME Patient, MaxResets = 0 PROVE AppSpec => []KeepsRunning
<1>1. AppInv => KeepsRunning
    BY DEF AppInv, InTune, KeepsRunning
<1> QED
    BY <1>1, AppInvariant, PTL

-----------------------------------------------------------------------------
(* The uplink                                                              *)

\* Its steps are steps of the link, except that the driver completes a
\* transmission, of which the link knows nothing.
LEMMA UplinkIsLink == USpec => Spec
<1>1. UInit => Init
    BY DEF UInit
<1>2. [UNext]_uvars => [Next]_vars
    <2> SUFFICES ASSUME [UNext]_uvars PROVE [Next]_vars
        OBVIOUS
    <2>1. CASE UNCHANGED uvars
        BY <2>1 DEF uvars
    <2>2. CASE TxDone
        BY <2>2 DEF TxDone
    <2>3. CASE UCheckPending \/ UDataReceived \/ URelay \/ UError
        BY <2>3 DEF UCheckPending, UDataReceived, URelay, UError, Next
    <2>4. CASE AcquireUL \/ AcquireDL \/ ReleaseUL \/ ReleaseDL
        BY <2>4 DEF AcquireUL, AcquireDL, ReleaseUL, ReleaseDL, Next
    <2>5. CASE ModemSteps
        BY <2>5 DEF ModemSteps, Next
    <2> QED
        BY <2>1, <2>2, <2>3, <2>4, <2>5 DEF UNext
<1> QED
    BY <1>1, <1>2, PTL DEF USpec, Spec

\* The uplink buffers of t are those of s.
UplinkKept(t, s) ==
    /\ t.speech_config_resp_pend = s.speech_config_resp_pend
    /\ t.slot_size = s.slot_size /\ t.drv_size = s.drv_size
    /\ t.ul_locked = s.ul_locked /\ t.ul_desc = s.ul_desc

\* SSI_CONFIG_RESP renews the descriptors of the downlink, if at all.
LEMMA AnswerKeepsUplink ==
    ASSUME NEW s \in LibStates
    PROVE  UplinkKept(HandleSsiConfigResp(s, TRUE, "inorder", {}), s)
<1> DEFINE e == Entered(s)
           a == Assert(e, "ssi_config_resp",
                       s.proto_state \in {"CONNECTED", "DISCONNECTED"})
           cc == StateChangeTo(a, "CONNECTED", "IN_SYNC")
           c == [cc EXCEPT !.sample_layout = "inorder"]
           d == priv_reset_state_to_disconnected(a)
           o == cmtspeech_send_ssi_config_request(a, TRUE, {})
           oo == StateChangeTo(o, "DISCONNECTED", "CONNECTING")
           f == cmtspeech_send_ssi_config_request(a, FALSE, {})
           ff == StateChangeTo(f, "CONNECTED", "DISCONNECTING")
           x == SsiConfigAnswered(a, TRUE, "inorder", {})
           r == priv_release_wakeline(x, "CALL", {})
           y == priv_handle_ssi_config_resp(x, {})
           h == Reported(s, y, "SSI_CONFIG_RESP")
<1>1. /\ "ssi_config_resp" \in Assertions
      /\ {"CONNECTED", "DISCONNECTED"} \subseteq Protos
      /\ {"IN_SYNC", "CONNECTING", "DISCONNECTING"} \subseteq Privs
      /\ "CALL" \in WakelineUsers
    BY DEF Assertions, Protos, Privs, WakelineUsers
<1>2. e \in LibStates /\ SameSlots(e, s)
    BY EnteredEffects
<1> HIDE DEF e
<1>3. a \in LibStates
    BY <1>1, <1>2, AssertTyped
<1>4. SameSlots(a, e)
    BY <1>2, AssertEffects
<1> HIDE DEF a
<1>5. cc \in LibStates /\ d \in LibStates /\ o \in LibStates /\ f \in LibStates
    BY <1>1, <1>3, ProtocolTyped, RequestsTyped
<1>6. SameSlots(cc, a)
    BY <1>3, ChangeEffects
<1>7. SameSlots(d, a)
    BY <1>3, DisconnectedEffects
<1>8. SameSlots(o, a) /\ SameSlots(f, a)
    BY <1>3, RequestsWritten
<1> HIDE DEF cc, d, o, f
<1>9. oo \in LibStates /\ ff \in LibStates
    BY <1>1, <1>5, ProtocolTyped
<1>10. SameSlots(oo, o) /\ SameSlots(ff, f)
    BY <1>5, ChangeEffects
<1>11. c \in LibStates
    <2>1. "inorder" \in {"inorder", "swapped", "none"}
        OBVIOUS
    <2> QED
        BY <1>5, <2>1, ZenonT(30) DEF LibStates
<1>12. SameSlots(c, cc)
    BY <1>5 DEF SameSlots, LibStates
<1> HIDE DEF oo, ff
<1>13. x \in {c, d, oo, ff, a}
    <2>1. a.call_server_active \in BOOLEAN
        BY <1>3, Fields
    <2> QED
        BY <2>1 DEF SsiConfigAnswered, c, cc, d, o, oo, f, ff
<1> HIDE DEF c, x
<1>14. x \in LibStates
    BY <1>3, <1>5, <1>9, <1>11, <1>13
<1>15. SameSlots(x, s)
    BY <1>2, <1>4, <1>6, <1>7, <1>8, <1>10, <1>12, <1>13 DEF SameSlots
<1>16. r \in LibStates
    BY <1>1, <1>14, WakelineTyped
<1>17. SameSlots(r, x)
    BY <1>14, WakelineEffects
<1>18. y \in {r, x, priv_update_dl_buffer_descriptors(x)}
    BY Zenon DEF priv_handle_ssi_config_resp, r
<1>19. y \in LibStates
    BY <1>14, <1>16, <1>18, BuffersTyped
<1>20. UplinkKept(priv_update_dl_buffer_descriptors(x), x)
    BY <1>14 DEF UplinkKept, priv_update_dl_buffer_descriptors, LibStates
<1> HIDE DEF r, y
<1>21. UplinkKept(y, x)
    BY <1>17, <1>18, <1>20 DEF UplinkKept, SameSlots
<1>22. SameSlots(h, y)
    BY <1>19, ReportedEffects
<1>23. HandleSsiConfigResp(s, TRUE, "inorder", {}) = h
    BY Zenon DEF HandleSsiConfigResp, e, a, x, y
<1> HIDE DEF h
<1> QED
    BY <1>15, <1>21, <1>22, <1>23 DEF UplinkKept, SameSlots

\* A call that starts resets the link where it has to, and otherwise leaves the
\* buffers alone.
LEMMA CallKeepsSlots ==
    ASSUME NEW s \in LibStates
    PROVE  LET t == cmtspeech_state_change_call_status(s, TRUE, {})
           IN  IF s.proto_state \in {"INVALID", "TEST_RAMP_PING_ACTIVE"}
               THEN Fresh(t, 0) ELSE SameSlots(t, s)
<1> DEFINE e == Entered(s)
           x == CallActive(e, {})
           t == [x EXCEPT !.call_server_active = TRUE]
           o == cmtspeech_send_ssi_config_request(e, TRUE, {})
           p == PrivChangeTo(e, "SSI_CONFIG_PEND")
           r == priv_send_reset(e, {})
           b == PrivChangeTo(r, "RESET_BEFORE_CONNECT")
           d == priv_reset_state_to_disconnected(e)
           n == cmtspeech_send_ssi_config_request(d, TRUE, {})
<1>1. e \in LibStates /\ SameControl(e, s) /\ SameSlots(e, s)
    BY EnteredEffects
<1>2. cmtspeech_state_change_call_status(s, TRUE, {}) = t
    BY Zenon DEF cmtspeech_state_change_call_status
<1> HIDE DEF e
<1>3. x \in LibStates
    BY <1>1, StatusTyped
<1>4. SameSlots(t, x)
    BY <1>3 DEF SameSlots, LibStates
<1> HIDE DEF t
<1>5. SameSlots(o, e) /\ SameSlots(p, e)
    BY <1>1, RequestsWritten, ChangeEffects
<1>6. r \in LibStates /\ Fresh(r, 0)
    BY <1>1, RequestsWritten, SendResetTyped
<1>7. d \in LibStates /\ SameSlots(d, e)
    BY <1>1, ProtocolTyped, DisconnectedEffects
<1> HIDE DEF d, r
<1>8. SameSlots(n, d) /\ SameSlots(b, r)
    BY <1>6, <1>7, RequestsWritten, ChangeEffects
<1>9. IF e.proto_state \in {"INVALID", "TEST_RAMP_PING_ACTIVE"} THEN x = b
      ELSE x \in {o, p, n, e}
    BY DEF CallActive, x, o, p, b, r, n, d, Active
<1> HIDE DEF x, o, p, n, b
<1>10. e.proto_state = s.proto_state
    BY <1>1 DEF SameControl, Control
<1>11. CASE s.proto_state \in {"INVALID", "TEST_RAMP_PING_ACTIVE"}
    <2>1. x = b
        BY <1>9, <1>10, <1>11
    <2>2. Fresh(t, 0)
        BY <1>4, <1>6, <1>8, <2>1 DEF SameSlots, Fresh
    <2> QED
        BY <1>2, <1>11, <2>2
<1>12. CASE s.proto_state \notin {"INVALID", "TEST_RAMP_PING_ACTIVE"}
    <2>1. x \in {o, p, n, e}
        BY <1>9, <1>10, <1>12
    <2>2. SameSlots(x, s)
        BY <1>1, <1>5, <1>7, <1>8, <2>1 DEF SameSlots
    <2>3. SameSlots(t, s)
        BY <1>4, <2>2 DEF SameSlots
    <2> QED
        BY <1>2, <1>12, <2>3
<1> QED
    BY <1>11, <1>12

\* A change of the stream that has to wait invalidates the descriptors.
LEMMA WaitInvalidates ==
    ASSUME NEW s \in LibStates, NEW stream \in BOOLEAN, NEW rate \in Rates,
           ~Unlocked(s)
    PROVE  HandleSpeechConfigReq(s, stream, rate, {}).ul_desc = 0
<1> DEFINE a == Assert(Entered(s), "speech_config_req", s.proto_state \in Enabled)
           priv == IF stream THEN "CONFIG_ACT_PEND" ELSE "CONFIG_DEACT_PEND"
           p == PrivChangeTo(a, priv)
           c == [p EXCEPT !.slot_size = IF stream THEN SlotSize(rate) ELSE 0]
           n == [c EXCEPT !.speech_config_resp_pend = TRUE]
           v == priv_invalidate_buffer_slots(n)
           h == Reported(s, v, "SPEECH_CONFIG_REQ")
<1>1. Entered(s) \in LibStates /\ SameSlots(Entered(s), s)
    BY EnteredEffects
<1>2. "speech_config_req" \in Assertions
    BY DEF Assertions
<1>3. a \in LibStates /\ SameSlots(a, Entered(s))
    BY <1>1, <1>2, AssertTyped, AssertEffects
<1> HIDE DEF a
<1>4. p \in LibStates /\ SameSlots(p, a)
    <2>1. priv \in Privs /\ "INVALID" \in Protos
        BY DEF Privs, Protos
    <2> HIDE DEF priv
    <2> QED
        BY <1>3, <2>1, ProtocolTyped, ChangeEffects
<1> HIDE DEF p
<1>5. ~Unlocked(p)
    BY <1>1, <1>3, <1>4 DEF SameSlots, Unlocked
<1>6. HandleSpeechConfigReq(s, stream, rate, {}) = h
    BY <1>5, Zenon DEF HandleSpeechConfigReq, priv_handle_speech_config, a, p
<1>7. (IF stream THEN SlotSize(rate) ELSE 0) \in Nat
    BY DEF Rates, SlotSize
<1>8. c \in LibStates
    BY <1>4, <1>7, BuffersTyped
<1> HIDE DEF c
<1>9. n \in LibStates
    BY <1>8, Zenon DEF LibStates
<1> HIDE DEF n
<1>10. v \in LibStates
    BY <1>9, BuffersTyped
<1>11. v.ul_desc = 0
    BY <1>9 DEF priv_invalidate_buffer_slots, LibStates
<1> HIDE DEF v
<1>12. SameSlots(h, v)
    BY <1>10, ReportedEffects
<1> QED
    BY <1>6, <1>11, <1>12 DEF SameSlots

\* The last buffer that comes back lets the new layout be set up.
LEMMA LayoutGivenBack ==
    ASSUME NEW a \in LibStates, a.sent = <<>>, NEW name, NEW holds
    PROVE  LET z == Assert(LayoutChangeReleased(a, {}), name, holds)
           IN  SameSlots(z, a) \/ (Unlocked(a) /\ Fresh(z, a.slot_size))
<1> DEFINE p == priv_setup_and_send_speech_config_reply(a, {})
           r == LayoutChangeReleased(a, {})
           z == Assert(r, name, holds)
<1>1. p \in LibStates /\ Fresh(p, a.slot_size)
    BY ReplyEffects DEF Replied
<1>2. r = IF ~Unlocked(a) THEN a ELSE p
    BY Zenon DEF LayoutChangeReleased
<1> HIDE DEF p, r
<1>3. SameSlots(z, r)
    BY <1>1, <1>2, AssertEffects
<1> HIDE DEF z
<1>4. CASE Unlocked(a)
    <2>1. r = p
        BY <1>2, <1>4
    <2>2. Fresh(z, a.slot_size)
        BY <1>1, <1>3, <2>1 DEF SameSlots, Fresh
    <2> QED
        BY <1>4, <2>2 DEF z, r
<1>5. CASE ~Unlocked(a)
    <2>1. r = a
        BY <1>2, <1>5
    <2>2. SameSlots(z, a)
        BY <1>3, <2>1
    <2> QED
        BY <2>2 DEF z, r
<1> QED
    BY <1>4, <1>5

\* A buffer that comes back: its lock is gone, or with it all of them.
LEMMA UplinkGivenBack ==
    ASSUME NEW s \in LibStates, NEW i \in ULSlots
    PROVE  LET t == cmtspeech_ul_buffer_release(s, i, {})
           IN  \/ /\ t.speech_config_resp_pend = s.speech_config_resp_pend
                  /\ t.slot_size = s.slot_size /\ t.drv_size = s.drv_size
                  /\ t.ul_locked = s.ul_locked \ {i} /\ t.ul_desc = s.ul_desc
               \/ /\ s.speech_config_resp_pend /\ s.ul_locked \subseteq {i}
                  /\ Fresh(t, s.slot_size)
<1> DEFINE e == Entered(s)
           b == Assert(e, "ul_buffer_release", s.proto_state = "ACTIVE_DLUL")
           u == [b EXCEPT !.ul_locked = b.ul_locked \ {i}]
           a == Assert(u, "layout_change_released", i \in s.ul_locked /\ s.ul_desc = 0)
           r == LayoutChangeReleased(a, {})
           z == Assert(r, "ul_buffer_release", r.ul_desc > 0)
           t == cmtspeech_ul_buffer_release(s, i, {})
<1>1. e \in LibStates /\ SameSlots(e, s) /\ e.sent = <<>>
    BY EnteredEffects
<1>2. {"ul_buffer_release", "layout_change_released"} \subseteq Assertions
    BY DEF Assertions
<1>3. t = IF ~s.speech_config_resp_pend THEN u ELSE z
    BY Zenon DEF cmtspeech_ul_buffer_release
<1> HIDE DEF e, t
<1>4. b \in LibStates /\ SameSlots(b, e) /\ b.sent = e.sent
    BY <1>1, <1>2, AssertTyped, AssertEffects
<1> HIDE DEF b
<1>5. u \in LibStates
    <2>1. b.ul_locked \ {i} \in SUBSET ULSlots
        BY <1>4, Fields
    <2> QED
        BY <1>4, <2>1, Zenon DEF LibStates
<1>6. /\ u.sent = b.sent /\ u.speech_config_resp_pend = b.speech_config_resp_pend
      /\ u.slot_size = b.slot_size /\ u.drv_size = b.drv_size
      /\ u.ul_locked = b.ul_locked \ {i} /\ u.ul_desc = b.ul_desc
    BY <1>4 DEF LibStates
<1> HIDE DEF u
<1>7. a \in LibStates /\ SameSlots(a, u) /\ a.sent = u.sent
    BY <1>2, <1>5, AssertTyped, AssertEffects
<1> HIDE DEF a
<1>8. SameSlots(z, a) \/ (Unlocked(a) /\ Fresh(z, a.slot_size))
    BY <1>1, <1>4, <1>6, <1>7, LayoutGivenBack
<1> HIDE DEF z
<1>9. s.speech_config_resp_pend \in BOOLEAN
    BY Fields
<1>10. a.slot_size = s.slot_size /\ a.ul_locked = s.ul_locked \ {i}
    BY <1>1, <1>4, <1>6, <1>7 DEF SameSlots
<1>11. CASE s.speech_config_resp_pend /\ Unlocked(a) /\ Fresh(z, a.slot_size)
    <2>1. s.ul_locked \subseteq {i}
        BY <1>10, <1>11 DEF Unlocked
    <2>2. Fresh(t, s.slot_size)
        BY <1>3, <1>10, <1>11
    <2> QED
        BY <1>11, <2>1, <2>2 DEF t
<1>12. CASE SameSlots(z, a) \/ ~s.speech_config_resp_pend
    <2>1. /\ t.speech_config_resp_pend = s.speech_config_resp_pend
          /\ t.slot_size = s.slot_size /\ t.drv_size = s.drv_size
          /\ t.ul_locked = s.ul_locked \ {i} /\ t.ul_desc = s.ul_desc
        BY <1>1, <1>3, <1>4, <1>6, <1>7, <1>12 DEF SameSlots
    <2> QED
        BY <2>1 DEF t
<1> QED
    BY <1>8, <1>9, <1>11, <1>12

\* The same for a buffer of the downlink.
LEMMA DownlinkGivenBack ==
    ASSUME NEW s \in LibStates, NEW i \in DLSlots
    PROVE  LET t == cmtspeech_dl_buffer_release(s, i, {})
           IN  \/ UplinkKept(t, s)
               \/ /\ s.speech_config_resp_pend /\ s.ul_locked = {}
                  /\ Fresh(t, s.slot_size)
<1> DEFINE e == Entered(s)
           u == [e EXCEPT !.dl_locked = e.dl_locked \ {i}]
           a == Assert(u, "layout_change_released", s.dl_desc = 0)
           r == LayoutChangeReleased(a, {})
           z == Assert(r, "dl_buffer_release", r.dl_desc > 0)
           t == cmtspeech_dl_buffer_release(s, i, {})
<1>1. e \in LibStates /\ SameSlots(e, s) /\ e.sent = <<>>
    BY EnteredEffects
<1>2. {"dl_buffer_release", "layout_change_released"} \subseteq Assertions
    BY DEF Assertions
<1>3. t = IF i \notin s.dl_locked THEN e
          ELSE IF ~s.speech_config_resp_pend THEN u ELSE z
    BY Zenon DEF cmtspeech_dl_buffer_release
<1> HIDE DEF e, t
<1>4. u \in LibStates
    <2>1. e.dl_locked \ {i} \in SUBSET DLSlots
        BY <1>1, Fields
    <2> QED
        BY <1>1, <2>1, Zenon DEF LibStates
<1>5. u.sent = e.sent /\ UplinkKept(u, e)
    BY <1>1 DEF UplinkKept, LibStates
<1> HIDE DEF u
<1>6. a \in LibStates /\ SameSlots(a, u) /\ a.sent = u.sent
    BY <1>2, <1>4, AssertTyped, AssertEffects
<1> HIDE DEF a
<1>7. SameSlots(z, a) \/ (Unlocked(a) /\ Fresh(z, a.slot_size))
    BY <1>1, <1>5, <1>6, LayoutGivenBack
<1> HIDE DEF z
<1>8. UplinkKept(e, s) /\ UplinkKept(u, s) /\ UplinkKept(a, s)
    BY <1>1, <1>5, <1>6 DEF UplinkKept, SameSlots
<1>9. CASE t = e \/ t = u
    BY <1>8, <1>9 DEF t
<1>10. CASE t = z /\ s.speech_config_resp_pend
    <2>1. CASE SameSlots(z, a)
        <3>1. UplinkKept(t, s)
            BY <1>8, <1>10, <2>1 DEF UplinkKept, SameSlots
        <3> QED
            BY <3>1 DEF t
    <2>2. CASE Unlocked(a) /\ Fresh(z, a.slot_size)
        <3>1. s.ul_locked = {} /\ Fresh(t, s.slot_size)
            BY <1>8, <1>10, <2>2 DEF UplinkKept, Unlocked
        <3> QED
            BY <1>10, <3>1 DEF t
    <2> QED
        BY <1>7, <2>1, <2>2
<1> QED
    BY <1>3, <1>9, <1>10

\* Acquiring a buffer of the downlink, also the echo of a test ramp
LEMMA DownlinkGivenOut ==
    ASSUME NEW s \in LibStates, NEW i \in DLSlots
    PROVE  UplinkKept(cmtspeech_dl_buffer_acquire(s, i), s)
<1> DEFINE e == Entered(s)
           l == [e EXCEPT !.dl_locked = e.dl_locked \cup {i}]
           a == Assert(l, "dl_buffer_acquire", s.dl_desc = s.slot_size)
           d == StateChangeTo(a, "DISCONNECTED", "IN_SYNC")
<1>1. e \in LibStates /\ SameSlots(e, s)
    BY EnteredEffects
<1>2. cmtspeech_dl_buffer_acquire(s, i)
        = IF s.proto_state = "TEST_RAMP_PING_ACTIVE" THEN d ELSE a
    BY Zenon DEF cmtspeech_dl_buffer_acquire
<1> HIDE DEF e
<1>3. l \in LibStates
    <2>1. e.dl_locked \cup {i} \in SUBSET DLSlots
        BY <1>1, Fields
    <2> QED
        BY <1>1, <2>1, Zenon DEF LibStates
<1>4. UplinkKept(l, e)
    BY <1>1 DEF UplinkKept, LibStates
<1>5. "dl_buffer_acquire" \in Assertions
    BY DEF Assertions
<1> HIDE DEF l
<1>6. a \in LibStates /\ SameSlots(a, l)
    BY <1>3, <1>5, AssertTyped, AssertEffects
<1> HIDE DEF a
<1>7. SameSlots(d, a)
    BY <1>6, ChangeEffects
<1> HIDE DEF d
<1> QED
    BY <1>1, <1>2, <1>4, <1>6, <1>7 DEF UplinkKept, SameSlots

\* The buffers the library knows to be held are locked, a reply is owed while
\* any of them has been invalidated, and none of those is transmitted.
UplinkInv ==
    /\ UplinkOK
    /\ \A i : <<"UL", i>> \in held \ lost => i \in lib.ul_locked
    /\ \A i : <<"UL", i>> \in changed => lib.speech_config_resp_pend
    /\ InvalidatedNotSent

\* The directions keep the buffers apart.
LEMMA BuffersApart ==
    \A i, j : (<<"UL", i>> = <<"UL", j>> => i = j) /\ <<"UL", i>> # <<"DL", j>>
    OBVIOUS

\* cmtspeech_ul_buffer_release goes round the slots.
LEMMA SlotsInTurn ==
    /\ 0 \in ULSlots
    /\ \A i \in ULSlots : NextSlot(i) \in ULSlots
<1>1. UL_SLOTS \in Nat \ {0} /\ ULSlots = 0 .. UL_SLOTS - 1
    BY UplinkAssumption
<1>2. \A k \in Nat : k % UL_SLOTS \in 0 .. UL_SLOTS - 1
    BY <1>1
<1>3. ASSUME NEW i \in ULSlots PROVE NextSlot(i) \in ULSlots
    <2>1. i + 1 \in Nat
        BY <1>1
    <2>2. (i + 1) % UL_SLOTS \in ULSlots
        BY <1>1, <1>2, <2>1, Zenon
    <2> QED
        BY <2>2 DEF NextSlot
<1>4. 0 \in ULSlots
    BY <1>1
<1> QED
    BY <1>3, <1>4

\* A reset: the application does not know it yet, but holds nothing.
LEMMA UplinkAfterReset ==
    ASSUME Fresh(lib', 0), Reset PROVE UplinkInv'
<1>1. lib'.slot_size = 0 /\ lib'.ul_desc = 0
    BY DEF Fresh
<1>2. /\ ul_slot_app' = -1 /\ ul_errors' = 0 /\ tx' = NoTx
      /\ lost' = held' /\ changed' = {}
    BY <1>1 DEF Reset, Configured
<1>3. UplinkOK'
    BY <1>1, <1>2, UplinkAssumption DEF UplinkOK
<1> QED
    BY <1>2, <1>3 DEF UplinkInv, InvalidatedNotSent, NoTx

\* A new layout, when the application holds no buffer but forgotten ones.
LEMMA UplinkAfterLayout ==
    ASSUME UplinkInv, NEW size \in Nat, Fresh(lib', size), Configured, StillHeld,
           held' \subseteq held, \A i : <<"UL", i>> \notin held' \ lost
    PROVE  UplinkInv'
<1>1. lib'.slot_size = size /\ lib'.ul_desc = size
    BY DEF Fresh
<1>2. /\ ul_slot_app' = IF size > 0 THEN 0 ELSE -1
      /\ ul_errors' = 0 /\ tx' = NoTx
    BY <1>1 DEF Configured
<1>3. /\ changed' = changed \cap held' /\ lost' = lost \cap held'
      /\ changed \cap lost = {} /\ changed \cup lost \subseteq held
    BY DEF StillHeld, UplinkInv, UplinkOK
<1>4. changed' \cup lost' \subseteq held' /\ changed' \cap lost' = {}
    BY <1>3
<1>5. /\ ul_slot_app' \in ULSlots \cup {-1}
      /\ ul_errors' \in 0 .. MAX_UL_ERRORS_PAUSE
      /\ lib'.ul_desc > 0 => ul_slot_app' >= 0
    BY <1>1, <1>2, SlotsInTurn, UplinkAssumption
<1>6. UplinkOK'
    BY <1>2, <1>4, <1>5 DEF UplinkOK
<1>7. \A i : <<"UL", i>> \notin held' \ lost' /\ <<"UL", i>> \notin changed'
    BY <1>3
<1> QED
    BY <1>2, <1>6, <1>7 DEF UplinkInv, InvalidatedNotSent, NoTx

\* The buffers of the uplink stay as they are.
LEMMA UplinkGoesOn ==
    ASSUME UplinkInv, UplinkKept(lib', lib),
           UNCHANGED <<ul_slot_app, tx, changed, lost>>,
           ul_errors' \in {0, ul_errors}, held \subseteq held',
           \A i : <<"UL", i>> \in held' => <<"UL", i>> \in held
    PROVE  UplinkInv'
<1>1. /\ lib'.ul_locked = lib.ul_locked /\ lib'.ul_desc = lib.ul_desc
      /\ lib'.speech_config_resp_pend = lib.speech_config_resp_pend
    BY DEF UplinkKept
<1>2. ul_slot_app' = ul_slot_app /\ tx' = tx /\ changed' = changed /\ lost' = lost
    OBVIOUS
<1>3. UplinkOK'
    <2>1. changed' \cup lost' \subseteq held' /\ changed' \cap lost' = {}
        BY <1>2 DEF UplinkInv, UplinkOK
    <2>2. ul_errors' \in 0 .. MAX_UL_ERRORS_PAUSE
        BY UplinkAssumption DEF UplinkInv, UplinkOK
    <2> QED
        BY <1>1, <1>2, <2>1, <2>2 DEF UplinkInv, UplinkOK
<1>4. \A i : <<"UL", i>> \in held' \ lost' => i \in lib'.ul_locked
    BY <1>1, <1>2 DEF UplinkInv
<1>5. \A i : <<"UL", i>> \in changed' => lib'.speech_config_resp_pend
    BY <1>1, <1>2 DEF UplinkInv
<1> QED
    BY <1>2, <1>3, <1>4, <1>5 DEF UplinkInv, InvalidatedNotSent

\* cmtspeech_check_pending
LEMMA PendingUplink ==
    ASSUME TypeOK, LinkAssumption, UplinkInv, UCheckPending PROVE UplinkInv'
<1> DEFINE m == toLib[1]
           s == Handled(m)
<1>1. /\ m \in ModemMsgs /\ s \in LibStates /\ Steps(s) /\ held' = held
      /\ Head(toLib) = m /\ lib \in LibStates
    <2>1. CheckPending /\ toLib \in Seq(ModemMsgs) /\ toLib # <<>> /\ lib \in LibStates
        BY DEF UCheckPending, CheckPending, TypeOK
    <2> QED
        BY <2>1, Checked, QueueSteps
<1>2. /\ m.type = "SPEECH_CONFIG_REQ" => LayoutChanges
      /\ m.type = "RESET_CONN_REQ" => Reset
      /\ m.type \notin {"SPEECH_CONFIG_REQ", "RESET_CONN_REQ"} =>
            UNCHANGED <<uplink, changed, lost>>
    BY <1>1 DEF UCheckPending
<1> HIDE DEF m
<1>3. lib' \in LibStates /\ SameSlots(lib', s)
    BY <1>1, Returned DEF SameSlots
<1>4. CASE m.type = "SPEECH_CONFIG_REQ"
    <2> DEFINE on == m.stream # "off"
               rate == IF m.stream = "off" THEN "8kHz" ELSE m.stream
               size == IF on THEN SlotSize(rate) ELSE 0
               priv == IF on THEN "CONFIG_ACT_PEND" ELSE "CONFIG_DEACT_PEND"
    <2>1. s = HandleSpeechConfigReq(lib, on, rate, {})
        BY <1>4, HandledIs
    <2>2. rate \in Rates /\ on \in BOOLEAN
        BY <1>1 DEF ModemMsgs, Streams, Rates, LinkAssumption
    <2>3. size \in Nat
        BY <2>2 DEF Rates, SlotSize
    <2> HIDE DEF on, rate, s
    <2>4. IF Unlocked(lib)
          THEN Replied(s, lib.proto_state, priv, lib.call_server_active, size)
          ELSE Waits(s, lib, priv, size)
        BY <1>1, <2>1, <2>2, SpeechConfigEffects
    <2> HIDE DEF size, priv
    <2>5. LayoutChanges
        BY <1>2, <1>4
    <2>6. CASE Unlocked(lib)
        <3>1. Fresh(lib', size)
            BY <1>3, <2>4, <2>6 DEF Replied, SameSlots, Fresh
        <3>2. Configured /\ StillHeld
            BY <2>5, <2>6 DEF LayoutChanges
        <3>3. \A i : <<"UL", i>> \notin held' \ lost
            BY <1>1, <2>6 DEF UplinkInv, Unlocked
        <3> QED
            BY <1>1, <2>3, <3>1, <3>2, <3>3, UplinkAfterLayout
    <2>7. CASE ~Unlocked(lib)
        <3>1. /\ lib'.speech_config_resp_pend /\ lib'.ul_locked = lib.ul_locked
            BY <1>3, <2>4, <2>7 DEF Waits, SameSlots
        <3>2. lib'.ul_desc = 0
            BY <1>1, <1>3, <2>1, <2>2, <2>7, WaitInvalidates DEF SameSlots
        <3>3. /\ changed' = held \ lost /\ lost' = lost /\ tx' = tx
              /\ ul_slot_app' = ul_slot_app /\ ul_errors' = ul_errors
            BY <2>5, <2>7 DEF LayoutChanges, uplink
        <3>4. UplinkOK'
            BY <1>1, <3>2, <3>3 DEF UplinkInv, UplinkOK
        <3> QED
            BY <1>1, <3>1, <3>3, <3>4 DEF UplinkInv, InvalidatedNotSent
    <2> QED
        BY <2>6, <2>7
<1>5. CASE m.type = "RESET_CONN_REQ"
    <2>1. s = HandleResetConnReq(lib, {})
        BY <1>5, HandledIs
    <2>2. Fresh(s, 0)
        BY <1>1, <2>1, ResetEffects
    <2> HIDE DEF s
    <2>3. Fresh(lib', 0)
        BY <1>3, <2>2 DEF SameSlots, Fresh
    <2> QED
        BY <1>2, <1>5, <2>3, UplinkAfterReset
<1>6. CASE m.type \notin {"SPEECH_CONFIG_REQ", "RESET_CONN_REQ"}
    <2>1. \/ s = HandleUplinkConfigNtf(lib) \/ s = HandleTimingConfigNtf(lib)
          \/ s = HandleSsiConfigResp(lib, TRUE, "inorder", {})
          \/ s = HandleResetConnResp(lib, {})
        BY <1>1, <1>6, HandledIs DEF ModemMsgs
    <2>2. SameSlots(s, lib) \/ UplinkKept(s, lib)
        BY <1>1, <2>1, NotificationEffects, AnswerKeepsUplink, ResetEffects
    <2> HIDE DEF s
    <2>3. UplinkKept(lib', lib)
        BY <1>3, <2>2 DEF UplinkKept, SameSlots
    <2>4. UNCHANGED <<uplink, changed, lost>>
        BY <1>2, <1>6
    <2> QED
        BY <1>1, <2>3, <2>4, UplinkGoesOn DEF uplink
<1> QED
    BY <1>4, <1>5, <1>6

\* A call that starts or ends, and an error of the application
LEMMA RelayUplink ==
    ASSUME TypeOK, UplinkInv, URelay PROVE UplinkInv'
<1> DEFINE s == cmtspeech_state_change_call_status(lib, call, {})
<1>1. /\ lib \in LibStates /\ call \in BOOLEAN /\ s \in LibStates
      /\ Steps(s) /\ held' = held
    BY Relayed DEF URelay, TypeOK
<1>2. lib' \in LibStates /\ SameSlots(lib', s)
    BY <1>1, Returned DEF SameSlots
<1> DEFINE resets == call /\ lib.proto_state \in {"INVALID", "TEST_RAMP_PING_ACTIVE"}
<1>3. CASE resets
    <2>1. s = cmtspeech_state_change_call_status(lib, TRUE, {})
        BY <1>1, <1>3
    <2>2. Fresh(s, 0)
        BY <1>1, <1>3, <2>1, CallKeepsSlots
    <2> HIDE DEF s
    <2>3. Fresh(lib', 0)
        BY <1>2, <2>2 DEF SameSlots, Fresh
    <2>4. Reset
        BY <1>3 DEF URelay
    <2> QED
        BY <2>3, <2>4, UplinkAfterReset
<1>4. CASE ~resets
    <2>1. UplinkKept(s, lib)
        <3>1. CASE call = TRUE
            <4>1. SameSlots(cmtspeech_state_change_call_status(lib, TRUE, {}), lib)
                BY <1>1, <1>4, <3>1, CallKeepsSlots
            <4> QED
                BY <3>1, <4>1 DEF UplinkKept, SameSlots
        <3>2. CASE call = FALSE
            <4>1. SameSlots(cmtspeech_state_change_call_status(lib, FALSE, {}), lib)
                BY <1>1, StatusEffects
            <4> QED
                BY <3>2, <4>1 DEF UplinkKept, SameSlots
        <3> QED
            BY <1>1, <3>1, <3>2
    <2> HIDE DEF s
    <2>2. UplinkKept(lib', lib)
        BY <1>2, <2>1 DEF UplinkKept, SameSlots
    <2>3. UNCHANGED <<uplink, changed, lost>>
        BY <1>4 DEF URelay
    <2> QED
        BY <1>1, <2>2, <2>3, UplinkGoesOn DEF uplink
<1> QED
    BY <1>3, <1>4

\* An error of the driver gives every slot back.
LEMMA ErrorUplink ==
    ASSUME TypeOK, UError PROVE UplinkInv'
<1> DEFINE s == cmtspeech_state_change_error(lib, {})
<1>1. lib \in LibStates /\ Steps(s) /\ Reset
    BY DEF UError, Error, TypeOK
<1>2. s \in LibStates /\ Fresh(s, 0)
    BY <1>1, CallsTyped, StatusEffects
<1> HIDE DEF s
<1>3. Fresh(lib', 0)
    BY <1>1, <1>2, Returned DEF Fresh
<1> QED
    BY <1>1, <1>3, UplinkAfterReset

\* The application asks for a buffer.
LEMMA AcquireUplink ==
    ASSUME TypeOK, UplinkInv, AcquireUL \/ AcquireDL PROVE UplinkInv'
<1>1. lib \in LibStates /\ Acquire
    BY DEF TypeOK, AcquireUL, AcquireDL
<1>2. CASE AcquireUL
    <2> DEFINE j == ul_slot_app
               s == cmtspeech_ul_buffer_acquire(lib, j)
    <2>1. /\ j \in ULSlots /\ held' = held \cup {<<"UL", j>>}
          /\ ul_slot_app' = NextSlot(j)
          /\ UNCHANGED <<ul_errors, tx, changed, lost>>
        BY <1>2 DEF AcquireUL, ULAvailable
    <2>2. <<"UL", j>> \notin held /\ Steps(s)
        <3>1. CASE \E i \in ULAvailable(lib) :
                        /\ <<"UL", i>> \notin held
                        /\ held' = held \cup {<<"UL", i>>}
                        /\ Steps(cmtspeech_ul_buffer_acquire(lib, i))
            <4>1. PICK i \in ULAvailable(lib) :
                        /\ <<"UL", i>> \notin held
                        /\ held' = held \cup {<<"UL", i>>}
                        /\ Steps(cmtspeech_ul_buffer_acquire(lib, i))
                BY <3>1
            <4>2. <<"UL", i>> = <<"UL", j>>
                BY <2>1, <4>1
            <4>3. i = j
                BY <4>2, BuffersApart
            <4> QED
                BY <4>1, <4>3
        <3>2. CASE \E i \in DLAvailable(lib) :
                        /\ <<"DL", i>> \notin held
                        /\ held' = held \cup {<<"DL", i>>}
            <4>1. PICK i \in DLAvailable(lib) :
                        /\ <<"DL", i>> \notin held
                        /\ held' = held \cup {<<"DL", i>>}
                BY <3>2
            <4>2. <<"UL", j>> = <<"DL", i>>
                BY <2>1, <4>1
            <4> QED
                BY <4>2, BuffersApart
        <3> QED
            BY <1>1, <3>1, <3>2, Zenon DEF Acquire
    <2>3. s \in LibStates
        BY <1>1, <2>1, CallsTyped
    <2>4. Relocked(s, lib) /\ s.ul_locked = lib.ul_locked \cup {j}
        BY <1>1, <2>1, AcquireEffects
    <2> HIDE DEF s
    <2>5. /\ lib'.ul_locked = lib.ul_locked \cup {j} /\ lib'.ul_desc = lib.ul_desc
          /\ lib'.speech_config_resp_pend = lib.speech_config_resp_pend
        BY <2>2, <2>3, <2>4, Returned DEF Relocked
    <2>6. UplinkOK'
        <3>1. ul_slot_app' \in ULSlots
            BY <2>1, SlotsInTurn
        <3>2. ul_slot_app' >= 0
            BY <3>1, UplinkAssumption
        <3>3. changed' \cup lost' \subseteq held' /\ changed' \cap lost' = {}
            BY <2>1 DEF UplinkInv, UplinkOK
        <3> HIDE DEF j
        <3> QED
            BY <2>1, <2>5, <3>1, <3>2, <3>3 DEF UplinkInv, UplinkOK
    <2>7. \A i : <<"UL", i>> \in held' \ lost' => i \in lib'.ul_locked
        BY <2>1, <2>5, BuffersApart DEF UplinkInv
    <2>8. \A i : <<"UL", i>> \in changed' => lib'.speech_config_resp_pend
        BY <2>1, <2>5 DEF UplinkInv
    <2> QED
        BY <2>1, <2>6, <2>7, <2>8 DEF UplinkInv, InvalidatedNotSent
<1>3. CASE AcquireDL
    <2>1. PICK j \in DLSlots : held' = held \cup {<<"DL", j>>}
        BY <1>3 DEF AcquireDL
    <2>2. UNCHANGED <<uplink, changed, lost>>
        BY <1>3 DEF AcquireDL
    <2>3. PICK i \in DLSlots : Steps(cmtspeech_dl_buffer_acquire(lib, i))
        <3>1. CASE \E i \in ULAvailable(lib) :
                        /\ <<"UL", i>> \notin held
                        /\ held' = held \cup {<<"UL", i>>}
            <4>1. PICK i \in ULAvailable(lib) :
                        /\ <<"UL", i>> \notin held
                        /\ held' = held \cup {<<"UL", i>>}
                BY <3>1
            <4>2. <<"UL", i>> = <<"DL", j>>
                BY <2>1, <4>1
            <4> QED
                BY <4>2, BuffersApart
        <3>2. CASE \E i \in DLAvailable(lib) : Steps(cmtspeech_dl_buffer_acquire(lib, i))
            BY <3>2 DEF DLAvailable
        <3> QED
            BY <1>1, <3>1, <3>2, Zenon DEF Acquire
    <2> DEFINE s == cmtspeech_dl_buffer_acquire(lib, i)
    <2>4. s \in LibStates /\ UplinkKept(s, lib)
        BY <1>1, CallsTyped, DownlinkGivenOut
    <2>5. Steps(s)
        BY <2>3
    <2> HIDE DEF s
    <2>6. UplinkKept(lib', lib)
        BY <2>4, <2>5, Returned DEF UplinkKept
    <2>7. held \subseteq held' /\ \A k : <<"UL", k>> \in held' => <<"UL", k>> \in held
        BY <2>1, BuffersApart
    <2> QED
        BY <2>2, <2>6, <2>7, UplinkGoesOn DEF uplink
<1> QED
    BY <1>2, <1>3

\* What is transmitted is a valid buffer, or one from before a reset.
LEMMA FrameSent ==
    ASSUME UplinkInv, NEW i \in ULSlots, SendFrame(i)
    PROVE  /\ ul_errors' \in 0 .. MAX_UL_ERRORS_PAUSE
           /\ \/ tx' = tx
              \/ /\ tx' \in [slot : ULSlots, buffer : {"good", "lost", "changed"}]
                 /\ tx'.buffer # "changed"
                 /\ ~lib.speech_config_resp_pend /\ lib.proto_state = "ACTIVE_DLUL"
<1>1. ul_errors \in 0 .. MAX_UL_ERRORS_PAUSE /\ MAX_UL_ERRORS_PAUSE \in Nat \ {0}
    BY UplinkAssumption DEF UplinkInv, UplinkOK
<1>2. CASE UNCHANGED <<ul_errors, tx>>
    BY <1>1, <1>2
<1>3. CASE /\ ~lib.speech_config_resp_pend /\ ul_errors < MAX_UL_ERRORS_PAUSE
           /\ lib.proto_state = "ACTIVE_DLUL" /\ Transmit(i)
    <2>1. ul_errors' \in 0 .. MAX_UL_ERRORS_PAUSE
        BY <1>1, <1>3 DEF Transmit
    <2>2. Buffer(i) \in {"good", "lost"}
        BY <1>3 DEF Buffer, UplinkInv
    <2>3. tx' = tx \/ tx' = [slot |-> i, buffer |-> Buffer(i)]
        BY <1>3 DEF Transmit
    <2> QED
        BY <1>3, <2>1, <2>2, <2>3
<1> QED
    BY <1>1, <1>2, <1>3 DEF SendFrame

\* The application gives a buffer back.
LEMMA ReleaseUplink ==
    ASSUME TypeOK, UplinkInv, ReleaseUL \/ ReleaseDL PROVE UplinkInv'
<1>1. lib \in LibStates /\ lib.slot_size \in Nat /\ Release /\ StillHeld
    BY Fields DEF TypeOK, ReleaseUL, ReleaseDL
<1>2. changed' = changed \cap held' /\ lost' = lost \cap held'
    BY <1>1 DEF StillHeld
<1>3. lib.speech_config_resp_pend \in BOOLEAN
    BY <1>1, Fields
<1>4. CASE ReleaseUL
    <2>1. PICK j \in ULSlots :
            /\ held' = held \ {<<"UL", j>>}
            /\ IF ReplySent THEN Configured
               ELSE SendFrame(j) /\ UNCHANGED ul_slot_app
        BY <1>4 DEF ReleaseUL
    <2> DEFINE s == cmtspeech_ul_buffer_release(lib, j, {})
    <2>2. Steps(s)
        <3>1. CASE \E i \in ULSlots :
                        /\ <<"UL", i>> \in held
                        /\ held' = held \ {<<"UL", i>>}
                        /\ Steps(cmtspeech_ul_buffer_release(lib, i, {}))
            <4>1. PICK i \in ULSlots :
                        /\ <<"UL", i>> \in held
                        /\ held' = held \ {<<"UL", i>>}
                        /\ Steps(cmtspeech_ul_buffer_release(lib, i, {}))
                BY <3>1
            <4>2. <<"UL", i>> = <<"UL", j>>
                BY <2>1, <4>1
            <4>3. i = j
                BY <4>2, BuffersApart
            <4> QED
                BY <4>1, <4>3
        <3>2. CASE \E i \in DLSlots :
                        /\ <<"DL", i>> \in held
                        /\ held' = held \ {<<"DL", i>>}
            <4>1. PICK i \in DLSlots :
                        /\ <<"DL", i>> \in held
                        /\ held' = held \ {<<"DL", i>>}
                BY <3>2
            <4>2. <<"UL", j>> = <<"DL", i>>
                BY <2>1, <4>1
            <4> QED
                BY <4>2, BuffersApart
        <3> QED
            BY <1>1, <3>1, <3>2, Zenon DEF Release
    <2>3. s \in LibStates
        BY <1>1, CallsTyped
    <2>4. \/ /\ s.speech_config_resp_pend = lib.speech_config_resp_pend
             /\ s.ul_locked = lib.ul_locked \ {j} /\ s.ul_desc = lib.ul_desc
          \/ /\ lib.speech_config_resp_pend /\ lib.ul_locked \subseteq {j}
             /\ Fresh(s, lib.slot_size)
        BY <1>1, UplinkGivenBack
    <2> HIDE DEF s
    <2>5. SameSlots(lib', s)
        BY <2>2, <2>3, Returned DEF SameSlots
    <2>6. CASE /\ s.speech_config_resp_pend = lib.speech_config_resp_pend
               /\ s.ul_locked = lib.ul_locked \ {j} /\ s.ul_desc = lib.ul_desc
        <3>1. /\ lib'.ul_locked = lib.ul_locked \ {j} /\ lib'.ul_desc = lib.ul_desc
              /\ lib'.speech_config_resp_pend = lib.speech_config_resp_pend
            BY <2>5, <2>6 DEF SameSlots
        <3>2. SendFrame(j) /\ ul_slot_app' = ul_slot_app
            BY <2>1, <3>1 DEF ReplySent
        <3>3. /\ ul_errors' \in 0 .. MAX_UL_ERRORS_PAUSE
              /\ \/ tx' = tx
                 \/ /\ tx' \in [slot : ULSlots, buffer : {"good", "lost", "changed"}]
                    /\ tx'.buffer # "changed"
            BY <3>2, FrameSent
        <3>4. UplinkOK'
            <4>1. changed' \cup lost' \subseteq held' /\ changed' \cap lost' = {}
                BY <1>2 DEF UplinkInv, UplinkOK
            <4> QED
                BY <3>1, <3>2, <3>3, <4>1 DEF UplinkInv, UplinkOK
        <3>5. \A i : <<"UL", i>> \in held' \ lost' => i \in lib'.ul_locked
            BY <1>2, <2>1, <3>1 DEF UplinkInv
        <3>6. \A i : <<"UL", i>> \in changed' => lib'.speech_config_resp_pend
            BY <1>2, <3>1 DEF UplinkInv
        <3>7. tx'.buffer # "changed"
            BY <3>3 DEF UplinkInv, InvalidatedNotSent
        <3> QED
            BY <3>4, <3>5, <3>6, <3>7 DEF UplinkInv, InvalidatedNotSent
    <2>7. CASE /\ lib.speech_config_resp_pend /\ lib.ul_locked \subseteq {j}
               /\ Fresh(s, lib.slot_size)
        <3>1. Fresh(lib', lib.slot_size)
            BY <2>5, <2>7 DEF SameSlots, Fresh
        <3>2. Configured
            BY <2>1, <2>7, <3>1 DEF ReplySent, Fresh
        <3>3. held' \subseteq held /\ \A i : <<"UL", i>> \notin held' \ lost
            BY <2>1, <2>7 DEF UplinkInv
        <3> QED
            BY <1>1, <3>1, <3>2, <3>3, UplinkAfterLayout
    <2> QED
        BY <2>4, <2>6, <2>7
<1>5. CASE ReleaseDL
    <2>1. PICK j \in DLSlots : held' = held \ {<<"DL", j>>}
        BY <1>5 DEF ReleaseDL
    <2>2. IF ReplySent THEN Configured ELSE UNCHANGED uplink
        BY <1>5 DEF ReleaseDL
    <2>3. PICK i \in DLSlots : Steps(cmtspeech_dl_buffer_release(lib, i, {}))
        <3>1. CASE \E i \in ULSlots :
                        /\ <<"UL", i>> \in held
                        /\ held' = held \ {<<"UL", i>>}
            <4>1. PICK i \in ULSlots :
                        /\ <<"UL", i>> \in held
                        /\ held' = held \ {<<"UL", i>>}
                BY <3>1
            <4>2. <<"UL", i>> = <<"DL", j>>
                BY <2>1, <4>1
            <4> QED
                BY <4>2, BuffersApart
        <3>2. CASE \E i \in DLSlots : Steps(cmtspeech_dl_buffer_release(lib, i, {}))
            BY <3>2
        <3> QED
            BY <1>1, <3>1, <3>2, Zenon DEF Release
    <2> DEFINE s == cmtspeech_dl_buffer_release(lib, i, {})
    <2>4. /\ s \in LibStates
          /\ \/ UplinkKept(s, lib)
             \/ /\ lib.speech_config_resp_pend /\ lib.ul_locked = {}
                /\ Fresh(s, lib.slot_size)
        BY <1>1, CallsTyped, DownlinkGivenBack
    <2>5. Steps(s)
        BY <2>3
    <2> HIDE DEF s
    <2>6. SameSlots(lib', s)
        BY <2>4, <2>5, Returned DEF SameSlots
    <2>7. \A k : <<"UL", k>> \in held' <=> <<"UL", k>> \in held
        BY <2>1, BuffersApart
    <2>8. CASE UplinkKept(s, lib)
        <3>1. /\ lib'.ul_locked = lib.ul_locked /\ lib'.ul_desc = lib.ul_desc
              /\ lib'.speech_config_resp_pend = lib.speech_config_resp_pend
            BY <2>6, <2>8 DEF UplinkKept, SameSlots
        <3>2. ul_slot_app' = ul_slot_app /\ ul_errors' = ul_errors /\ tx' = tx
            BY <2>2, <3>1 DEF ReplySent, uplink
        <3>3. changed' \cup lost' \subseteq held' /\ changed' \cap lost' = {}
            BY <1>2 DEF UplinkInv, UplinkOK
        <3>4. UplinkOK'
            BY <3>1, <3>2, <3>3 DEF UplinkInv, UplinkOK
        <3>5. \A k : <<"UL", k>> \in held' \ lost' => k \in lib'.ul_locked
            BY <1>2, <2>7, <3>1 DEF UplinkInv
        <3>6. \A k : <<"UL", k>> \in changed' => lib'.speech_config_resp_pend
            BY <1>2, <3>1 DEF UplinkInv
        <3> QED
            BY <3>2, <3>4, <3>5, <3>6 DEF UplinkInv, InvalidatedNotSent
    <2>9. CASE /\ lib.speech_config_resp_pend /\ lib.ul_locked = {}
               /\ Fresh(s, lib.slot_size)
        <3>1. Fresh(lib', lib.slot_size)
            BY <2>6, <2>9 DEF SameSlots, Fresh
        <3>2. Configured
            BY <2>2, <2>9, <3>1 DEF ReplySent, Fresh
        <3>3. held' \subseteq held /\ \A k : <<"UL", k>> \notin held' \ lost
            BY <2>1, <2>9 DEF UplinkInv
        <3> QED
            BY <1>1, <3>1, <3>2, <3>3, UplinkAfterLayout
    <2> QED
        BY <2>4, <2>8, <2>9
<1> QED
    BY <1>4, <1>5

\* The uplink is in order whatever the modem, the network and the application
\* do, also on an impatient link.
THEOREM UplinkInvariant == USpec => []UplinkInv
<1>1. UInit => UplinkInv
    BY SlotsInTurn, UplinkAssumption
       DEF UInit, Init, Opened, UplinkInv, UplinkOK, InvalidatedNotSent, NoTx
<1>2. TypeOK /\ UplinkInv /\ [UNext]_uvars => UplinkInv'
    <2> SUFFICES ASSUME TypeOK, UplinkInv, [UNext]_uvars PROVE UplinkInv'
        OBVIOUS
    <2>1. CASE UNCHANGED uvars
        BY <2>1 DEF uvars, vars, uplink, UplinkInv, UplinkOK, InvalidatedNotSent
    <2>2. CASE UCheckPending
        BY <2>2, LinkAssumption, PendingUplink
    <2>3. CASE UDataReceived
        <3>1. DataReceived /\ UNCHANGED <<ul_slot_app, tx, changed, lost>> /\ ul_errors' = 0
            BY <2>3 DEF UDataReceived
        <3>2. SameSlots(lib', lib) /\ held' = held
            BY <3>1, DataArrives
        <3> QED
            BY <3>1, <3>2, UplinkGoesOn DEF UplinkKept, SameSlots
    <2>4. CASE URelay
        BY <2>4, RelayUplink
    <2>5. CASE UError
        BY <2>5, ErrorUplink
    <2>6. CASE AcquireUL \/ AcquireDL
        BY <2>6, AcquireUplink
    <2>7. CASE ReleaseUL \/ ReleaseDL
        BY <2>7, ReleaseUplink
    <2>8. CASE TxDone
        BY <2>8 DEF TxDone, vars, UplinkInv, UplinkOK, InvalidatedNotSent, NoTx
    <2>9. CASE ModemSteps
        <3>1. lib' = lib /\ held' = held /\ UNCHANGED <<uplink, changed, lost>>
            BY <2>9 DEF ModemSteps, ModemReads, StartStream, ChangeStream, StopStream,
                        ModemReset, CallChanges, Asks, application
        <3> QED
            BY <3>1 DEF uplink, UplinkInv, UplinkOK, InvalidatedNotSent
    <2> QED
        BY <2>1, <2>2, <2>3, <2>4, <2>5, <2>6, <2>7, <2>8, <2>9 DEF UNext
<1> QED
    BY <1>1, <1>2, UplinkIsLink, LinkTypeCorrect, PTL DEF USpec

\* The position, the counter and the records of the uplink stay in range, and
\* an unlocked uplink always knows its next slot.
THEOREM UplinkAlwaysOK == USpec => []UplinkOK
<1>1. UplinkInv => UplinkOK
    BY DEF UplinkInv
<1> QED
    BY <1>1, UplinkInvariant, PTL

\* No buffer that a change of the stream has invalidated is transmitted.
THEOREM InvalidatedNeverSent == USpec => []InvalidatedNotSent
<1>1. UplinkInv => InvalidatedNotSent
    BY DEF UplinkInv
<1> QED
    BY <1>1, UplinkInvariant, PTL

-----------------------------------------------------------------------------
(* Frames and the stream                                                   *)

\* A frame on its way outlives neither a new layout nor a reset, and another one
\* is sent only while the uplink is active.
LEMMA FrameGoesOn ==
    ASSUME TypeOK, LinkAssumption, UplinkInv, UNext, tx' # NoTx
    PROVE  /\ \/ lib'.speech_config_resp_pend
              \/ /\ lib'.slot_size = lib.slot_size
                 /\ lib'.speech_config_resp_pend = lib.speech_config_resp_pend
           /\ tx # NoTx \/ lib.proto_state = "ACTIVE_DLUL"
           /\ \/ CheckPending /\ toLib[1].type # "RESET_CONN_REQ"
              \/ DataReceived \/ Relay \/ Acquire \/ Release \/ ModemReads
              \/ StartStream \/ ChangeStream \/ StopStream \/ CallChanges
              \/ ModemReset \/ UNCHANGED vars
<1> DEFINE Kept == /\ lib'.slot_size = lib.slot_size
                   /\ lib'.speech_config_resp_pend = lib.speech_config_resp_pend
<1>1. lib \in LibStates /\ ~Reset /\ ~Configured
    BY DEF TypeOK, Reset, Configured
<1>2. CASE UCheckPending
    <2>1. CheckPending /\ toLib \in Seq(ModemMsgs) /\ toLib # <<>>
        BY <1>2 DEF UCheckPending, CheckPending, TypeOK
    <2> DEFINE m == toLib[1]
               s == Handled(m)
    <2>2. m \in ModemMsgs /\ s \in LibStates /\ Steps(s) /\ Head(toLib) = m
        BY <2>1, Checked, QueueSteps
    <2> HIDE DEF m
    <2>3. SameSlots(lib', s)
        BY <2>2, Returned DEF SameSlots
    <2>4. m.type # "RESET_CONN_REQ"
        BY <1>1, <1>2, <2>2 DEF UCheckPending
    <2>5. CASE m.type = "SPEECH_CONFIG_REQ"
        <3>1. LayoutChanges
            BY <1>2, <2>2, <2>5 DEF UCheckPending
        <3>2. ~Unlocked(lib) /\ tx' = tx
            BY <1>1, <3>1 DEF LayoutChanges, uplink
        <3> DEFINE on == m.stream # "off"
                   rate == IF m.stream = "off" THEN "8kHz" ELSE m.stream
                   size == IF on THEN SlotSize(rate) ELSE 0
                   priv == IF on THEN "CONFIG_ACT_PEND" ELSE "CONFIG_DEACT_PEND"
        <3>3. s = HandleSpeechConfigReq(lib, on, rate, {})
            BY <2>5, HandledIs
        <3>4. rate \in Rates /\ on \in BOOLEAN
            BY <2>2 DEF ModemMsgs, Streams, Rates, LinkAssumption
        <3> HIDE DEF on, rate, s
        <3>5. Waits(s, lib, priv, size)
            BY <1>1, <3>2, <3>3, <3>4, SpeechConfigEffects
        <3> HIDE DEF size, priv
        <3>6. lib'.speech_config_resp_pend
            BY <2>3, <3>5 DEF Waits, SameSlots
        <3> QED
            BY <2>1, <2>4, <3>2, <3>6 DEF m
    <2>6. CASE m.type # "SPEECH_CONFIG_REQ"
        <3>1. \/ s = HandleUplinkConfigNtf(lib) \/ s = HandleTimingConfigNtf(lib)
              \/ s = HandleSsiConfigResp(lib, TRUE, "inorder", {})
              \/ s = HandleResetConnResp(lib, {})
            BY <2>2, <2>4, <2>6, HandledIs DEF ModemMsgs
        <3>2. SameSlots(s, lib) \/ UplinkKept(s, lib)
            BY <1>1, <3>1, NotificationEffects, AnswerKeepsUplink, ResetEffects
        <3> HIDE DEF s
        <3>3. Kept
            BY <2>3, <3>2 DEF UplinkKept, SameSlots
        <3>4. tx' = tx
            BY <1>2, <2>2, <2>4, <2>6 DEF UCheckPending, uplink
        <3> QED
            BY <2>1, <2>4, <3>3, <3>4 DEF m
    <2> QED
        BY <2>5, <2>6
<1>3. CASE UDataReceived
    <2>1. DataReceived /\ tx' = tx
        BY <1>3 DEF UDataReceived
    <2>2. SameSlots(lib', lib)
        BY <2>1, DataArrives
    <2> QED
        BY <2>1, <2>2 DEF SameSlots
<1>4. CASE URelay
    <2> DEFINE s == cmtspeech_state_change_call_status(lib, call, {})
    <2>1. Relay /\ tx' = tx
        BY <1>1, <1>4 DEF URelay, uplink
    <2>2. call \in BOOLEAN /\ s \in LibStates /\ Steps(s)
        BY <2>1, Relayed DEF TypeOK
    <2>3. UplinkKept(s, lib)
        <3>1. CASE call = TRUE
            <4>1. lib.proto_state \notin {"INVALID", "TEST_RAMP_PING_ACTIVE"}
                BY <1>1, <1>4, <3>1 DEF URelay
            <4>2. SameSlots(cmtspeech_state_change_call_status(lib, TRUE, {}), lib)
                BY <1>1, <4>1, CallKeepsSlots
            <4> QED
                BY <3>1, <4>2 DEF UplinkKept, SameSlots
        <3>2. CASE call = FALSE
            <4>1. SameSlots(cmtspeech_state_change_call_status(lib, FALSE, {}), lib)
                BY <1>1, StatusEffects
            <4> QED
                BY <3>2, <4>1 DEF UplinkKept, SameSlots
        <3> QED
            BY <2>2, <3>1, <3>2
    <2> HIDE DEF s
    <2>4. Kept
        BY <2>2, <2>3, Returned DEF UplinkKept
    <2> QED
        BY <2>1, <2>4
<1>5. CASE UError
    BY <1>1, <1>5 DEF UError
<1>6. CASE AcquireUL \/ AcquireDL
    <2>1. Acquire /\ tx' = tx
        BY <1>6 DEF AcquireUL, AcquireDL, uplink
    <2>2. \/ \E i \in ULAvailable(lib) : Steps(cmtspeech_ul_buffer_acquire(lib, i))
          \/ \E i \in DLAvailable(lib) : Steps(cmtspeech_dl_buffer_acquire(lib, i))
        BY <2>1, Zenon DEF Acquire
    <2>3. ASSUME NEW i \in ULAvailable(lib), Steps(cmtspeech_ul_buffer_acquire(lib, i))
          PROVE  Kept
        <3> DEFINE s == cmtspeech_ul_buffer_acquire(lib, i)
        <3>1. i \in ULSlots
            BY <2>3 DEF ULAvailable
        <3>2. s \in LibStates /\ Relocked(s, lib) /\ Steps(s)
            BY <1>1, <2>3, <3>1, CallsTyped, AcquireEffects
        <3> HIDE DEF s
        <3> QED
            BY <3>2, Returned DEF Relocked
    <2>4. ASSUME NEW i \in DLAvailable(lib), Steps(cmtspeech_dl_buffer_acquire(lib, i))
          PROVE  Kept
        <3> DEFINE s == cmtspeech_dl_buffer_acquire(lib, i)
        <3>1. i \in DLSlots
            BY <2>4 DEF DLAvailable
        <3>2. s \in LibStates /\ UplinkKept(s, lib) /\ Steps(s)
            BY <1>1, <2>4, <3>1, CallsTyped, DownlinkGivenOut
        <3> HIDE DEF s
        <3> QED
            BY <3>2, Returned DEF UplinkKept
    <2>5. Kept
        BY <2>2, <2>3, <2>4
    <2> QED
        BY <2>1, <2>5
<1>7. CASE ReleaseUL \/ ReleaseDL
    <2>1. Release /\ ~ReplySent
        BY <1>1, <1>7 DEF ReleaseUL, ReleaseDL
    <2>2. tx' = tx \/ lib.proto_state = "ACTIVE_DLUL"
        <3>1. CASE ReleaseUL
            <4>1. PICK i \in ULSlots : SendFrame(i)
                BY <2>1, <3>1 DEF ReleaseUL
            <4> QED
                BY <4>1 DEF SendFrame
        <3>2. CASE ReleaseDL
            BY <2>1, <3>2 DEF ReleaseDL, uplink
        <3> QED
            BY <1>7, <3>1, <3>2
    <2>3. \/ \E i \in ULSlots : Steps(cmtspeech_ul_buffer_release(lib, i, {}))
          \/ \E i \in DLSlots : Steps(cmtspeech_dl_buffer_release(lib, i, {}))
        BY <2>1, Zenon DEF Release
    <2>4. ASSUME NEW i \in ULSlots, Steps(cmtspeech_ul_buffer_release(lib, i, {}))
          PROVE  Kept
        <3> DEFINE s == cmtspeech_ul_buffer_release(lib, i, {})
        <3>1. /\ s \in LibStates /\ Steps(s)
              /\ \/ /\ s.speech_config_resp_pend = lib.speech_config_resp_pend
                    /\ s.slot_size = lib.slot_size
                 \/ lib.speech_config_resp_pend /\ Fresh(s, lib.slot_size)
            BY <1>1, <2>4, CallsTyped, UplinkGivenBack
        <3> HIDE DEF s
        <3>2. SameSlots(lib', s)
            BY <3>1, Returned DEF SameSlots
        <3> QED
            BY <2>1, <3>1, <3>2 DEF SameSlots, Fresh, ReplySent
    <2>5. ASSUME NEW i \in DLSlots, Steps(cmtspeech_dl_buffer_release(lib, i, {}))
          PROVE  Kept
        <3> DEFINE s == cmtspeech_dl_buffer_release(lib, i, {})
        <3>1. /\ s \in LibStates /\ Steps(s)
              /\ \/ UplinkKept(s, lib)
                 \/ lib.speech_config_resp_pend /\ Fresh(s, lib.slot_size)
            BY <1>1, <2>5, CallsTyped, DownlinkGivenBack
        <3> HIDE DEF s
        <3>2. SameSlots(lib', s)
            BY <3>1, Returned DEF SameSlots
        <3> QED
            BY <2>1, <3>1, <3>2 DEF SameSlots, Fresh, ReplySent, UplinkKept
    <2>6. Kept
        BY <2>3, <2>4, <2>5
    <2> QED
        BY <2>1, <2>2, <2>6
<1>8. CASE TxDone
    BY <1>8 DEF TxDone
<1>9. CASE ModemSteps
    <2>1. tx' = tx
        BY <1>9 DEF ModemSteps, uplink
    <2>2. lib' = lib
        BY <1>9 DEF ModemSteps, ModemReads, StartStream, ChangeStream, StopStream,
                    ModemReset, CallChanges, Asks
    <2>3. \/ ModemReads \/ StartStream \/ ChangeStream \/ StopStream
          \/ ModemReset \/ CallChanges
        BY <1>9 DEF ModemSteps
    <2> QED
        BY <2>1, <2>2, <2>3
<1> QED
    BY <1>2, <1>3, <1>4, <1>5, <1>6, <1>7, <1>8, <1>9 DEF UNext

\* What is transmitted goes into a stream, or the modem has lost it by a reset.
InStream == tx # NoTx => Resetting \/ Streaming \/ Ending

\* Without a stream there is no layout, and nothing can be transmitted.
LEMMA LayoutInStream ==
    ASSUME LinkAssumption
    PROVE  /\ Streaming \/ Ending => lib.speech_config_resp_pend \/ lib.slot_size > 0
           /\ Phases /\ lib.proto_state = "ACTIVE_DLUL" =>
                Resetting \/ Streaming \/ Ending
<1>1. \A r \in StreamRates : SlotSize(r) > 0
    BY DEF LinkAssumption, SlotSize
<1>2. Streaming => lib.speech_config_resp_pend \/ lib.slot_size > 0
    BY <1>1 DEF Streaming, Sized
<1>3. Ending => lib.speech_config_resp_pend \/ lib.slot_size > 0
    BY <1>1 DEF Ending, Sized
<1>4. lib.proto_state = "ACTIVE_DLUL" =>
        ~Down /\ ~Failed /\ ~Calling /\ ~Connecting /\ ~Starting /\ ~Closing
    BY DEF Down, Failed, Calling, Connecting, Starting, Closing, In
<1> QED
    BY <1>2, <1>3, <1>4 DEF Phases

\* A frame is announced to the driver only while the modem streams, is
\* about to stop or is being reset (cmtspeech_ul_buffer_release looks at the
\* state before it writes).
THEOREM FramesInStream == ASSUME Patient PROVE USpec => []InStream
<1>1. UInit => InStream
    BY DEF UInit, InStream
<1>2. TypeOK /\ LinkInv /\ UplinkInv /\ InStream /\ [UNext]_uvars => InStream'
    <2> SUFFICES ASSUME TypeOK, LinkInv, UplinkInv, InStream, [UNext]_uvars,
                        tx' # NoTx
                 PROVE  (Resetting \/ Streaming \/ Ending)'
        BY DEF InStream
    <2>1. LinkAssumption /\ Patient /\ Phases
        BY LinkAssumption DEF LinkInv
    <2>2. ASSUME UNCHANGED vars, Resetting \/ Streaming \/ Ending
          PROVE  (Resetting \/ Streaming \/ Ending)'
        <3>1. lib' = lib /\ UNCHANGED <<status, modem, toModem, toLib, call>>
            BY <2>2 DEF vars
        <3>2. Resetting => Resetting'
            BY <3>1 DEF Resetting, Tidy, Reborn
        <3>3. Streaming => Streaming'
            BY <3>1 DEF Streaming, AskedInLink, ReplyInLink
        <3>4. Ending => Ending'
            BY <3>1 DEF Ending, ModemIs, Queues
        <3> QED
            BY <2>2, <3>2, <3>3, <3>4
    <2>3. CASE UNCHANGED uvars
        BY <2>2, <2>3 DEF uvars, uplink, InStream
    <2>4. CASE UNext
        <3>1. /\ \/ lib'.speech_config_resp_pend
                 \/ /\ lib'.slot_size = lib.slot_size
                    /\ lib'.speech_config_resp_pend = lib.speech_config_resp_pend
              /\ tx # NoTx \/ lib.proto_state = "ACTIVE_DLUL"
              /\ \/ CheckPending /\ toLib[1].type # "RESET_CONN_REQ"
                 \/ DataReceived \/ Relay \/ Acquire \/ Release \/ ModemReads
                 \/ StartStream \/ ChangeStream \/ StopStream \/ CallChanges
                 \/ ModemReset \/ UNCHANGED vars
            BY <2>1, <2>4, FrameGoesOn
        <3>2. Resetting \/ Streaming \/ Ending
            BY <2>1, <3>1, LayoutInStream DEF InStream
        <3>3. CASE UNCHANGED vars
            BY <2>2, <3>2, <3>3
        <3>4. CASE ModemReset
            BY <2>1, <3>4, ModemResets
        <3>5. ASSUME \/ CheckPending /\ toLib[1].type # "RESET_CONN_REQ"
                     \/ DataReceived \/ Relay \/ Acquire \/ Release \/ ModemReads
                     \/ StartStream \/ ChangeStream \/ StopStream \/ CallChanges
              PROVE  (Resetting \/ Streaming \/ Ending)'
            <4>1. Ordinary
                BY <3>5 DEF Ordinary
            <4>2. CASE Resetting
                BY <2>1, <3>5, <4>1, <4>2, FromResetting
            <4>3. CASE Streaming \/ Ending
                <5>1. (Streaming \/ Ending \/ Closing \/ Failed)'
                    BY <2>1, <4>1, <4>3, FromStreaming, FromEnding
                <5>2. lib'.speech_config_resp_pend \/ lib'.slot_size > 0
                    BY <2>1, <3>1, <4>3, LayoutInStream
                <5>3. ~Fresh(lib', 0)
                    BY <5>2 DEF Fresh
                <5>4. ~Closing' /\ ~Failed'
                    BY <5>3 DEF Closing, Failed
                <5> QED
                    BY <5>1, <5>4
            <4> QED
                BY <3>2, <4>2, <4>3
        <3> QED
            BY <3>1, <3>3, <3>4, <3>5
    <2> QED
        BY <2>3, <2>4
<1> QED
    BY <1>1, <1>2, UplinkIsLink, LinkTypeCorrect, LinkInvariant, UplinkInvariant, PTL
       DEF USpec

\* The driver transmits only while the modem has a stream to put the frame in,
\* or has just lost it by a reset of its own.
THEOREM AlwaysSentIntoStream == ASSUME Patient PROVE USpec => []SentIntoStream
<1>1. LinkAssumption
    BY LinkAssumption
<1>2. Resetting => modem.resetting
    BY DEF Resetting, Reborn
<1>3. Streaming \/ Ending => modem.stream # "off"
    BY <1>1 DEF Streaming, Ending, ModemIs, LinkAssumption
<1>4. InStream => SentIntoStream
    BY <1>2, <1>3 DEF InStream, SentIntoStream
<1> QED
    BY <1>4, FramesInStream, PTL

-----------------------------------------------------------------------------
(* Buffers and the end of a connection                                     *)

\* What may end a connection: the answers of the modem.
Acknowledges(m) == m.type \in {"SSI_CONFIG_RESP", "RESET_CONN_RESP"}

\* An answer finds a library without buffers, whatever is read before it.
Settling ==
    \A k \in 1 .. Len(toLib) :
        Acknowledges(toLib[k]) =>
            Fresh(lib, 0) /\ \A j \in 1 .. k - 1 : toLib[j] = Off

\* The modem has not reset, or the library has read that.
Undisturbed == \/ Down \/ Failed \/ Calling \/ Connecting \/ Starting
               \/ Streaming \/ Ending \/ Closing

\* That much is part of every other phase.
LEMMA PhasesSettle ==
    ASSUME TypeOK, Undisturbed
    PROVE  Settling
<1>1. toLib \in Seq(ModemMsgs) /\ Len(toLib) \in Nat
    BY LenProperties DEF TypeOK
<1>2. \A r : Len(<<SR, SpeechConfig(r)>>) = 2 /\ <<SR, SpeechConfig(r)>>[1] = SR
             /\ <<SR, SpeechConfig(r)>>[2] = SpeechConfig(r)
    BY TwoMessages
<1>3. \A m : Len(<<m>>) = 1 /\ <<m>>[1] = m
    BY OneMessage
<1>4. Len(<<>>) = 0
    OBVIOUS
<1>5. /\ Acknowledges(SR) /\ ~Acknowledges(Off) /\ ~Acknowledges(UP) /\ ~Acknowledges(TM)
      /\ \A r : ~Acknowledges(SpeechConfig(r))
      /\ \A m : m.type = "RESET_CONN_REQ" => ~Acknowledges(m)
    BY MessageIs DEF Acknowledges
<1>6. CASE toLib = <<>>
    BY <1>4, <1>6 DEF Settling
<1>7. CASE Fresh(lib, 0) /\ toLib = <<SR>>
    BY <1>3, <1>7 DEF Settling
<1>8. ASSUME NEW r, Fresh(lib, 0), toLib = <<SR, SpeechConfig(r)>>
      PROVE  Settling
    BY <1>2, <1>5, <1>8 DEF Settling
<1>9. ASSUME NEW r, toLib = <<SpeechConfig(r)>>
      PROVE  Settling
    BY <1>3, <1>5, <1>9 DEF Settling
<1>10. CASE Down
    BY <1>5, <1>10 DEF Down, Settling
<1>11. CASE Failed
    <2>1. CASE \A k \in 1 .. Len(toLib) : toLib[k] = Off
        BY <1>5, <2>1 DEF Settling
    <2>2. CASE \A k \in 1 .. Len(toLib) - 1 : toLib[k] = Off
        BY <1>1, <1>5, <1>11, <2>2 DEF Failed, Settling
    <2> QED
        BY <1>11, <2>1, <2>2 DEF Failed
<1>12. CASE Connecting
    <2>1. /\ Fresh(lib, 0)
          /\ \/ toLib = <<>> \/ toLib = <<SR>>
             \/ \E r \in StreamRates :
                    toLib = <<SR, SpeechConfig(r)>> \/ toLib = <<SpeechConfig(r)>>
        BY <1>12 DEF Connecting, Queues
    <2> QED
        BY <1>6, <1>7, <1>8, <1>9, <2>1
<1>13. CASE Streaming
    <2>1. \A k \in 1 .. Len(toLib) : ~Acknowledges(toLib[k])
        BY <1>5, <1>13 DEF Streaming
    <2> QED
        BY <2>1 DEF Settling
<1>14. CASE Calling \/ Starting \/ Ending \/ Closing
    <2>1. toLib = <<>> \/ toLib = <<Off>> \/ (Fresh(lib, 0) /\ toLib = <<SR>>)
        BY <1>14 DEF Calling, Starting, Ending, Closing, Queues
    <2> QED
        BY <1>6, <1>7, <1>9, <2>1 DEF Off
<1> QED
    BY <1>10, <1>11, <1>12, <1>13, <1>14 DEF Undisturbed

\* A library without buffers stays so while it reads up to the answer.
LEMMA ResettingSettles ==
    ASSUME LinkAssumption, TypeOK, Patient, Resetting, Settling, Ordinary
    PROVE  Settling'
<1>1. modem.resetting /\ modem.ssi = FALSE /\ modem.stream = "off" /\ call = FALSE
    BY DEF Resetting, Reborn, TypeOK
<1>2. ~Settled
    BY <1>1 DEF Settled, Quiet
<1>3. ASSUME toLib' = toLib, Fresh(lib, 0) => Fresh(lib', 0)
      PROVE  Settling'
    BY <1>3 DEF Settling
<1>4. CASE CheckPending
    <2> DEFINE s == Handled(toLib[1])
    <2>1. /\ Len(toLib) \in Nat \ {0}
          /\ s \in LibStates /\ Steps(s) /\ Len(toLib') = Len(toLib) - 1
          /\ \A k \in 1 .. Len(toLib') : toLib'[k] = toLib[k + 1]
        BY <1>4, Checked
    <2> SUFFICES ASSUME NEW k \in 1 .. Len(toLib'), Acknowledges(toLib'[k])
                 PROVE  Fresh(lib', 0) /\ \A j \in 1 .. k - 1 : toLib'[j] = Off
        BY DEF Settling
    <2>2. k \in Nat \ {0} /\ k + 1 \in 1 .. Len(toLib) /\ Acknowledges(toLib[k + 1])
        BY <2>1
    <2>3. Fresh(lib, 0) /\ \A j \in 1 .. (k + 1) - 1 : toLib[j] = Off
        BY <2>2 DEF Settling
    <2>4. \A j \in 1 .. k - 1 : toLib'[j] = Off
        BY <2>1, <2>2, <2>3
    <2>5. toLib[1] = SpeechConfig("off") /\ "off" \in Streams /\ Unlocked(lib)
        BY <2>2, <2>3 DEF Off, Streams, Fresh, Unlocked
    <2>6. Replied(s, lib.proto_state, "CONFIG_DEACT_PEND", lib.call_server_active, 0)
        BY <1>4, <2>5, CheckedStream
    <2> HIDE DEF s
    <2>7. Fresh(lib', 0)
        BY <2>1, <2>6, Returned DEF Replied, Fresh
    <2> QED
        BY <2>4, <2>7
<1>5. CASE Relay
    <2> DEFINE s == cmtspeech_state_change_call_status(lib, FALSE, {})
    <2>1. s \in LibStates /\ Steps(s) /\ toLib' = toLib /\ lib \in LibStates
        BY <1>1, <1>5, Relayed DEF TypeOK
    <2>2. SameSlots(s, lib)
        BY <2>1, StatusEffects
    <2> HIDE DEF s
    <2>3. Fresh(lib, 0) => Fresh(lib', 0)
        BY <2>1, <2>2, Returned DEF SameSlots, Fresh
    <2> QED
        BY <1>3, <2>1, <2>3
<1>6. CASE Acquire
    <2>1. toLib' = toLib
        BY <1>6, Acquired
    <2>2. (\E i : i \in ULAvailable(lib)) \/ (\E i : i \in DLAvailable(lib))
        BY <1>6, Zenon DEF Acquire
    <2>3. lib.ul_desc > 0 \/ lib.dl_desc > 0
        BY <2>2 DEF ULAvailable, DLAvailable
    <2>4. ~Fresh(lib, 0)
        BY <2>3 DEF Fresh
    <2> QED
        BY <1>3, <2>1, <2>4
<1>7. CASE Release
    <2>1. toLib' = toLib
        BY <1>7 DEF Release
    <2>2. Fresh(lib, 0) => Fresh(lib', 0)
        BY <1>7, GivenBackLate
    <2> QED
        BY <1>3, <2>1, <2>2
<1>8. CASE ModemReads
    <2>1. toModem[1].type # "RESET_CONN_RESP"
        BY <1>8, Read DEF Resetting
    <2>2. UNCHANGED <<lib, toLib>>
        BY <1>1, <1>8, <2>1, Read
    <2> QED
        BY <1>3, <2>2
<1>9. CASE DataReceived
    BY <1>1, <1>9, DataArrives
<1>10. CASE StartStream \/ ChangeStream \/ StopStream
    BY <1>1, <1>10, Asked
<1>11. CASE Error
    BY <1>2, <1>11, Failing
<1>12. CASE CallChanges
    BY <1>2, <1>12 DEF CallChanges
<1> QED
    BY <1>4, <1>5, <1>6, <1>7, <1>8, <1>9, <1>10, <1>11, <1>12 DEF Ordinary

\* The modem's reset is queued behind its answers.
LEMMA ResetSettles ==
    ASSUME TypeOK, Settling, ModemReset
    PROVE  Settling'
<1> DEFINE m == ModemMsg("RESET_CONN_REQ")
<1>1. toLib' = toLib \o <<m>> /\ lib' = lib
    BY Zenon DEF ModemReset, Sends
<1>2. toLib \in Seq(ModemMsgs) /\ Len(toLib) \in Nat
    BY LenProperties DEF TypeOK
<1>3. m \in ModemMsgs /\ <<m>> \in Seq(ModemMsgs) /\ Len(<<m>>) = 1 /\ <<m>>[1] = m
    BY OneMessage, ModemMessages
<1>4. /\ Len(toLib \o <<m>>) = Len(toLib) + Len(<<m>>)
      /\ \A k \in 1 .. Len(toLib) : (toLib \o <<m>>)[k] = toLib[k]
      /\ \A k \in 1 .. Len(<<m>>) : (toLib \o <<m>>)[Len(toLib) + k] = <<m>>[k]
    BY <1>2, <1>3, QueueSteps
<1>5. ~Acknowledges(m)
    BY MessageIs DEF Acknowledges
<1> HIDE DEF m
<1>6. /\ Len(toLib') = Len(toLib) + 1 /\ toLib'[Len(toLib) + 1] = m
      /\ \A k \in 1 .. Len(toLib) : toLib'[k] = toLib[k]
    BY <1>1, <1>3, <1>4
<1>7. ASSUME NEW k \in 1 .. Len(toLib'), Acknowledges(toLib'[k])
      PROVE  Fresh(lib', 0) /\ \A j \in 1 .. k - 1 : toLib'[j] = Off
    <2>1. k \in 1 .. Len(toLib)
        BY <1>2, <1>5, <1>6, <1>7
    <2>2. Fresh(lib, 0) /\ \A j \in 1 .. k - 1 : toLib[j] = Off
        BY <1>6, <1>7, <2>1 DEF Settling
    <2> QED
        BY <1>1, <1>2, <1>6, <2>1, <2>2
<1> QED
    BY <1>7 DEF Settling

\* The modem answers only what it was asked before there were buffers or after
\* they were gone.
LEMMA AnswersSettle ==
    ASSUME TypeOK, Patient, LinkInv, Settling, [Next]_vars
    PROVE  (Settling \/ Undisturbed)'
<1>1. LinkAssumption /\ Phases
    BY LinkAssumption DEF LinkInv
<1>2. CASE UNCHANGED vars
    BY <1>2 DEF vars, Settling
<1>3. CASE ModemReset
    BY <1>3, ResetSettles
<1>4. CASE Resetting /\ Ordinary
    BY <1>1, <1>4, ResettingSettles
<1>5. CASE Undisturbed /\ Ordinary
    <2>1. CASE Down \/ Failed \/ Calling \/ Connecting
        BY <1>1, <1>5, <2>1, FromDown, FromFailed, FromCalling, FromConnecting
           DEF Undisturbed
    <2>2. CASE Starting \/ Streaming \/ Ending \/ Closing
        BY <1>1, <1>5, <2>2, FromStarting, FromStreaming, FromEnding, FromClosing
           DEF Undisturbed
    <2> QED
        BY <1>5, <2>1, <2>2 DEF Undisturbed
<1> QED
    BY <1>1, <1>2, <1>3, <1>4, <1>5 DEF Next, Ordinary, Phases, Undisturbed

\* While an answer to the end of a connection is under way the library has
\* forgotten all buffers.
THEOREM AnswersFindNoBuffers == ASSUME Patient PROVE Spec => []Settling
<1>1. Init => Settling
    BY DEF Init, Settling
<1>2. TypeOK /\ Undisturbed => Settling
    BY PhasesSettle
<1>3. TypeOK /\ LinkInv /\ Settling /\ [Next]_vars => (Settling \/ Undisturbed)'
    BY AnswersSettle
<1> QED
    BY <1>1, <1>2, <1>3, LinkTypeCorrect, LinkInvariant, PTL DEF Spec

\* A buffer that comes back and lets a reply go is the last one: the locks of the
\* downlink are what they were, but for its own.
LEMMA LocksGivenBack ==
    ASSUME NEW s \in LibStates
    PROVE  /\ \A i \in ULSlots :
                cmtspeech_ul_buffer_release(s, i, {}).dl_locked = s.dl_locked
           /\ \A i \in DLSlots :
                cmtspeech_dl_buffer_release(s, i, {}).dl_locked = s.dl_locked \ {i}
<1> DEFINE e == Entered(s)
<1>1. e \in LibStates /\ SameSlots(e, s) /\ e.sent = <<>>
    BY EnteredEffects
<1>2. {"ul_buffer_release", "dl_buffer_release", "layout_change_released"}
        \subseteq Assertions
    BY DEF Assertions
<1>3. ASSUME NEW a \in LibStates, a.sent = <<>>, NEW name, NEW holds
      PROVE  Assert(LayoutChangeReleased(a, {}), name, holds).dl_locked = a.dl_locked
    <2> DEFINE z == Assert(LayoutChangeReleased(a, {}), name, holds)
    <2>1. SameSlots(z, a) \/ (Unlocked(a) /\ Fresh(z, a.slot_size))
        BY <1>3, LayoutGivenBack
    <2> HIDE DEF z
    <2>2. z.dl_locked = a.dl_locked
        BY <2>1 DEF SameSlots, Unlocked, Fresh
    <2> QED
        BY <2>2 DEF z
<1>4. ASSUME NEW i \in ULSlots
      PROVE  cmtspeech_ul_buffer_release(s, i, {}).dl_locked = s.dl_locked
    <2> DEFINE b == Assert(e, "ul_buffer_release", s.proto_state = "ACTIVE_DLUL")
               u == [b EXCEPT !.ul_locked = b.ul_locked \ {i}]
               a == Assert(u, "layout_change_released", i \in s.ul_locked /\ s.ul_desc = 0)
               r == LayoutChangeReleased(a, {})
               z == Assert(r, "ul_buffer_release", r.ul_desc > 0)
    <2>1. cmtspeech_ul_buffer_release(s, i, {}) = IF ~s.speech_config_resp_pend THEN u ELSE z
        BY Zenon DEF cmtspeech_ul_buffer_release
    <2> HIDE DEF e
    <2>2. b \in LibStates /\ SameSlots(b, e) /\ b.sent = e.sent
        BY <1>1, <1>2, AssertTyped, AssertEffects
    <2> HIDE DEF b
    <2>3. u \in LibStates
        <3>1. b.ul_locked \ {i} \in SUBSET ULSlots
            BY <2>2, Fields
        <3> QED
            BY <2>2, <3>1, Zenon DEF LibStates
    <2>4. u.sent = b.sent /\ u.dl_locked = b.dl_locked
        BY <2>2 DEF LibStates
    <2> HIDE DEF u
    <2>5. a \in LibStates /\ SameSlots(a, u) /\ a.sent = u.sent
        BY <1>2, <2>3, AssertTyped, AssertEffects
    <2> HIDE DEF a
    <2>6. z.dl_locked = a.dl_locked
        BY <1>1, <1>3, <2>2, <2>4, <2>5
    <2> HIDE DEF z
    <2> QED
        BY <1>1, <2>1, <2>2, <2>4, <2>5, <2>6 DEF SameSlots
<1>5. ASSUME NEW i \in DLSlots
      PROVE  cmtspeech_dl_buffer_release(s, i, {}).dl_locked = s.dl_locked \ {i}
    <2> DEFINE u == [e EXCEPT !.dl_locked = e.dl_locked \ {i}]
               a == Assert(u, "layout_change_released", s.dl_desc = 0)
               r == LayoutChangeReleased(a, {})
               z == Assert(r, "dl_buffer_release", r.dl_desc > 0)
    <2>1. cmtspeech_dl_buffer_release(s, i, {})
            = IF i \notin s.dl_locked THEN e
              ELSE IF ~s.speech_config_resp_pend THEN u ELSE z
        BY Zenon DEF cmtspeech_dl_buffer_release
    <2> HIDE DEF e
    <2>2. u \in LibStates
        <3>1. e.dl_locked \ {i} \in SUBSET DLSlots
            BY <1>1, Fields
        <3> QED
            BY <1>1, <3>1, Zenon DEF LibStates
    <2>3. u.sent = e.sent /\ u.dl_locked = e.dl_locked \ {i}
        BY <1>1 DEF LibStates
    <2> HIDE DEF u
    <2>4. a \in LibStates /\ SameSlots(a, u) /\ a.sent = u.sent
        BY <1>2, <2>2, AssertTyped, AssertEffects
    <2> HIDE DEF a
    <2>5. z.dl_locked = a.dl_locked
        BY <1>1, <1>3, <2>3, <2>4
    <2> HIDE DEF z
    <2>6. /\ i \notin s.dl_locked => e.dl_locked = s.dl_locked \ {i}
          /\ u.dl_locked = s.dl_locked \ {i} /\ z.dl_locked = s.dl_locked \ {i}
        BY <1>1, <2>3, <2>4, <2>5 DEF SameSlots
    <2> QED
        BY <2>1, <2>6
<1> QED
    BY <1>4, <1>5

\* The buffers the library knows to be held are locked.
DownlinkInv == \A i : <<"DL", i>> \in held \ lost => i \in lib.dl_locked

\* cmtspeech_check_pending: only a reset unlocks what the application holds.
LEMMA PendingDownlink ==
    ASSUME TypeOK, LinkAssumption, UplinkInv, DownlinkInv, Settling, UCheckPending
    PROVE  DownlinkInv'
<1> DEFINE m == toLib[1]
           s == Handled(m)
<1>1. /\ m \in ModemMsgs /\ s \in LibStates /\ Steps(s) /\ held' = held
      /\ Head(toLib) = m /\ lib \in LibStates /\ CheckPending
      /\ Len(toLib) \in Nat \ {0}
    <2>1. CheckPending /\ toLib \in Seq(ModemMsgs) /\ toLib # <<>> /\ lib \in LibStates
        BY DEF UCheckPending, CheckPending, TypeOK
    <2> QED
        BY <2>1, Checked, QueueSteps
<1>2. /\ m.type = "SPEECH_CONFIG_REQ" => LayoutChanges
      /\ m.type = "RESET_CONN_REQ" => Reset
      /\ m.type \notin {"SPEECH_CONFIG_REQ", "RESET_CONN_REQ"} => UNCHANGED lost
    BY <1>1 DEF UCheckPending
<1>3. lib' \in LibStates /\ SameSlots(lib', s)
    BY <1>1, Returned DEF SameSlots
<1>4. CASE m.type = "SPEECH_CONFIG_REQ"
    <2>1. m = SpeechConfig(m.stream) /\ m.stream \in Streams
        BY <1>1, <1>4 DEF ModemMsgs, SpeechConfig
    <2>2. PICK priv, size :
            IF Unlocked(lib)
            THEN Replied(s, lib.proto_state, priv, lib.call_server_active, size)
            ELSE Waits(s, lib, priv, size)
        BY <1>1, <2>1, CheckedStream
    <2>3. lib'.dl_locked = lib.dl_locked
        BY <1>3, <2>2 DEF Replied, Waits, SameSlots, Fresh, Unlocked
    <2>4. lost' = lost \cap held \/ lost' = lost
        BY <1>1, <1>2, <1>4 DEF LayoutChanges, StillHeld
    <2> QED
        BY <1>1, <2>3, <2>4 DEF DownlinkInv
<1>5. CASE m.type = "RESET_CONN_REQ"
    BY <1>1, <1>2, <1>5 DEF Reset, DownlinkInv
<1>6. CASE m.type \notin {"SPEECH_CONFIG_REQ", "RESET_CONN_REQ"}
    <2>1. SameSlots(s, lib)
        <3>1. CASE m.type = "SSI_CONFIG_RESP"
            <4>1. lib.slot_size = 0
                BY <1>1, <3>1 DEF Settling, Acknowledges, Fresh
            <4> QED
                BY <1>1, <3>1, <4>1, CheckedSsiConfig
        <3>2. CASE m.type = "RESET_CONN_RESP"
            BY <1>1, <3>2, CheckedReset
        <3>3. CASE m.type \in {"UPLINK_CONFIG_NTF", "TIMING_CONFIG_NTF"}
            <4>1. s = HandleUplinkConfigNtf(lib) \/ s = HandleTimingConfigNtf(lib)
                BY <3>3, HandledIs
            <4> QED
                BY <1>1, <4>1, NotificationEffects
        <3> QED
            BY <1>1, <1>6, <3>1, <3>2, <3>3 DEF ModemMsgs
    <2> HIDE DEF s
    <2>2. lib'.dl_locked = lib.dl_locked /\ lost' = lost
        BY <1>2, <1>3, <1>6, <2>1 DEF SameSlots
    <2> QED
        BY <1>1, <2>2 DEF DownlinkInv
<1> QED
    BY <1>4, <1>5, <1>6

\* A call that starts or ends
LEMMA RelayDownlink ==
    ASSUME TypeOK, DownlinkInv, URelay PROVE DownlinkInv'
<1> DEFINE s == cmtspeech_state_change_call_status(lib, call, {})
           resets == call /\ lib.proto_state \in {"INVALID", "TEST_RAMP_PING_ACTIVE"}
<1>1. /\ lib \in LibStates /\ call \in BOOLEAN /\ s \in LibStates
      /\ Steps(s) /\ held' = held
    BY Relayed DEF URelay, TypeOK
<1>2. CASE resets
    BY <1>1, <1>2 DEF URelay, Reset, DownlinkInv
<1>3. CASE ~resets
    <2>1. CASE call = TRUE
        <3>1. SameSlots(cmtspeech_state_change_call_status(lib, TRUE, {}), lib)
            BY <1>1, <1>3, <2>1, CallKeepsSlots
        <3> QED
            BY <1>1, <1>3, <2>1, <3>1, Returned DEF URelay, SameSlots, DownlinkInv
    <2>2. CASE call = FALSE
        <3>1. SameSlots(cmtspeech_state_change_call_status(lib, FALSE, {}), lib)
            BY <1>1, StatusEffects
        <3> QED
            BY <1>1, <1>3, <2>2, <3>1, Returned DEF URelay, SameSlots, DownlinkInv
    <2> QED
        BY <1>1, <2>1, <2>2
<1> QED
    BY <1>2, <1>3

\* A buffer is given out.
LEMMA AcquireDownlink ==
    ASSUME TypeOK, DownlinkInv, Acquire, lost' = lost PROVE DownlinkInv'
<1>1. lib \in LibStates
    BY DEF TypeOK
<1>2. ASSUME NEW i \in ULAvailable(lib), held' = held \cup {<<"UL", i>>},
             Steps(cmtspeech_ul_buffer_acquire(lib, i))
      PROVE  DownlinkInv'
    <2> DEFINE s == cmtspeech_ul_buffer_acquire(lib, i)
    <2>1. i \in ULSlots
        BY DEF ULAvailable
    <2>2. s \in LibStates /\ Steps(s) /\ s.dl_locked = lib.dl_locked
        BY <1>1, <1>2, <2>1, CallsTyped, AcquireEffects
    <2> HIDE DEF s
    <2>3. lib'.dl_locked = lib.dl_locked
        BY <2>2, Returned
    <2> QED
        BY <1>2, <2>3, BuffersApart DEF DownlinkInv
<1>3. ASSUME NEW i \in DLAvailable(lib), held' = held \cup {<<"DL", i>>},
             Steps(cmtspeech_dl_buffer_acquire(lib, i))
      PROVE  DownlinkInv'
    <2> DEFINE s == cmtspeech_dl_buffer_acquire(lib, i)
    <2>1. i \in DLSlots
        BY DEF DLAvailable
    <2>2. s \in LibStates /\ Steps(s) /\ s.dl_locked = lib.dl_locked \cup {i}
        BY <1>1, <1>3, <2>1, CallsTyped, AcquireEffects
    <2> HIDE DEF s
    <2>3. lib'.dl_locked = lib.dl_locked \cup {i}
        BY <2>2, Returned
    <2>4. \A k : <<"DL", k>> = <<"DL", i>> => k = i
        OBVIOUS
    <2> QED
        BY <1>3, <2>3, <2>4 DEF DownlinkInv
<1>4. \/ \E i \in ULAvailable(lib) :
            /\ held' = held \cup {<<"UL", i>>}
            /\ Steps(cmtspeech_ul_buffer_acquire(lib, i))
      \/ \E i \in DLAvailable(lib) :
            /\ held' = held \cup {<<"DL", i>>}
            /\ Steps(cmtspeech_dl_buffer_acquire(lib, i))
    BY Zenon DEF Acquire
<1> QED
    BY <1>2, <1>3, <1>4

\* A buffer is given back.
LEMMA ReleaseDownlink ==
    ASSUME TypeOK, DownlinkInv, Release, StillHeld PROVE DownlinkInv'
<1>1. lib \in LibStates /\ lost' = lost \cap held'
    BY DEF TypeOK, StillHeld
<1>2. ASSUME NEW i \in ULSlots, held' = held \ {<<"UL", i>>},
             Steps(cmtspeech_ul_buffer_release(lib, i, {}))
      PROVE  DownlinkInv'
    <2> DEFINE s == cmtspeech_ul_buffer_release(lib, i, {})
    <2>1. s \in LibStates /\ Steps(s) /\ s.dl_locked = lib.dl_locked
        BY <1>1, <1>2, CallsTyped, LocksGivenBack
    <2> HIDE DEF s
    <2>2. lib'.dl_locked = lib.dl_locked
        BY <2>1, Returned
    <2> QED
        BY <1>1, <1>2, <2>2 DEF DownlinkInv
<1>3. ASSUME NEW i \in DLSlots, held' = held \ {<<"DL", i>>},
             Steps(cmtspeech_dl_buffer_release(lib, i, {}))
      PROVE  DownlinkInv'
    <2> DEFINE s == cmtspeech_dl_buffer_release(lib, i, {})
    <2>1. s \in LibStates /\ Steps(s) /\ s.dl_locked = lib.dl_locked \ {i}
        BY <1>1, <1>3, CallsTyped, LocksGivenBack
    <2> HIDE DEF s
    <2>2. lib'.dl_locked = lib.dl_locked \ {i}
        BY <2>1, Returned
    <2> QED
        BY <1>1, <1>3, <2>2 DEF DownlinkInv
<1>4. \/ \E i \in ULSlots :
            /\ held' = held \ {<<"UL", i>>}
            /\ Steps(cmtspeech_ul_buffer_release(lib, i, {}))
      \/ \E i \in DLSlots :
            /\ held' = held \ {<<"DL", i>>}
            /\ Steps(cmtspeech_dl_buffer_release(lib, i, {}))
    BY Zenon DEF Release
<1> QED
    BY <1>2, <1>3, <1>4

\* Every buffer of the downlink the application holds is locked, but for those
\* the library forgot in a reset.
THEOREM DownlinkInvariant == ASSUME Patient PROVE USpec => []DownlinkInv
<1>1. UInit => DownlinkInv
    BY DEF UInit, Init, DownlinkInv
<1>2. TypeOK /\ UplinkInv /\ Settling /\ DownlinkInv /\ [UNext]_uvars => DownlinkInv'
    <2> SUFFICES ASSUME TypeOK, UplinkInv, Settling, DownlinkInv, [UNext]_uvars
                 PROVE  DownlinkInv'
        OBVIOUS
    <2>1. CASE UNCHANGED uvars \/ TxDone
        BY <2>1 DEF uvars, vars, TxDone, DownlinkInv
    <2>2. CASE UCheckPending
        BY <2>2, LinkAssumption, PendingDownlink
    <2>3. CASE UDataReceived
        <3>1. DataReceived /\ lost' = lost
            BY <2>3 DEF UDataReceived
        <3>2. SameSlots(lib', lib) /\ held' = held
            BY <3>1, DataArrives
        <3> QED
            BY <3>1, <3>2 DEF SameSlots, DownlinkInv
    <2>4. CASE URelay
        BY <2>4, RelayDownlink
    <2>5. CASE UError
        BY <2>5 DEF UError, Reset, DownlinkInv
    <2>6. CASE AcquireUL \/ AcquireDL
        BY <2>6, AcquireDownlink DEF AcquireUL, AcquireDL
    <2>7. CASE ReleaseUL \/ ReleaseDL
        BY <2>7, ReleaseDownlink DEF ReleaseUL, ReleaseDL
    <2>8. CASE ModemSteps
        <3>1. lib' = lib /\ held' = held /\ lost' = lost
            BY <2>8 DEF ModemSteps, ModemReads, StartStream, ChangeStream, StopStream,
                        ModemReset, CallChanges, Asks, application
        <3> QED
            BY <3>1 DEF DownlinkInv
    <2> QED
        BY <2>1, <2>2, <2>3, <2>4, <2>5, <2>6, <2>7, <2>8 DEF UNext
<1> QED
    BY <1>1, <1>2, UplinkIsLink, LinkTypeCorrect, AnswersFindNoBuffers, UplinkInvariant,
       PTL DEF USpec

\* The calls of the application leave a connection that is up as it is.
LEMMA StaysConnected ==
    ASSUME NEW s \in LibStates, s.proto_state = "CONNECTED", NEW on \in BOOLEAN
    PROVE  cmtspeech_state_change_call_status(s, on, {}).proto_state = "CONNECTED"
<1> DEFINE e == Entered(s)
           y == IF on THEN CallActive(e, {}) ELSE CallInactive(e, {})
           t == [y EXCEPT !.call_server_active = on]
           p == PrivChangeTo(e, "SSI_CONFIG_PEND")
           o == cmtspeech_send_ssi_config_request(e, FALSE, {})
           a == [e EXCEPT !.io_errors = TRUE]
<1>1. e \in LibStates /\ e.proto_state = "CONNECTED"
    BY EnteredEffects DEF SameControl, Control
<1>2. cmtspeech_state_change_call_status(s, on, {}) = t
    BY Zenon DEF cmtspeech_state_change_call_status
<1> HIDE DEF e
<1>3. y \in {e, p, o, a}
    <2>1. CallActive(e, {}) = IF e.priv_state = "DISCONNECTING" THEN p ELSE e
        BY <1>1 DEF CallActive, Active
    <2>2. CallInactive(e, {}) = IF e.priv_state = "CONFIG_DEACT_PEND" THEN a ELSE o
        BY <1>1 DEF CallInactive, Assert
    <2> QED
        BY <2>1, <2>2
<1>4. p.proto_state = "CONNECTED"
    BY <1>1 DEF PrivChangeTo, LibStates
<1>5. o.proto_state = "CONNECTED"
    <2>1. SameControl(o, e) \/ Control(o, e.proto_state, "DISCONNECTING",
                                      e.call_server_active, FALSE)
        BY <1>1, RequestsWritten
    <2> QED
        BY <1>1, <2>1 DEF SameControl, Control
<1>6. a.proto_state = "CONNECTED"
    BY <1>1 DEF LibStates
<1>7. y \in LibStates
    BY <1>1, StatusTyped
<1>8. t.proto_state = y.proto_state
    BY <1>7 DEF LibStates
<1> HIDE DEF y, p, o, a, t
<1> QED
    BY <1>1, <1>2, <1>3, <1>4, <1>5, <1>6, <1>8

\* Only an answer or a reset of the modem ends a connection,
LEMMA EndOfConnection ==
    ASSUME TypeOK, LinkAssumption, Owed(lib), [UNext]_uvars, Disconnects
    PROVE  /\ UCheckPending /\ Len(toLib) \in Nat \ {0} /\ Head(toLib) = toLib[1]
           /\ Acknowledges(toLib[1]) \/ toLib[1].type = "RESET_CONN_REQ"
<1>1. /\ lib \in LibStates /\ lib.proto_state = "CONNECTED"
      /\ lib'.proto_state = "DISCONNECTED" /\ lib' # lib
    BY DEF TypeOK, Disconnects
<1>2. ~UNCHANGED uvars /\ ~TxDone /\ ~ModemSteps
    BY <1>1 DEF uvars, vars, TxDone, ModemSteps, ModemReads, StartStream, ChangeStream,
                StopStream, Asks, ModemReset, CallChanges
<1>3. ~UDataReceived
    BY <1>1, DataArrives DEF UDataReceived, SameControl, Control
<1>4. ~URelay
    <2> SUFFICES ASSUME URelay PROVE FALSE
        OBVIOUS
    <2> DEFINE s == cmtspeech_state_change_call_status(lib, call, {})
    <2>1. s \in LibStates /\ Steps(s) /\ call \in BOOLEAN
        BY Relayed DEF URelay, TypeOK
    <2>2. s.proto_state = "CONNECTED"
        BY <1>1, <2>1, StaysConnected
    <2> HIDE DEF s
    <2> QED
        BY <1>1, <2>1, <2>2, Returned
<1>5. ~UError
    <2> SUFFICES ASSUME UError PROVE FALSE
        OBVIOUS
    <2> DEFINE s == cmtspeech_state_change_error(lib, {})
    <2>1. s \in LibStates /\ Steps(s) /\ s.proto_state = "INVALID"
        BY <1>1, CallsTyped, StatusEffects DEF UError, Error, Control
    <2> HIDE DEF s
    <2> QED
        BY <1>1, <2>1, Returned
<1>6. ~AcquireUL /\ ~AcquireDL
    BY <1>1, Acquired DEF AcquireUL, AcquireDL, Relocked, SameControl, Control
<1>7. ~ReleaseUL /\ ~ReleaseDL
    <2> SUFFICES ASSUME Release PROVE FALSE
        BY DEF ReleaseUL, ReleaseDL
    <2>1. PICK s \in LibStates : Steps(s) /\ Released(s, lib)
        BY GivenBack
    <2>2. s.proto_state \in {"CONNECTED", "ACTIVE_DL"}
        BY <1>1, <2>1 DEF Released, Relocked, SameControl, Control, Replied, Active,
                          ConfigPending
    <2> QED
        BY <1>1, <2>1, <2>2, Returned
<1>8. UCheckPending /\ CheckPending /\ Head(toLib) = toLib[1]
    <2>1. UCheckPending
        BY <1>2, <1>3, <1>4, <1>5, <1>6, <1>7 DEF UNext
    <2>2. CheckPending /\ toLib \in Seq(ModemMsgs) /\ toLib # <<>>
        BY <2>1 DEF UCheckPending, CheckPending, TypeOK
    <2> QED
        BY <2>1, <2>2, QueueSteps
<1> DEFINE m == toLib[1]
           s == Handled(m)
<1>9. m \in ModemMsgs /\ s \in LibStates /\ Steps(s) /\ Len(toLib) \in Nat \ {0}
    BY <1>8, Checked
<1>10. ASSUME m.type = "SPEECH_CONFIG_REQ" PROVE FALSE
    <2>1. m = SpeechConfig(m.stream) /\ m.stream \in Streams
        BY <1>9, <1>10 DEF ModemMsgs, SpeechConfig
    <2>2. PICK priv, size :
            IF Unlocked(lib)
            THEN Replied(s, lib.proto_state, priv, lib.call_server_active, size)
            ELSE Waits(s, lib, priv, size)
        BY <1>8, <2>1, CheckedStream
    <2> HIDE DEF s
    <2>3. s.proto_state \in {"CONNECTED", "ACTIVE_DL"}
        BY <1>1, <2>2 DEF Replied, Waits, Control, Active, ConfigPending
    <2> QED
        BY <1>1, <1>9, <2>3, Returned
<1>11. ASSUME m.type \in {"UPLINK_CONFIG_NTF", "TIMING_CONFIG_NTF"} PROVE FALSE
    <2>1. s = HandleUplinkConfigNtf(lib) \/ s = HandleTimingConfigNtf(lib)
        BY <1>11, HandledIs
    <2> HIDE DEF s
    <2>2. s.proto_state \in {"CONNECTED", "ACTIVE_DLUL"}
        BY <1>1, <2>1, NotificationEffects DEF SameControl, Control
    <2> QED
        BY <1>1, <1>9, <2>2, Returned
<1> QED
    BY <1>8, <1>9, <1>10, <1>11 DEF Acknowledges, ModemMsgs

\* and neither comes while the library knows of a buffer the application holds.
THEOREM BuffersComeBackFirst == ASSUME Patient PROVE USpec => BuffersBackFirst
<1>1. TypeOK /\ LinkInv /\ UplinkInv /\ DownlinkInv /\ Settling /\ [UNext]_uvars
        => (Disconnects => held \subseteq lost')
    <2> SUFFICES ASSUME TypeOK, LinkInv, UplinkInv, DownlinkInv, Settling,
                        [UNext]_uvars, Disconnects
                 PROVE  held \subseteq lost'
        OBVIOUS
    <2>1. LinkAssumption /\ Owed(lib)
        BY LinkAssumption, RepliesOwed DEF LinkInv
    <2>2. /\ UCheckPending /\ Len(toLib) \in Nat \ {0} /\ Head(toLib) = toLib[1]
          /\ Acknowledges(toLib[1]) \/ toLib[1].type = "RESET_CONN_REQ"
        BY <2>1, EndOfConnection
    <2>3. CASE toLib[1].type = "RESET_CONN_REQ"
        BY <2>2, <2>3, Checked DEF UCheckPending, Reset
    <2>4. CASE Acknowledges(toLib[1])
        <3>1. lib.ul_locked = {} /\ lib.dl_locked = {}
            BY <2>2, <2>4 DEF Settling, Fresh
        <3>2. held \subseteq lost
            BY <3>1 DEF TypeOK, UplinkInv, DownlinkInv
        <3>3. lost' = lost
            BY <2>2, <2>4 DEF UCheckPending, Acknowledges
        <3> QED
            BY <3>2, <3>3
    <2> QED
        BY <2>2, <2>3, <2>4
<1> QED
    BY <1>1, UplinkIsLink, LinkTypeCorrect, LinkInvariant, UplinkInvariant,
       DownlinkInvariant, AnswersFindNoBuffers, PTL DEF USpec, BuffersBackFirst
=============================================================================
