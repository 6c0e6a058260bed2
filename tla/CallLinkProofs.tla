--------------------------- MODULE CallLinkProofs ---------------------------
(***************************************************************************)
(* The link between the library and the modem, for every number of calls,  *)
(* handovers, resets and errors, every set of buffer slots and every       *)
(* sample rate the modem asks for, on a link whose calls and streams only  *)
(* change when it is quiet (Patient).                                      *)
(*                                                                         *)
(* The first part says what each call of the library and each handler of   *)
(* a message does to the state the link depends on.  The second part goes  *)
(* through the steps of the link.  LinkInv says that the link is in one of *)
(* nine phases, each of which names the messages that may be under way,    *)
(* and a lemma for each phase (FromDown, FromFailed, ...) says where every *)
(* step leads from there.                                                  *)
(***************************************************************************)
EXTENDS CallLink, SpeechLemmas, SequenceTheorems

-----------------------------------------------------------------------------
(* Queues                                                                  *)

\* Reading the oldest message and adding one or two.
LEMMA QueueSteps ==
    ASSUME NEW S, NEW q \in Seq(S)
    PROVE  /\ q # <<>> => /\ Len(q) \in Nat \ {0} /\ Head(q) = q[1] /\ q[1] \in S
                          /\ Tail(q) \in Seq(S) /\ Len(Tail(q)) = Len(q) - 1
                          /\ \A k \in 1 .. Len(q) - 1 : Tail(q)[k] = q[k + 1]
           /\ q = <<>> <=> Len(q) = 0
           /\ \A k \in 1 .. Len(q) : q[k] \in S
           /\ q \o <<>> = q
           /\ \A r \in Seq(S) :
                /\ q \o r \in Seq(S) /\ Len(q \o r) = Len(q) + Len(r)
                /\ \A k \in 1 .. Len(q) : (q \o r)[k] = q[k]
                /\ \A k \in 1 .. Len(r) : (q \o r)[Len(q) + k] = r[k]
    OBVIOUS

\* Queues of one, two and three messages.
LEMMA OneMessage ==
    ASSUME NEW a
    PROVE  /\ Len(<<a>>) = 1 /\ <<a>>[1] = a /\ <<a>> # <<>>
           /\ Head(<<a>>) = a /\ Tail(<<a>>) = <<>>
           /\ <<>> \o <<a>> = <<a>> /\ Append(<<>>, a) = <<a>>
<1>1. Len(<<a>>) = 1 /\ <<a>>[1] = a /\ <<a>> # <<>> /\ Head(<<a>>) = a
    OBVIOUS
<1>2. Tail(<<a>>) = <<>>
    OBVIOUS
<1>3. <<>> \o <<a>> = <<a>>
    OBVIOUS
<1>4. Append(<<>>, a) = <<a>>
    OBVIOUS
<1> QED
    BY <1>1, <1>2, <1>3, <1>4

\* A queue of two messages, and how one is reached from the empty queue.
LEMMA TwoMessages ==
    ASSUME NEW a, NEW b
    PROVE  /\ Len(<<a, b>>) = 2 /\ <<a, b>>[1] = a /\ <<a, b>>[2] = b
           /\ <<a, b>> # <<>> /\ Head(<<a, b>>) = a /\ Tail(<<a, b>>) = <<b>>
           /\ <<>> \o <<a, b>> = <<a, b>> /\ <<a>> \o <<b>> = <<a, b>>
           /\ Append(<<a>>, b) = <<a, b>>
<1> DEFINE S == {a, b}
           x == <<a>> \o <<b>>
<1>1. <<a>> \in Seq(S) /\ <<b>> \in Seq(S) /\ <<a, b>> \in Seq(S)
    OBVIOUS
<1>2. /\ Len(<<a, b>>) = 2 /\ <<a, b>>[1] = a /\ <<a, b>>[2] = b
      /\ <<a, b>> # <<>> /\ Head(<<a, b>>) = a
    OBVIOUS
<1>3. Tail(<<a, b>>) = <<b>>
    OBVIOUS
<1>4. <<>> \o <<a, b>> = <<a, b>>
    OBVIOUS
<1>5. x = <<a, b>>
    <2>1. x \in Seq(S) /\ Len(x) = 2
        BY <1>1, QueueSteps
    <2>2. x[1] = a /\ x[2] = b
        BY <1>1, QueueSteps
    <2> HIDE DEF x, S
    <2> QED
        BY <1>1, <1>2, <2>1, <2>2, SeqEqual
<1>6. Append(<<a>>, b) = x
    BY <1>1
<1> QED
    BY <1>2, <1>3, <1>4, <1>5, <1>6

\* A queue of three messages, the most a single step writes.
LEMMA ThreeMessages ==
    ASSUME NEW a, NEW b, NEW c
    PROVE  /\ Len(<<a, b, c>>) = 3 /\ <<a, b, c>>[1] = a /\ <<a, b, c>>[2] = b
           /\ <<a, b, c>>[3] = c
           /\ Head(<<a, b, c>>) = a /\ Tail(<<a, b, c>>) = <<b, c>>
           /\ <<a>> \o <<b, c>> = <<a, b, c>>
<1> DEFINE S == {a, b, c}
           x == <<a>> \o <<b, c>>
<1>1. <<a>> \in Seq(S) /\ <<b, c>> \in Seq(S) /\ <<a, b, c>> \in Seq(S)
    OBVIOUS
<1>2. /\ Len(<<a, b, c>>) = 3 /\ <<a, b, c>>[1] = a /\ <<a, b, c>>[2] = b
      /\ <<a, b, c>>[3] = c /\ Head(<<a, b, c>>) = a
    OBVIOUS
<1>3. Tail(<<a, b, c>>) = <<b, c>>
    OBVIOUS
<1>4. x = <<a, b, c>>
    <2>1. x \in Seq(S) /\ Len(x) = 3
        BY <1>1, QueueSteps
    <2>2. x[1] = a /\ x[2] = b /\ x[3] = c
        BY <1>1, QueueSteps
    <2> HIDE DEF x, S
    <2> QED
        BY <1>1, <1>2, <2>1, <2>2, SeqEqual
<1> QED
    BY <1>2, <1>3, <1>4

-----------------------------------------------------------------------------
(* Types                                                                   *)

LinkModems == [ssi : BOOLEAN, stream : Streams, resetting : BOOLEAN,
               asked : Streams \cup {"none"}]

\* The rate of a stream that is switched off is not looked at.
LEMMA RateUnused ==
    ASSUME NEW s, NEW r1, NEW r2, NEW F
    PROVE  HandleSpeechConfigReq(s, FALSE, r1, F)
              = HandleSpeechConfigReq(s, FALSE, r2, F)
    BY Zenon DEF HandleSpeechConfigReq, priv_handle_speech_config

\* What the main loop makes of a message, by its type.
LEMMA HandledIs ==
    ASSUME NEW m
    PROVE  /\ m.type = "SPEECH_CONFIG_REQ" =>
                Handled(m) = HandleSpeechConfigReq(lib, m.stream # "off",
                                IF m.stream = "off" THEN "8kHz" ELSE m.stream, {})
           /\ m.type = "UPLINK_CONFIG_NTF" => Handled(m) = HandleUplinkConfigNtf(lib)
           /\ m.type = "TIMING_CONFIG_NTF" => Handled(m) = HandleTimingConfigNtf(lib)
           /\ m.type = "SSI_CONFIG_RESP" =>
                Handled(m) = HandleSsiConfigResp(lib, TRUE, "inorder", {})
           /\ m.type = "RESET_CONN_REQ" => Handled(m) = HandleResetConnReq(lib, {})
           /\ m.type = "RESET_CONN_RESP" => Handled(m) = HandleResetConnResp(lib, {})
<1>1. ASSUME m.type = "SPEECH_CONFIG_REQ"
      PROVE  Handled(m) = HandleSpeechConfigReq(lib, m.stream # "off",
                                IF m.stream = "off" THEN "8kHz" ELSE m.stream, {})
    <2>1. Handled(m) = HandleSpeechConfigReq(lib, m.stream # "off", m.stream, {})
        BY <1>1 DEF Handled
    <2>2. CASE m.stream = "off"
        <3>1. (m.stream # "off") = FALSE
            BY <2>2
        <3> QED
            BY <2>1, <2>2, <3>1, RateUnused, Zenon
    <2>3. CASE m.stream # "off"
        BY <2>1, <2>3, Zenon
    <2> QED
        BY <2>2, <2>3
<1>2. m.type = "UPLINK_CONFIG_NTF" => Handled(m) = HandleUplinkConfigNtf(lib)
    BY DEF Handled
<1>3. m.type = "TIMING_CONFIG_NTF" => Handled(m) = HandleTimingConfigNtf(lib)
    BY DEF Handled
<1>4. m.type = "SSI_CONFIG_RESP" =>
                Handled(m) = HandleSsiConfigResp(lib, TRUE, "inorder", {})
    BY DEF Handled
<1>5. m.type = "RESET_CONN_REQ" => Handled(m) = HandleResetConnReq(lib, {})
    BY DEF Handled
<1>6. m.type = "RESET_CONN_RESP" => Handled(m) = HandleResetConnResp(lib, {})
    BY DEF Handled
<1> QED
    BY <1>1, <1>2, <1>3, <1>4, <1>5, <1>6, Zenon

\* Whatever the modem may send is handled.
LEMMA HandledTyped ==
    ASSUME lib \in LibStates, NEW m \in ModemMsgs
    PROVE  Handled(m) \in LibStates /\ Keeps(Handled(m), lib, {})
<1>1. /\ m.type \in {"SPEECH_CONFIG_REQ", "UPLINK_CONFIG_NTF", "TIMING_CONFIG_NTF",
                     "SSI_CONFIG_RESP", "RESET_CONN_REQ", "RESET_CONN_RESP"}
      /\ m.stream \in StreamRates \cup {"off"}
    BY DEF ModemMsgs, Streams
<1>2. /\ (IF m.stream = "off" THEN "8kHz" ELSE m.stream) \in Rates
      /\ (m.stream # "off") \in BOOLEAN /\ "inorder" \in SampleLayouts
    BY <1>1, LinkAssumption DEF Rates, SampleLayouts
<1>3. CASE m.type = "SPEECH_CONFIG_REQ"
    BY <1>2, <1>3, HandledIs, HandlersTyped, HandlersKeep, Zenon
<1>4. CASE m.type # "SPEECH_CONFIG_REQ"
    BY <1>1, <1>2, <1>4, HandledIs, HandlersTyped, HandlersKeep
<1> QED
    BY <1>3, <1>4

\* Once a call has returned, what it wrote is on its way.
LEMMA Returned ==
    ASSUME NEW s \in LibStates, Steps(s)
    PROVE  /\ lib' \in LibStates
           /\ lib'.proto_state = s.proto_state /\ lib'.priv_state = s.priv_state
           /\ lib'.call_server_active = s.call_server_active
           /\ lib'.io_errors = s.io_errors
           /\ lib'.speech_config_resp_pend = s.speech_config_resp_pend
           /\ lib'.slot_size = s.slot_size /\ lib'.drv_size = s.drv_size
           /\ lib'.ul_locked = s.ul_locked /\ lib'.dl_locked = s.dl_locked
           /\ lib'.ul_desc = s.ul_desc /\ lib'.dl_desc = s.dl_desc
           /\ Same(lib', s)
           /\ toModem' = toModem \o s.sent
<1>1. <<>> \in Seq(OutMsgs) /\ NoEvent \in [type : EventTypes, prev : Protos, state : Protos]
    BY DEF NoEvent, EventTypes, Protos
<1>2. lib' \in LibStates
    BY <1>1, Zenon DEF Steps, LibStates
<1> QED
    BY <1>2 DEF Steps, Same, LibStates

\* What the modem may send.
LEMMA ModemMessages ==
    /\ \A type \in {"SPEECH_CONFIG_REQ", "UPLINK_CONFIG_NTF", "TIMING_CONFIG_NTF",
                    "SSI_CONFIG_RESP", "RESET_CONN_REQ", "RESET_CONN_RESP"} :
            ModemMsg(type) \in ModemMsgs
    /\ \A stream \in Streams : SpeechConfig(stream) \in ModemMsgs
    /\ UplinkStart \in Seq(ModemMsgs) /\ <<>> \in Seq(ModemMsgs)
    /\ \A m \in ModemMsgs : <<m>> \in Seq(ModemMsgs)
<1>1. \A type \in {"SPEECH_CONFIG_REQ", "UPLINK_CONFIG_NTF", "TIMING_CONFIG_NTF",
                   "SSI_CONFIG_RESP", "RESET_CONN_REQ", "RESET_CONN_RESP"} :
            ModemMsg(type) \in ModemMsgs
    BY DEF ModemMsg, ModemMsgs, Streams
<1>2. \A stream \in Streams : SpeechConfig(stream) \in ModemMsgs
    BY DEF SpeechConfig, ModemMsgs
<1>3. ASSUME NEW a \in ModemMsgs, NEW b \in ModemMsgs
      PROVE  <<a>> \in Seq(ModemMsgs) /\ <<a, b>> \in Seq(ModemMsgs)
    OBVIOUS
<1>4. <<>> \in Seq(ModemMsgs)
    OBVIOUS
<1>5. UplinkStart \in Seq(ModemMsgs)
    BY <1>1, <1>3 DEF UplinkStart
<1> QED
    BY <1>1, <1>2, <1>3, <1>4, <1>5

\* A counter that is below its bound goes up by one.
LEMMA Counted ==
    ASSUME used \in [DOMAIN Bounds -> Nat], NEW what \in DOMAIN Bounds,
           \A w \in DOMAIN Bounds : used[w] \in 0 .. Bounds[w], Count(what)
    PROVE  /\ used' \in [DOMAIN Bounds -> Nat]
           /\ \A w \in DOMAIN Bounds : used'[w] \in 0 .. Bounds[w]
<1> DEFINE D == DOMAIN Bounds
<1>1. \A w \in D : Bounds[w] \in Nat
    BY LinkAssumption DEF Bounds
<1>2. used[what] + 1 \in 0 .. Bounds[what] /\ used[what] + 1 \in Nat
    BY <1>1 DEF Count
<1>3. used' = [used EXCEPT ![what] = used[what] + 1]
    BY DEF Count
<1> HIDE DEF D
<1>4. what \in D /\ used \in [D -> Nat]
    BY DEF D
<1>5. used' \in [D -> Nat]
    BY <1>2, <1>3, <1>4
<1>6. \A w \in D : used'[w] = IF w = what THEN used[what] + 1 ELSE used[w]
    BY <1>3, <1>4
<1> QED
    BY <1>2, <1>5, <1>6 DEF D

LinkTyped == TypeOK /\ used \in [DOMAIN Bounds -> Nat]

\* A step of the library: what it calls is typed, and it writes to the modem.
LEMMA LibrarySteps ==
    ASSUME TypeOK, CheckPending \/ DataReceived \/ Relay \/ Acquire \/ Release \/ Error
    PROVE  /\ \E s \in LibStates : Steps(s) /\ Keeps(s, lib, {})
           /\ lib' \in LibStates /\ toModem' \in Seq(OutMsgs)
<1>1. /\ lib \in LibStates /\ toLib \in Seq(ModemMsgs) /\ toModem \in Seq(OutMsgs)
      /\ status \in BOOLEAN /\ call \in BOOLEAN
    BY DEF TypeOK
<1>2. \E s \in LibStates : Steps(s) /\ Keeps(s, lib, {})
    <2>1. CASE CheckPending
        <3>1. Head(toLib) \in ModemMsgs
            BY <1>1, <2>1, QueueSteps DEF CheckPending
        <3> QED
            BY <1>1, <2>1, <3>1, HandledTyped DEF CheckPending
    <2>2. CASE DataReceived
        BY <1>1, <2>2, HandlersTyped, HandlersKeep DEF DataReceived
    <2>3. CASE Relay
        BY <1>1, <2>3, CallsTyped, CallsKeep DEF Relay
    <2>4. CASE Acquire
        <3>1. \/ \E i \in ULSlots : Steps(cmtspeech_ul_buffer_acquire(lib, i))
              \/ \E i \in DLSlots : Steps(cmtspeech_dl_buffer_acquire(lib, i))
            <4>1. ULAvailable(lib) \subseteq ULSlots /\ DLAvailable(lib) \subseteq DLSlots
                BY DEF ULAvailable, DLAvailable
            <4> QED
                BY <2>4, <4>1, Zenon DEF Acquire
        <3> QED
            BY <1>1, <3>1, CallsTyped, CallsKeep, Zenon
    <2>5. CASE Release
        <3>1. \/ \E i \in ULSlots : Steps(cmtspeech_ul_buffer_release(lib, i, {}))
              \/ \E i \in DLSlots : Steps(cmtspeech_dl_buffer_release(lib, i, {}))
            BY <2>5, Zenon DEF Release
        <3> QED
            BY <1>1, <3>1, CallsTyped, CallsKeep, Zenon
    <2>6. CASE Error
        BY <1>1, <2>6, CallsTyped, CallsKeep DEF Error
    <2> QED
        BY <2>1, <2>2, <2>3, <2>4, <2>5, <2>6
<1>3. ASSUME NEW s \in LibStates, Steps(s)
      PROVE  lib' \in LibStates /\ toModem' \in Seq(OutMsgs)
    <2>1. s.sent \in Seq(OutMsgs)
        BY DEF LibStates
    <2>2. toModem \o s.sent \in Seq(OutMsgs)
        BY <1>1, <2>1, QueueSteps
    <2>3. lib' \in LibStates /\ toModem' = toModem \o s.sent
        BY <1>3, Returned
    <2> QED
        BY <2>2, <2>3
<1> QED
    BY <1>2, <1>3

\* The library, the modem, the messages under way and the counters keep their
\* types.
THEOREM LinkTypeCorrect == Spec => []TypeOK
<1>1. Init => LinkTyped
    <2> SUFFICES ASSUME Init PROVE LinkTyped
        OBVIOUS
    <2>1. Idle \in LinkModems
        BY DEF Idle, LinkModems, Streams
    <2>2. used \in [DOMAIN Bounds -> Nat]
          /\ \A what \in DOMAIN Bounds : used[what] \in 0 .. Bounds[what]
        BY LinkAssumption DEF Init, Bounds
    <2>3. <<>> \in Seq(OutMsgs) /\ <<>> \in Seq(ModemMsgs)
        OBVIOUS
    <2> QED
        BY <2>1, <2>2, <2>3, OpenedTyped DEF Init, LinkTyped, TypeOK, LinkModems
<1>2. LinkTyped /\ [Next]_vars => LinkTyped'
    <2> SUFFICES ASSUME LinkTyped, [Next]_vars PROVE LinkTyped'
        OBVIOUS
    <2> DEFINE Held == ({"UL"} \X ULSlots) \cup ({"DL"} \X DLSlots)
    <2>1. /\ lib \in LibStates /\ held \in SUBSET Held
          /\ status \in BOOLEAN /\ modem \in LinkModems
          /\ toModem \in Seq(OutMsgs) /\ toLib \in Seq(ModemMsgs) /\ call \in BOOLEAN
          /\ \A what \in DOMAIN Bounds : used[what] \in 0 .. Bounds[what]
          /\ used \in [DOMAIN Bounds -> Nat] /\ TypeOK
        BY DEF LinkTyped, TypeOK, LinkModems
    <2>2. ASSUME lib' \in LibStates /\ held' \in SUBSET Held
                 /\ status' \in BOOLEAN /\ modem' \in LinkModems
                 /\ toModem' \in Seq(OutMsgs) /\ toLib' \in Seq(ModemMsgs)
                 /\ call' \in BOOLEAN
                 /\ \A what \in DOMAIN Bounds : used'[what] \in 0 .. Bounds[what]
                 /\ used' \in [DOMAIN Bounds -> Nat]
          PROVE  LinkTyped'
        BY <2>2, Zenon DEF LinkTyped, TypeOK, LinkModems, Bounds, LibStates, ModemMsgs, Streams
    <2> HIDE DEF Held
    <2>3. {"calls", "handovers", "resets", "errors"} \subseteq DOMAIN Bounds
        BY DEF Bounds
    <2>4. CASE CheckPending
        <3>1. Tail(toLib) \in Seq(ModemMsgs)
            BY <2>1, <2>4, QueueSteps DEF CheckPending
        <3> QED
            BY <2>1, <2>2, <2>4, <3>1, LibrarySteps DEF CheckPending, application, network
    <2>5. CASE DataReceived
        BY <2>1, <2>2, <2>5, LibrarySteps DEF DataReceived, application, network
    <2>6. CASE Relay
        BY <2>1, <2>2, <2>6, LibrarySteps DEF Relay, network
    <2>7. CASE Acquire
        <3>1. held' \in SUBSET Held
            <4>1. ULAvailable(lib) \subseteq ULSlots /\ DLAvailable(lib) \subseteq DLSlots
                BY DEF ULAvailable, DLAvailable
            <4>2. \/ \E i \in ULSlots : held' = held \cup {<<"UL", i>>}
                  \/ \E i \in DLSlots : held' = held \cup {<<"DL", i>>}
                BY <2>7, <4>1, Zenon DEF Acquire
            <4> QED
                BY <2>1, <4>2 DEF Held
        <3> QED
            BY <2>1, <2>2, <2>7, <3>1, LibrarySteps DEF Acquire, network
    <2>8. CASE Release
        <3>1. held' \in SUBSET Held
            BY <2>1, <2>8 DEF Release
        <3> QED
            BY <2>1, <2>2, <2>8, <3>1, LibrarySteps DEF Release, network
    <2>9. CASE Error
        <3>1. Count("errors")
            BY <2>9 DEF Error
        <3> QED
            BY <2>1, <2>2, <2>3, <2>9, <3>1, LibrarySteps, Counted DEF Error, application
    <2>10. CASE ModemReads
        <3>1. toModem' \in Seq(OutMsgs)
            BY <2>1, <2>10, QueueSteps DEF ModemReads
        <3>2. ASSUME NEW m, Answer(m)
              PROVE  modem' \in LinkModems /\ toLib' \in Seq(ModemMsgs)
            <4>1. Idle \in LinkModems /\ [modem EXCEPT !.ssi = TRUE] \in LinkModems
                BY <2>1 DEF Idle, LinkModems, Streams
            <4>2. modem' \in LinkModems
                BY <2>1, <3>2, <4>1 DEF Answer
            <4>3. \E q \in Seq(ModemMsgs) : toLib' = toLib \o q
                BY <3>2, ModemMessages, Zenon DEF Answer, Sends
            <4> QED
                BY <2>1, <4>2, <4>3, QueueSteps
        <3>3. ASSUME NEW m, Reply(m)
              PROVE  modem' \in LinkModems /\ toLib' \in Seq(ModemMsgs)
            <4>1. modem.asked \in Streams \cup {"none"} /\ "off" \in Streams
                BY <2>1 DEF LinkModems, Streams
            <4>2. \A x \in Streams : [modem EXCEPT !.asked = "none", !.stream = x] \in LinkModems
                BY <2>1, <4>1 DEF LinkModems
            <4>3. [modem EXCEPT !.resetting = FALSE] \in LinkModems
                BY <2>1 DEF LinkModems
            <4>4. modem' \in LinkModems
                BY <3>3, <4>1, <4>2, <4>3 DEF Reply
            <4>5. \E q \in Seq(ModemMsgs) : toLib' = toLib \o q
                BY <3>3, ModemMessages, Zenon DEF Reply, Sends
            <4> QED
                BY <2>1, <4>4, <4>5, QueueSteps
        <3>4. modem' \in LinkModems /\ toLib' \in Seq(ModemMsgs)
            BY <2>1, <2>10, <3>2, <3>3 DEF ModemReads
        <3> QED
            BY <2>1, <2>2, <2>10, <3>1, <3>4 DEF ModemReads, application, network
    <2>11. CASE StartStream \/ ChangeStream \/ StopStream
        <3>1. ASSUME NEW x \in Streams, Asks(x)
              PROVE  /\ modem' \in LinkModems /\ toLib' \in Seq(ModemMsgs)
                     /\ UNCHANGED <<lib, application, toModem>>
            <4>1. [modem EXCEPT !.asked = x] \in LinkModems
                BY <2>1 DEF LinkModems
            <4> QED
                BY <2>1, <3>1, <4>1, ModemMessages, QueueSteps DEF Asks, Sends
        <3>2. /\ modem' \in LinkModems /\ toLib' \in Seq(ModemMsgs)
              /\ UNCHANGED <<lib, application, toModem>>
            BY <2>11, <3>1 DEF StartStream, ChangeStream, StopStream, Streams
        <3>3. /\ used' \in [DOMAIN Bounds -> Nat] /\ call' = call
              /\ \A what \in DOMAIN Bounds : used'[what] \in 0 .. Bounds[what]
            BY <2>1, <2>3, <2>11, Counted DEF StartStream, ChangeStream, StopStream, network
        <3> QED
            BY <2>1, <2>2, <3>2, <3>3 DEF application
    <2>12. CASE ModemReset
        <3>1. [Idle EXCEPT !.resetting = TRUE] \in LinkModems
            BY DEF Idle, LinkModems, Streams
        <3>2. toLib' \in Seq(ModemMsgs) /\ toModem' \in Seq(OutMsgs)
            BY <2>1, <2>12, ModemMessages, QueueSteps DEF ModemReset, Sends
        <3> QED
            BY <2>1, <2>2, <2>3, <2>12, <3>1, <3>2, Counted DEF ModemReset, application
    <2>13. CASE CallChanges
        <3>1. Count("calls")
            BY <2>13 DEF CallChanges
        <3> QED
            BY <2>1, <2>2, <2>3, <2>13, <3>1, Counted DEF CallChanges, application
    <2>14. CASE UNCHANGED vars
        BY <2>1, <2>2, <2>14 DEF vars
    <2> QED
        BY <2>4, <2>5, <2>6, <2>7, <2>8, <2>9, <2>10, <2>11, <2>12, <2>13, <2>14 DEF Next
<1>3. LinkTyped => TypeOK
    BY DEF LinkTyped
<1> QED
    BY <1>1, <1>2, <1>3, PTL DEF Spec

-----------------------------------------------------------------------------
(* What the operations do when no write fails                              *)

\* The protocol state, the call status and the errors of t.
Control(t, proto, priv, active, errors) ==
    /\ t.proto_state = proto /\ t.priv_state = priv
    /\ t.call_server_active = active /\ t.io_errors = errors

SameControl(t, s) ==
    Control(t, s.proto_state, s.priv_state, s.call_server_active, s.io_errors)

\* The buffers of t are those of s.
SameSlots(t, s) ==
    /\ t.speech_config_resp_pend = s.speech_config_resp_pend
    /\ t.slot_size = s.slot_size /\ t.drv_size = s.drv_size
    /\ t.ul_locked = s.ul_locked /\ t.dl_locked = s.dl_locked
    /\ t.ul_desc = s.ul_desc /\ t.dl_desc = s.dl_desc

\* The driver has just been configured for slots of this size.
Fresh(t, size) ==
    /\ ~t.speech_config_resp_pend
    /\ t.slot_size = size /\ t.drv_size = size
    /\ t.ul_locked = {} /\ t.dl_locked = {}
    /\ t.ul_desc = size /\ t.dl_desc = size

\* The parts that leave the buffers and what was written alone: the start of a
\* call and its assertions,
LEMMA EnteredEffects ==
    ASSUME NEW s \in LibStates
    PROVE  /\ Entered(s) \in LibStates
           /\ SameControl(Entered(s), s) /\ SameSlots(Entered(s), s)
           /\ Entered(s).sent = <<>>
<1>1. Entered(s) \in LibStates
    BY ProtocolTyped
<1> QED
    BY <1>1 DEF SameControl, Control, SameSlots, Entered, LibStates

\* A failing assertion is recorded and changes nothing else.
LEMMA AssertEffects ==
    ASSUME NEW s \in LibStates, NEW name, NEW holds
    PROVE  /\ SameControl(Assert(s, name, holds), s)
           /\ SameSlots(Assert(s, name, holds), s)
           /\ Assert(s, name, holds).sent = s.sent
    BY DEF SameControl, Control, SameSlots, Assert, LibStates

\* the changes of the protocol state,
LEMMA ChangeEffects ==
    ASSUME NEW s \in LibStates, NEW proto, NEW priv
    PROVE  LET c == StateChangeTo(s, proto, priv)
               p == PrivChangeTo(s, priv)
           IN  /\ Control(c, proto, priv, s.call_server_active, s.io_errors)
               /\ SameSlots(c, s) /\ c.sent = s.sent
               /\ Control(p, s.proto_state, priv, s.call_server_active, s.io_errors)
               /\ SameSlots(p, s) /\ p.sent = s.sent
<1>1. LET c == StateChangeTo(s, proto, priv)
      IN  /\ Control(c, proto, priv, s.call_server_active, s.io_errors)
          /\ SameSlots(c, s) /\ c.sent = s.sent
    BY DEF Control, SameSlots, StateChangeTo, LibStates
<1>2. LET p == PrivChangeTo(s, priv)
      IN  /\ Control(p, s.proto_state, priv, s.call_server_active, s.io_errors)
          /\ SameSlots(p, s) /\ p.sent = s.sent
    BY DEF Control, SameSlots, PrivChangeTo, LibStates
<1> QED
    BY <1>1, <1>2

\* priv_reset_state_to_disconnected leaves the library idle and out of a call.
LEMMA DisconnectedEffects ==
    ASSUME NEW s \in LibStates
    PROVE  LET d == priv_reset_state_to_disconnected(s)
           IN  /\ Control(d, "DISCONNECTED", "IN_SYNC", FALSE, FALSE)
               /\ SameSlots(d, s) /\ d.sent = s.sent
    BY DEF Control, SameSlots, priv_reset_state_to_disconnected, LibStates

\* the report of an event and the choice of a slot size.
LEMMA ReportedEffects ==
    ASSUME NEW s \in LibStates, NEW b, NEW type
    PROVE  /\ SameControl(Reported(b, s, type), s)
           /\ SameSlots(Reported(b, s, type), s)
           /\ Reported(b, s, type).sent = s.sent
    BY DEF SameControl, Control, SameSlots, Reported, LibStates

\* Setting the size of the slots changes nothing else.
LEMMA SizeEffects ==
    ASSUME NEW s \in LibStates, NEW size
    PROVE  LET z == [s EXCEPT !.slot_size = size]
           IN  /\ SameControl(z, s) /\ z.sent = s.sent /\ z.slot_size = size
               /\ z.speech_config_resp_pend = s.speech_config_resp_pend
               /\ z.drv_size = s.drv_size
               /\ z.ul_locked = s.ul_locked /\ z.dl_locked = s.dl_locked
    BY DEF SameControl, Control, LibStates

\* The wakeline has nothing to do with the rest.
LEMMA WakelineEffects ==
    ASSUME NEW s \in LibStates, NEW id
    PROVE  LET a == priv_acquire_wakeline(s, id, {})
               r == priv_release_wakeline(s, id, {})
               w == priv_reset_wakeline_state(s, {})
           IN  /\ SameControl(a, s) /\ SameSlots(a, s) /\ a.sent = s.sent
               /\ SameControl(r, s) /\ SameSlots(r, s) /\ r.sent = s.sent
               /\ SameControl(w, s) /\ SameSlots(w, s) /\ w.sent = s.sent
<1>1. LET a == priv_acquire_wakeline(s, id, {})
      IN  SameControl(a, s) /\ SameSlots(a, s) /\ a.sent = s.sent
    BY DEF SameControl, Control, SameSlots, priv_acquire_wakeline, LibStates
<1>2. LET r == priv_release_wakeline(s, id, {})
      IN  SameControl(r, s) /\ SameSlots(r, s) /\ r.sent = s.sent
    BY DEF SameControl, Control, SameSlots, priv_release_wakeline, Assert, LibStates
<1>3. LET w == priv_reset_wakeline_state(s, {})
      IN  SameControl(w, s) /\ SameSlots(w, s) /\ w.sent = s.sent
    BY DEF SameControl, Control, SameSlots, priv_reset_wakeline_state, Assert, LibStates
<1> QED
    BY <1>1, <1>2, <1>3

\* A message that is written without any other effect.
LEMMA WriteEffects ==
    ASSUME NEW s \in LibStates, NEW m
    PROVE  LET w == Write(s, m, {})
           IN  /\ Control(w, s.proto_state, s.priv_state, s.call_server_active, FALSE)
               /\ SameSlots(w, s) /\ w.sent = Append(s.sent, m)
    BY DEF Control, SameSlots, Write, LibStates

\* The driver's buffer configuration.
LEMMA BuffersEffects ==
    ASSUME NEW s \in LibStates
    PROVE  /\ LET c == priv_setup_driver_bufconfig(s, {})
              IN  /\ SameControl(c, s) /\ c.sent = s.sent
                  /\ (s.speech_config_resp_pend => s.slot_size = 0)
                        => Fresh(c, s.slot_size)
                  /\ c.slot_size = s.slot_size
           /\ LET v == priv_invalidate_buffer_slots(s)
              IN  /\ SameControl(v, s) /\ v.sent = s.sent
                  /\ v.speech_config_resp_pend = s.speech_config_resp_pend
                  /\ v.slot_size = s.slot_size /\ v.drv_size = s.drv_size
                  /\ v.ul_locked = s.ul_locked /\ v.dl_locked = s.dl_locked
<1>1. s.slot_size \in Nat
    BY Fields
<1> DEFINE c == priv_setup_driver_bufconfig(s, {})
<1> DEFINE Result == /\ SameControl(c, s) /\ c.sent = s.sent
                     /\ (s.speech_config_resp_pend => s.slot_size = 0)
                            => Fresh(c, s.slot_size)
                     /\ c.slot_size = s.slot_size
<1>2. ASSUME s.slot_size = 0 PROVE Result
    <2> DEFINE r == priv_reset_buf_state_to_disconnected(s)
    <2>1. r \in LibStates
        BY BuffersTyped
    <2>2. /\ SameControl(r, s) /\ r.sent = s.sent /\ r.slot_size = 0
          /\ ~r.speech_config_resp_pend /\ r.ul_locked = {} /\ r.dl_locked = {}
          /\ r.ul_desc = 0 /\ r.dl_desc = 0
        BY DEF SameControl, Control, priv_reset_buf_state_to_disconnected, LibStates
    <2> HIDE DEF r
    <2>3. c = [r EXCEPT !.drv_size = 0]
        BY <1>2, <2>2 DEF priv_setup_driver_bufconfig,
                          priv_setup_driver_bufconfig_v2api, r
    <2>4. SameControl(c, s) /\ c.sent = s.sent /\ Fresh(c, 0)
        BY <2>1, <2>2, <2>3 DEF SameControl, Control, Fresh, LibStates
    <2> QED
        BY <1>2, <2>4 DEF Fresh
<1>3. ASSUME s.slot_size # 0 PROVE Result
    <2> DEFINE r == [s EXCEPT !.rx_started = FALSE]
    <2>1. r \in LibStates
        BY Zenon DEF LibStates
    <2>2. SameControl(r, s) /\ r.sent = s.sent /\ SameSlots(r, s)
        BY DEF SameControl, Control, SameSlots, LibStates
    <2> HIDE DEF r
    <2>3. c = [r EXCEPT !.drv_size = r.slot_size,
                   !.ul_locked = {}, !.dl_locked = {},
                   !.ul_desc = r.slot_size, !.dl_desc = r.slot_size]
        BY <1>3, <2>2 DEF priv_setup_driver_bufconfig, SameSlots,
                          priv_setup_driver_bufconfig_v2api, r
    <2>4. /\ SameControl(c, r) /\ c.sent = r.sent /\ c.slot_size = r.slot_size
          /\ ~r.speech_config_resp_pend => Fresh(c, r.slot_size)
        BY <2>1, <2>3 DEF SameControl, Control, Fresh, LibStates
    <2> HIDE DEF c
    <2> QED
        BY <1>3, <2>2, <2>4 DEF SameControl, Control, SameSlots
<1>4. LET v == priv_invalidate_buffer_slots(s)
      IN  /\ SameControl(v, s) /\ v.sent = s.sent
          /\ v.speech_config_resp_pend = s.speech_config_resp_pend
          /\ v.slot_size = s.slot_size /\ v.drv_size = s.drv_size
          /\ v.ul_locked = s.ul_locked /\ v.dl_locked = s.dl_locked
    BY DEF SameControl, Control, priv_invalidate_buffer_slots, LibStates
<1> QED
    BY <1>2, <1>3, <1>4

RESP == [type |-> "SPEECH_CONFIG_RESP", on |-> TRUE, version |-> 0]

\* The requests of the library.
LEMMA RequestsWritten ==
    ASSUME NEW s \in LibStates
    PROVE  /\ LET t == cmtspeech_bc_send_timing_request(s, {})
              IN  /\ Control(t, s.proto_state, "TIMING", s.call_server_active, FALSE)
                  /\ SameSlots(t, s)
                  /\ t.sent = Append(s.sent, OutMsg("NEW_TIMING_CONFIG_REQ"))
           /\ LET t == cmtspeech_send_ssi_config_request(s, TRUE, {})
              IN  /\ Control(t, s.proto_state, "CONNECTING", s.call_server_active, FALSE)
                  /\ SameSlots(t, s)
                  /\ \E v \in {1, 2} : t.sent = Append(s.sent, SsiConfigReq(TRUE, v))
           /\ LET t == cmtspeech_send_ssi_config_request(s, FALSE, {})
              IN  IF s.priv_state = "DISCONNECTING"
                  THEN SameControl(t, s) /\ SameSlots(t, s) /\ t.sent = s.sent
                  ELSE /\ Control(t, s.proto_state, "DISCONNECTING",
                                  s.call_server_active, FALSE)
                       /\ SameSlots(t, s)
                       /\ \E v \in {1, 2} : t.sent = Append(s.sent, SsiConfigReq(FALSE, v))
           /\ LET t == priv_send_reset(s, {})
              IN  /\ Control(t, "INVALID", "IN_SYNC", s.call_server_active, FALSE)
                  /\ Fresh(t, 0)
                  /\ t.sent = Append(s.sent, OutMsg("RESET_CONN_REQ"))
<1>1. /\ {"NEW_TIMING_CONFIG_REQ", "RESET_CONN_REQ"} \subseteq OutTypes
      /\ {"TIMING", "IN_SYNC", "CONNECTING", "DISCONNECTING"} \subseteq Privs
      /\ "INVALID" \in Protos /\ {"CALL", "RESET"} \subseteq WakelineUsers
      /\ {"send_ssi_config_request(0)", "send_ssi_config_request(1)"} \subseteq Assertions
    BY DEF OutTypes, Privs, Protos, WakelineUsers, Assertions
<1>2. LET t == cmtspeech_bc_send_timing_request(s, {})
      IN  /\ Control(t, s.proto_state, "TIMING", s.call_server_active, FALSE)
          /\ SameSlots(t, s)
          /\ t.sent = Append(s.sent, OutMsg("NEW_TIMING_CONFIG_REQ"))
    <2> DEFINE w == Write(s, OutMsg("NEW_TIMING_CONFIG_REQ"), {})
               t == PrivChangeTo(w, "TIMING")
    <2>1. w \in LibStates
        BY <1>1, Messages, ProtocolTyped
    <2>2. /\ Control(w, s.proto_state, s.priv_state, s.call_server_active, FALSE)
          /\ SameSlots(w, s) /\ w.sent = Append(s.sent, OutMsg("NEW_TIMING_CONFIG_REQ"))
        BY WriteEffects
    <2> HIDE DEF w
    <2>3. /\ Control(t, w.proto_state, "TIMING", w.call_server_active, w.io_errors)
          /\ SameSlots(t, w) /\ t.sent = w.sent
        BY <2>1, ChangeEffects
    <2>4. cmtspeech_bc_send_timing_request(s, {}) = t
        BY Zenon DEF cmtspeech_bc_send_timing_request, w
    <2> HIDE DEF t
    <2> QED
        BY <2>2, <2>3, <2>4 DEF Control, SameSlots
<1>3. ASSUME NEW on \in BOOLEAN, NEW a \in LibStates
      PROVE  LET t == SsiConfigWritten(a, on, {})
             IN  /\ Control(t, a.proto_state, IF on THEN "CONNECTING" ELSE "DISCONNECTING",
                            a.call_server_active, FALSE)
                 /\ SameSlots(t, a)
                 /\ \E v \in {1, 2} : t.sent = Append(a.sent, SsiConfigReq(on, v))
    <2> DEFINE x == IF on THEN "CONNECTING" ELSE "DISCONNECTING"
               p == PrivChangeTo(a, x)
               v == a.conf_proto_version
               t == Write(p, SsiConfigReq(on, v), {})
    <2>1. x \in Privs /\ v \in {1, 2}
        BY <1>1, Fields
    <2> HIDE DEF x
    <2>2. p \in LibStates
        BY <1>1, <2>1, ProtocolTyped
    <2>3. /\ Control(p, a.proto_state, x, a.call_server_active, a.io_errors)
          /\ SameSlots(p, a) /\ p.sent = a.sent
        BY ChangeEffects
    <2> HIDE DEF p, v
    <2>4. /\ Control(t, p.proto_state, p.priv_state, p.call_server_active, FALSE)
          /\ SameSlots(t, p) /\ t.sent = Append(p.sent, SsiConfigReq(on, v))
        BY <2>2, WriteEffects
    <2>5. SsiConfigWritten(a, on, {}) = t
        BY Zenon DEF SsiConfigWritten, p, v, x
    <2> HIDE DEF t
    <2>6. /\ Control(t, a.proto_state, x, a.call_server_active, FALSE)
          /\ SameSlots(t, a) /\ t.sent = Append(a.sent, SsiConfigReq(on, v))
        BY <2>3, <2>4 DEF Control, SameSlots
    <2> QED
        BY <2>1, <2>5, <2>6, Zenon DEF x
<1>4. LET t == cmtspeech_send_ssi_config_request(s, TRUE, {})
      IN  /\ Control(t, s.proto_state, "CONNECTING", s.call_server_active, FALSE)
          /\ SameSlots(t, s)
          /\ \E v \in {1, 2} : t.sent = Append(s.sent, SsiConfigReq(TRUE, v))
    <2> DEFINE w == priv_acquire_wakeline(s, "CALL", {})
               a == Assert(w, "send_ssi_config_request(1)",
                           \/ w.proto_state = "DISCONNECTED"
                           \/ w.priv_state = "SSI_CONFIG_PEND")
               t == SsiConfigWritten(a, TRUE, {})
    <2>1. w \in LibStates
        BY <1>1, WakelineTyped
    <2>2. SameControl(w, s) /\ SameSlots(w, s) /\ w.sent = s.sent
        BY WakelineEffects
    <2> HIDE DEF w
    <2>3. a \in LibStates
        BY <1>1, <2>1, AssertTyped
    <2>4. SameControl(a, w) /\ SameSlots(a, w) /\ a.sent = w.sent
        BY <2>1, AssertEffects
    <2> HIDE DEF a
    <2>5. /\ Control(t, a.proto_state, "CONNECTING", a.call_server_active, FALSE)
          /\ SameSlots(t, a)
          /\ \E v \in {1, 2} : t.sent = Append(a.sent, SsiConfigReq(TRUE, v))
        BY <1>3, <2>3
    <2>6. cmtspeech_send_ssi_config_request(s, TRUE, {}) = t
        BY Zenon DEF cmtspeech_send_ssi_config_request,
                     cmtspeech_bc_send_ssi_config_request, a, w
    <2> HIDE DEF t
    <2> QED
        BY <2>2, <2>4, <2>5, <2>6 DEF Control, SameControl, SameSlots
<1>5. LET t == cmtspeech_send_ssi_config_request(s, FALSE, {})
      IN  IF s.priv_state = "DISCONNECTING"
          THEN SameControl(t, s) /\ SameSlots(t, s) /\ t.sent = s.sent
          ELSE /\ Control(t, s.proto_state, "DISCONNECTING",
                          s.call_server_active, FALSE)
               /\ SameSlots(t, s)
               /\ \E v \in {1, 2} : t.sent = Append(s.sent, SsiConfigReq(FALSE, v))
    <2> DEFINE a == Assert(s, "send_ssi_config_request(0)",
                           \/ s.proto_state = "CONNECTED"
                           \/ s.priv_state = "SSI_CONFIG_PEND")
               t == SsiConfigWritten(a, FALSE, {})
    <2>1. a \in LibStates
        BY <1>1, AssertTyped
    <2>2. SameControl(a, s) /\ SameSlots(a, s) /\ a.sent = s.sent
        BY AssertEffects
    <2> HIDE DEF a
    <2>3. /\ Control(t, a.proto_state, "DISCONNECTING", a.call_server_active, FALSE)
          /\ SameSlots(t, a)
          /\ \E v \in {1, 2} : t.sent = Append(a.sent, SsiConfigReq(FALSE, v))
        BY <1>3, <2>1
    <2>4. cmtspeech_send_ssi_config_request(s, FALSE, {}) =
            IF s.priv_state = "DISCONNECTING" THEN a ELSE t
        BY Zenon DEF cmtspeech_send_ssi_config_request,
                     cmtspeech_bc_send_ssi_config_request, a
    <2> HIDE DEF t
    <2> QED
        BY <2>2, <2>3, <2>4 DEF Control, SameControl, SameSlots
<1>6. LET t == priv_send_reset(s, {})
      IN  /\ Control(t, "INVALID", "IN_SYNC", s.call_server_active, FALSE)
          /\ Fresh(t, 0)
          /\ t.sent = Append(s.sent, OutMsg("RESET_CONN_REQ"))
    <2> DEFINE a == priv_acquire_wakeline(s, "RESET", {})
               w == Write(a, OutMsg("RESET_CONN_REQ"), {})
               c == StateChangeTo(w, "INVALID", "IN_SYNC")
               z == [c EXCEPT !.slot_size = 0]
               t == priv_setup_driver_bufconfig(z, {})
    <2>1. a \in LibStates
        BY <1>1, WakelineTyped
    <2>2. SameControl(a, s) /\ SameSlots(a, s) /\ a.sent = s.sent
        BY WakelineEffects
    <2> HIDE DEF a
    <2>3. w \in LibStates
        BY <1>1, <2>1, Messages, ProtocolTyped
    <2>4. /\ Control(w, a.proto_state, a.priv_state, a.call_server_active, FALSE)
          /\ SameSlots(w, a) /\ w.sent = Append(a.sent, OutMsg("RESET_CONN_REQ"))
        BY <2>1, WriteEffects
    <2> HIDE DEF w
    <2>5. c \in LibStates
        BY <1>1, <2>3, ProtocolTyped
    <2>6. /\ Control(c, "INVALID", "IN_SYNC", w.call_server_active, w.io_errors)
          /\ SameSlots(c, w) /\ c.sent = w.sent
        BY <2>3, ChangeEffects
    <2> HIDE DEF c
    <2>7. z \in LibStates
        BY <2>5, BuffersTyped
    <2>8. SameControl(z, c) /\ z.sent = c.sent /\ z.slot_size = 0
        BY <2>5, SizeEffects
    <2> HIDE DEF z
    <2>9. SameControl(t, z) /\ t.sent = z.sent /\ Fresh(t, 0)
        BY <2>7, <2>8, BuffersEffects
    <2>10. priv_send_reset(s, {}) = t
        BY Zenon DEF priv_send_reset, WriteResetConnReq, WakelineUp, LineSwitched,
                     z, c, w, a
    <2> HIDE DEF t
    <2> QED
        BY <2>2, <2>4, <2>6, <2>8, <2>9, <2>10 DEF Control, SameControl
<1> QED
    BY <1>2, <1>4, <1>5, <1>6, Zenon

\* priv_initialize_after_peer_reset
LEMMA PeerResetEffects ==
    ASSUME NEW s \in LibStates
    PROVE  LET t == priv_initialize_after_peer_reset(s, {})
           IN  /\ Control(t, "DISCONNECTED", "IN_SYNC", FALSE, FALSE)
               /\ Fresh(t, 0) /\ t.sent = s.sent
<1> DEFINE z == [s EXCEPT !.slot_size = 0]
           c == priv_setup_driver_bufconfig(z, {})
           d == priv_reset_state_to_disconnected(c)
           t == priv_reset_wakeline_state(d, {})
<1>1. z \in LibStates
    BY BuffersTyped
<1>2. z.sent = s.sent /\ z.slot_size = 0
    BY SizeEffects
<1> HIDE DEF z
<1>3. c \in LibStates
    BY <1>1, BuffersTyped
<1>4. c.sent = z.sent /\ Fresh(c, 0)
    BY <1>1, <1>2, BuffersEffects
<1> HIDE DEF c
<1>5. d \in LibStates
    BY <1>3, ProtocolTyped
<1>6. /\ Control(d, "DISCONNECTED", "IN_SYNC", FALSE, FALSE)
      /\ SameSlots(d, c) /\ d.sent = c.sent
    BY <1>3, DisconnectedEffects
<1> HIDE DEF d
<1>7. SameControl(t, d) /\ SameSlots(t, d) /\ t.sent = d.sent
    BY <1>5, WakelineEffects
<1>8. priv_initialize_after_peer_reset(s, {}) = t
    BY Zenon DEF priv_initialize_after_peer_reset, z, c, d
<1> HIDE DEF t
<1> QED
    BY <1>2, <1>4, <1>6, <1>7, <1>8 DEF Control, SameControl, SameSlots, Fresh

\* r is what the reply to a SPEECH_CONFIG_REQ leaves behind, with the driver
\* configured for slots of this size; the rest depends on the state before.
Replied(r, proto, priv, active, size) ==
    /\ Fresh(r, size)
    /\ priv = "CONFIG_ACT_PEND" /\ proto = "CONNECTED" =>
        /\ Control(r, "ACTIVE_DL", "TIMING", active, FALSE)
        /\ r.sent = <<RESP, OutMsg("NEW_TIMING_CONFIG_REQ")>>
    /\ priv = "CONFIG_ACT_PEND" /\ proto = "ACTIVE_DLUL" =>
        Control(r, "ACTIVE_DL", "IN_SYNC", active, FALSE) /\ r.sent = <<RESP>>
    /\ priv = "CONFIG_DEACT_PEND" /\ proto \in Active =>
        IF active
        THEN Control(r, "CONNECTED", "IN_SYNC", TRUE, FALSE) /\ r.sent = <<RESP>>
        ELSE /\ Control(r, "CONNECTED", "DISCONNECTING", FALSE, FALSE)
             /\ \E v \in {1, 2} : r.sent = <<RESP, SsiConfigReq(FALSE, v)>>
    /\ \/ priv \notin ConfigPending
       \/ priv = "CONFIG_ACT_PEND" /\ proto \notin {"CONNECTED", "ACTIVE_DLUL"}
       \/ priv = "CONFIG_DEACT_PEND" /\ proto \notin Active
       => Control(r, proto, priv, active, FALSE) /\ r.sent = <<RESP>>

\* priv_setup_and_send_speech_config_reply
LEMMA ReplyEffects ==
    ASSUME NEW s \in LibStates, s.sent = <<>>
    PROVE  LET r == priv_setup_and_send_speech_config_reply(s, {})
           IN  /\ r \in LibStates
               /\ Replied(r, s.proto_state, s.priv_state, s.call_server_active, s.slot_size)
<1>1. /\ "post_command" \in Assertions /\ RESP \in OutMsgs
      /\ {"CONNECTED", "ACTIVE_DL"} \subseteq Protos
      /\ "IN_SYNC" \in Privs
    BY Messages DEF Assertions, Protos, Privs, RESP
<1> DEFINE n == [s EXCEPT !.speech_config_resp_pend = FALSE]
           c == priv_setup_driver_bufconfig(n, {})
           w == [c EXCEPT !.sent = Append(c.sent, RESP)]
           a == Assert(w, "post_command", w.priv_state \in ConfigPending)
           u == StateChangeTo(a, "ACTIVE_DL", "IN_SYNC")
           t == cmtspeech_bc_send_timing_request(u, {})
           d == StateChangeTo(a, "CONNECTED", "IN_SYNC")
           x == cmtspeech_send_ssi_config_request(d, FALSE, {})
           p == PostSpeechConfigResp(w, TRUE, {})
           r == [p EXCEPT !.io_errors = FALSE]
<1>2. n \in LibStates
    BY Zenon DEF LibStates
<1>3. /\ SameControl(n, s) /\ n.sent = s.sent /\ n.slot_size = s.slot_size
      /\ ~n.speech_config_resp_pend
    BY DEF SameControl, Control, LibStates
<1> HIDE DEF n
<1>4. c \in LibStates
    BY <1>2, BuffersTyped
<1>5. SameControl(c, n) /\ c.sent = n.sent /\ Fresh(c, n.slot_size)
    BY <1>2, <1>3, BuffersEffects
<1> HIDE DEF c
<1>6. w \in LibStates
    <2>1. c.sent \in Seq(OutMsgs)
        BY <1>4 DEF LibStates
    <2>2. Append(c.sent, RESP) \in Seq(OutMsgs)
        BY <1>1, <2>1
    <2> QED
        BY <1>4, <2>2, Zenon DEF LibStates
<1>7. SameControl(w, c) /\ SameSlots(w, c) /\ w.sent = Append(c.sent, RESP)
    BY <1>4 DEF SameControl, Control, SameSlots, LibStates
<1> HIDE DEF w
<1>8. a \in LibStates
    BY <1>1, <1>6, AssertTyped
<1>9. SameControl(a, w) /\ SameSlots(a, w) /\ a.sent = w.sent
    BY <1>6, AssertEffects
<1> HIDE DEF a
<1>10. u \in LibStates /\ d \in LibStates
    BY <1>1, <1>8, ProtocolTyped
<1>11. /\ Control(u, "ACTIVE_DL", "IN_SYNC", a.call_server_active, a.io_errors)
       /\ SameSlots(u, a) /\ u.sent = a.sent
       /\ Control(d, "CONNECTED", "IN_SYNC", a.call_server_active, a.io_errors)
       /\ SameSlots(d, a) /\ d.sent = a.sent
    BY <1>8, ChangeEffects
<1> HIDE DEF u, d
<1>12. t \in LibStates /\ x \in LibStates
    BY <1>10, RequestsTyped
<1>13. /\ Control(t, u.proto_state, "TIMING", u.call_server_active, FALSE)
       /\ SameSlots(t, u) /\ t.sent = Append(u.sent, OutMsg("NEW_TIMING_CONFIG_REQ"))
    BY <1>10, RequestsWritten
<1>14. /\ Control(x, d.proto_state, "DISCONNECTING", d.call_server_active, FALSE)
       /\ SameSlots(x, d)
       /\ \E v \in {1, 2} : x.sent = Append(d.sent, SsiConfigReq(FALSE, v))
    BY <1>10, <1>11, RequestsWritten DEF Control
<1>15. /\ w.priv_state = "CONFIG_ACT_PEND" /\ w.proto_state = "CONNECTED" => p = t
       /\ w.priv_state = "CONFIG_ACT_PEND" /\ w.proto_state = "ACTIVE_DLUL" => p = u
       /\ w.priv_state = "CONFIG_DEACT_PEND" /\ w.proto_state \in Active =>
            p = IF a.call_server_active THEN d ELSE x
       /\ \/ w.priv_state \notin ConfigPending
          \/ w.priv_state = "CONFIG_ACT_PEND"
             /\ w.proto_state \notin {"CONNECTED", "ACTIVE_DLUL"}
          \/ w.priv_state = "CONFIG_DEACT_PEND" /\ w.proto_state \notin Active
          => p = a
    BY DEF PostSpeechConfigResp, StreamStarted, StreamStopped, ConfigPending,
           a, u, t, d, x
<1>16. p \in {a, u, t, d, x}
    BY <1>15 DEF ConfigPending
<1> HIDE DEF t, x, p
<1>17. p \in LibStates
    BY <1>8, <1>10, <1>12, <1>16
<1>18. r \in LibStates
    BY <1>17, Zenon DEF LibStates
<1>19. /\ Control(r, p.proto_state, p.priv_state, p.call_server_active, FALSE)
       /\ SameSlots(r, p) /\ r.sent = p.sent
    BY <1>17 DEF Control, SameSlots, LibStates
<1>20. priv_setup_and_send_speech_config_reply(s, {}) = r
    BY Zenon DEF priv_setup_and_send_speech_config_reply, WriteSpeechConfigResp,
                 RESP, n, c, w, p, r
<1> HIDE DEF r
<1>21. SameSlots(p, w)
    BY <1>9, <1>11, <1>13, <1>14, <1>16 DEF SameSlots
<1>22. Fresh(r, s.slot_size)
    BY <1>3, <1>5, <1>7, <1>19, <1>21 DEF SameSlots, Fresh
<1>23. SameControl(w, s) /\ w.sent = Append(s.sent, RESP)
    BY <1>3, <1>5, <1>7 DEF SameControl, Control
<1>24. SameControl(a, w) /\ a.sent = w.sent
    BY <1>9
<1> DEFINE q == Append(s.sent, RESP)
<1>25. s.priv_state = "CONFIG_ACT_PEND" /\ s.proto_state = "CONNECTED" =>
            /\ Control(r, "ACTIVE_DL", "TIMING", s.call_server_active, FALSE)
            /\ r.sent = Append(q, OutMsg("NEW_TIMING_CONFIG_REQ"))
    BY <1>11, <1>13, <1>15, <1>19, <1>23, <1>24 DEF SameControl, Control
<1>26. s.priv_state = "CONFIG_ACT_PEND" /\ s.proto_state = "ACTIVE_DLUL" =>
            /\ Control(r, "ACTIVE_DL", "IN_SYNC", s.call_server_active, FALSE)
            /\ r.sent = q
    BY <1>11, <1>15, <1>19, <1>23, <1>24 DEF SameControl, Control
<1>27. ASSUME s.priv_state = "CONFIG_DEACT_PEND", s.proto_state \in Active
       PROVE  IF s.call_server_active
              THEN /\ Control(r, "CONNECTED", "IN_SYNC", TRUE, FALSE)
                   /\ r.sent = q
              ELSE /\ Control(r, "CONNECTED", "DISCONNECTING", FALSE, FALSE)
                   /\ \E v \in {1, 2} : r.sent = Append(q, SsiConfigReq(FALSE, v))
    <2>1. s.call_server_active \in BOOLEAN
        BY Fields
    <2>2. a.call_server_active = s.call_server_active
          /\ p = IF a.call_server_active THEN d ELSE x
        BY <1>15, <1>23, <1>24, <1>27 DEF SameControl, Control
    <2>3. CASE s.call_server_active
        BY <2>1, <2>2, <2>3, <1>11, <1>19, <1>23, <1>24 DEF Control
    <2>4. CASE ~s.call_server_active
        <3>1. Control(r, "CONNECTED", "DISCONNECTING", FALSE, FALSE) /\ r.sent = x.sent
            BY <2>1, <2>2, <2>4, <1>11, <1>14, <1>19 DEF Control
        <3>2. d.sent = q
            BY <1>11, <1>23, <1>24
        <3> QED
            BY <2>4, <3>1, <3>2, <1>14
    <2> QED
        BY <2>3, <2>4
<1>28. \/ s.priv_state \notin ConfigPending
       \/ s.priv_state = "CONFIG_ACT_PEND"
          /\ s.proto_state \notin {"CONNECTED", "ACTIVE_DLUL"}
       \/ s.priv_state = "CONFIG_DEACT_PEND" /\ s.proto_state \notin Active
       => /\ Control(r, s.proto_state, s.priv_state, s.call_server_active, FALSE)
          /\ r.sent = q
    BY <1>15, <1>19, <1>23, <1>24 DEF SameControl, Control
<1>29. /\ q = <<RESP>>
       /\ \A m : Append(q, m) = <<RESP, m>>
    <2>1. Append(<<>>, RESP) = <<RESP>>
        BY OneMessage
    <2>2. \A m : Append(<<RESP>>, m) = <<RESP, m>>
        BY TwoMessages
    <2> QED
        BY <2>1, <2>2, Zenon
<1>30. Append(q, OutMsg("NEW_TIMING_CONFIG_REQ"))
            = <<RESP, OutMsg("NEW_TIMING_CONFIG_REQ")>>
       /\ \A v : Append(q, SsiConfigReq(FALSE, v)) = <<RESP, SsiConfigReq(FALSE, v)>>
    BY <1>29
<1> HIDE DEF q
<1> DEFINE resp == <<RESP>>
           timed == <<RESP, OutMsg("NEW_TIMING_CONFIG_REQ")>>
           Closed(v) == <<RESP, SsiConfigReq(FALSE, v)>>
<1>31. q = resp /\ Append(q, OutMsg("NEW_TIMING_CONFIG_REQ")) = timed
       /\ \A v : Append(q, SsiConfigReq(FALSE, v)) = Closed(v)
    BY <1>29, <1>30, Zenon
<1>32. Replied(r, s.proto_state, s.priv_state, s.call_server_active, s.slot_size)
    <2>1. s.priv_state = "CONFIG_DEACT_PEND" /\ s.proto_state \in Active =>
            IF s.call_server_active
            THEN Control(r, "CONNECTED", "IN_SYNC", TRUE, FALSE) /\ r.sent = resp
            ELSE /\ Control(r, "CONNECTED", "DISCONNECTING", FALSE, FALSE)
                 /\ \E v \in {1, 2} : r.sent = Closed(v)
        <3> HIDE DEF resp, Closed
        <3> QED
            BY <1>27, <1>31
    <2>2. /\ s.priv_state = "CONFIG_ACT_PEND" /\ s.proto_state = "CONNECTED" =>
                /\ Control(r, "ACTIVE_DL", "TIMING", s.call_server_active, FALSE)
                /\ r.sent = timed
          /\ s.priv_state = "CONFIG_ACT_PEND" /\ s.proto_state = "ACTIVE_DLUL" =>
                /\ Control(r, "ACTIVE_DL", "IN_SYNC", s.call_server_active, FALSE)
                /\ r.sent = resp
        <3> HIDE DEF resp, timed
        <3> QED
            BY <1>25, <1>26, <1>31
    <2>3. \/ s.priv_state \notin ConfigPending
          \/ s.priv_state = "CONFIG_ACT_PEND"
             /\ s.proto_state \notin {"CONNECTED", "ACTIVE_DLUL"}
          \/ s.priv_state = "CONFIG_DEACT_PEND" /\ s.proto_state \notin Active
          => /\ Control(r, s.proto_state, s.priv_state, s.call_server_active, FALSE)
             /\ r.sent = resp
        <3> HIDE DEF resp
        <3> QED
            BY <1>28, <1>31
    <2> QED
        BY <1>22, <2>1, <2>2, <2>3, Zenon DEF Replied
<1> QED
    BY <1>18, <1>20, <1>32, Zenon

\* The driver waits with s for the application's buffers.
Waits(t, s, priv, size) ==
    /\ Control(t, s.proto_state, priv, s.call_server_active, s.io_errors)
    /\ t.speech_config_resp_pend /\ t.slot_size = size
    /\ t.drv_size = s.drv_size
    /\ t.ul_locked = s.ul_locked /\ t.dl_locked = s.dl_locked
    /\ t.sent = <<>>

\* SPEECH_CONFIG_REQ is replied to at once or when the buffers are back.
LEMMA SpeechConfigEffects ==
    ASSUME NEW s \in LibStates, NEW stream \in BOOLEAN, NEW rate \in Rates
    PROVE  LET h == HandleSpeechConfigReq(s, stream, rate, {})
               priv == IF stream THEN "CONFIG_ACT_PEND" ELSE "CONFIG_DEACT_PEND"
               size == IF stream THEN SlotSize(rate) ELSE 0
           IN  IF Unlocked(s)
               THEN Replied(h, s.proto_state, priv, s.call_server_active, size)
               ELSE Waits(h, s, priv, size)
<1> DEFINE e == Entered(s)
           a == Assert(e, "speech_config_req", s.proto_state \in Enabled)
           priv == IF stream THEN "CONFIG_ACT_PEND" ELSE "CONFIG_DEACT_PEND"
           size == IF stream THEN SlotSize(rate) ELSE 0
           p == PrivChangeTo(a, priv)
           c == [p EXCEPT !.slot_size = size]
           r == priv_setup_and_send_speech_config_reply(c, {})
           n == [c EXCEPT !.speech_config_resp_pend = TRUE]
           v == priv_invalidate_buffer_slots(n)
           x == IF Unlocked(p) THEN r ELSE v
           h == Reported(s, x, "SPEECH_CONFIG_REQ")
<1>1. /\ "speech_config_req" \in Assertions /\ "INVALID" \in Protos
      /\ priv \in Privs /\ size \in Nat
    BY DEF Assertions, Protos, Privs, Rates, SlotSize
<1>2. /\ e \in LibStates /\ SameControl(e, s) /\ SameSlots(e, s)
      /\ e.sent = <<>>
    BY EnteredEffects
<1> HIDE DEF e, priv, size
<1>3. a \in LibStates
    BY <1>1, <1>2, AssertTyped
<1>4. SameControl(a, e) /\ SameSlots(a, e) /\ a.sent = e.sent
    BY <1>2, AssertEffects
<1> HIDE DEF a
<1>5. p \in LibStates
    BY <1>1, <1>3, ProtocolTyped
<1>6. /\ Control(p, a.proto_state, priv, a.call_server_active, a.io_errors)
      /\ SameSlots(p, a) /\ p.sent = a.sent
    BY <1>3, ChangeEffects
<1> HIDE DEF p
<1>7. c \in LibStates
    BY <1>1, <1>5, BuffersTyped
<1>8. /\ SameControl(c, p) /\ c.sent = p.sent /\ c.slot_size = size
      /\ c.drv_size = p.drv_size
      /\ c.ul_locked = p.ul_locked /\ c.dl_locked = p.dl_locked
    BY <1>5, SizeEffects
<1> HIDE DEF c
<1>9. c.sent = <<>>
    BY <1>2, <1>4, <1>6, <1>8
<1>10. /\ r \in LibStates
       /\ Replied(r, c.proto_state, c.priv_state, c.call_server_active, c.slot_size)
    BY <1>7, <1>9, ReplyEffects
<1>11. n \in LibStates
    BY <1>7, Zenon DEF LibStates
<1>12. /\ SameControl(n, c) /\ n.sent = c.sent /\ n.slot_size = c.slot_size
       /\ n.drv_size = c.drv_size /\ n.speech_config_resp_pend
       /\ n.ul_locked = c.ul_locked /\ n.dl_locked = c.dl_locked
    BY <1>7 DEF SameControl, Control, LibStates
<1> HIDE DEF r, n
<1>13. v \in LibStates
    BY <1>11, BuffersTyped
<1>14. /\ SameControl(v, n) /\ v.sent = n.sent
       /\ v.speech_config_resp_pend = n.speech_config_resp_pend
       /\ v.slot_size = n.slot_size /\ v.drv_size = n.drv_size
       /\ v.ul_locked = n.ul_locked /\ v.dl_locked = n.dl_locked
    BY <1>11, BuffersEffects
<1> HIDE DEF v
<1>15. x \in LibStates
    BY <1>10, <1>13
<1>16. SameControl(h, x) /\ SameSlots(h, x) /\ h.sent = x.sent
    BY <1>15, ReportedEffects
<1>17. HandleSpeechConfigReq(s, stream, rate, {}) = h
    BY Zenon DEF HandleSpeechConfigReq, priv_handle_speech_config,
                 e, a, priv, size, p, c, r, n, v, x, h
<1> HIDE DEF h
<1>18. Unlocked(p) <=> Unlocked(s)
    BY <1>2, <1>4, <1>6 DEF Unlocked, SameSlots
<1>19. /\ c.proto_state = s.proto_state /\ c.priv_state = priv /\ c.slot_size = size
       /\ c.call_server_active = s.call_server_active /\ c.io_errors = s.io_errors
       /\ c.drv_size = s.drv_size
       /\ c.ul_locked = s.ul_locked /\ c.dl_locked = s.dl_locked
    BY <1>2, <1>4, <1>6, <1>8 DEF SameControl, Control, SameSlots
<1>20. CASE Unlocked(s)
    <2>1. x = r
        BY <1>18, <1>20
    <2>2. Replied(r, s.proto_state, priv, s.call_server_active, size)
        BY <1>10, <1>19
    <2>3. Replied(h, s.proto_state, priv, s.call_server_active, size)
        BY <1>16, <2>1, <2>2 DEF Replied, SameControl, Control, SameSlots, Fresh
    <2> QED
        BY <1>17, <1>20, <2>3, Zenon DEF priv, size
<1>21. CASE ~Unlocked(s)
    <2>1. x = v
        BY <1>18, <1>21
    <2>2. Waits(h, s, priv, size)
        BY <1>9, <1>12, <1>14, <1>16, <1>19, <2>1, ZenonT(30)
           DEF Waits, SameControl, Control, SameSlots
    <2> QED
        BY <1>17, <1>21, <2>2 DEF priv, size
<1> QED
    BY <1>20, <1>21

\* UPLINK_CONFIG_NTF and TIMING_CONFIG_NTF; both start the uplink.
LEMMA NotificationEffects ==
    ASSUME NEW s \in LibStates
    PROVE  /\ LET h == HandleUplinkConfigNtf(s)
              IN  /\ h.sent = <<>> /\ SameSlots(h, s)
                  /\ IF s.proto_state = "ACTIVE_DL"
                     THEN Control(h, "ACTIVE_DLUL", "IN_SYNC",
                                  s.call_server_active, s.io_errors)
                     ELSE SameControl(h, s)
           /\ LET h == HandleTimingConfigNtf(s)
              IN  /\ h.sent = <<>> /\ SameSlots(h, s)
                  /\ IF s.proto_state = "ACTIVE_DL"
                     THEN Control(h, "ACTIVE_DLUL", "IN_SYNC",
                                  s.call_server_active, s.io_errors)
                     ELSE Control(h, s.proto_state,
                                  IF s.priv_state = "TIMING" THEN "IN_SYNC"
                                  ELSE s.priv_state,
                                  s.call_server_active, s.io_errors)
           /\ LET h == HandleRxData(s)
              IN  h.sent = <<>> /\ SameSlots(h, s) /\ SameControl(h, s)
<1> DEFINE e == Entered(s)
           a == Assert(e, "uplink_config_ntf", s.proto_state = "ACTIVE_DL")
           b == Assert(e, "timing_config_ntf", s.proto_state \in Active)
           u == UplinkStarted(a)
           t == UplinkStarted(b)
           p == PrivChangeTo(t, "IN_SYNC")
           x == IF t.priv_state = "TIMING" THEN p ELSE t
           h == Reported(s, u, "UPLINK_CONFIG_NTF")
           g == Reported(s, x, "TIMING_CONFIG_NTF")
           d == HandleRxData(s)
<1>1. /\ {"uplink_config_ntf", "timing_config_ntf"} \subseteq Assertions
      /\ "ACTIVE_DLUL" \in Protos /\ "IN_SYNC" \in Privs
    BY DEF Assertions, Protos, Privs
<1>2. /\ e \in LibStates /\ SameControl(e, s) /\ SameSlots(e, s)
      /\ e.sent = <<>>
    BY EnteredEffects
<1> HIDE DEF e
<1>3. a \in LibStates /\ b \in LibStates
    BY <1>1, <1>2, AssertTyped
<1>4. /\ SameControl(a, e) /\ SameSlots(a, e) /\ a.sent = e.sent
      /\ SameControl(b, e) /\ SameSlots(b, e) /\ b.sent = e.sent
    BY <1>2, AssertEffects
<1> HIDE DEF a, b
<1>5. ASSUME NEW q \in LibStates
      PROVE  LET w == UplinkStarted(q)
             IN  /\ w \in LibStates /\ SameSlots(w, q) /\ w.sent = q.sent
                 /\ IF q.proto_state = "ACTIVE_DL"
                    THEN Control(w, "ACTIVE_DLUL", "IN_SYNC",
                                 q.call_server_active, q.io_errors)
                    ELSE SameControl(w, q)
    <2> DEFINE c == StateChangeTo(q, "ACTIVE_DLUL", "IN_SYNC")
    <2>1. c \in LibStates
        BY <1>1, ProtocolTyped
    <2>2. /\ Control(c, "ACTIVE_DLUL", "IN_SYNC", q.call_server_active, q.io_errors)
          /\ SameSlots(c, q) /\ c.sent = q.sent
        BY ChangeEffects
    <2>3. UplinkStarted(q) = IF q.proto_state = "ACTIVE_DL" THEN c ELSE q
        BY DEF UplinkStarted
    <2> HIDE DEF c
    <2>4. SameControl(q, q) /\ SameSlots(q, q)
        BY DEF SameControl, Control, SameSlots
    <2> QED
        BY <2>1, <2>2, <2>3, <2>4
<1>6. /\ u \in LibStates /\ SameSlots(u, a) /\ u.sent = a.sent
      /\ IF a.proto_state = "ACTIVE_DL"
         THEN Control(u, "ACTIVE_DLUL", "IN_SYNC", a.call_server_active, a.io_errors)
         ELSE SameControl(u, a)
    BY <1>3, <1>5
<1>7. /\ t \in LibStates /\ SameSlots(t, b) /\ t.sent = b.sent
      /\ IF b.proto_state = "ACTIVE_DL"
         THEN Control(t, "ACTIVE_DLUL", "IN_SYNC", b.call_server_active, b.io_errors)
         ELSE SameControl(t, b)
    BY <1>3, <1>5
<1> HIDE DEF u, t
<1>8. p \in LibStates
    BY <1>1, <1>7, ProtocolTyped
<1>9. /\ Control(p, t.proto_state, "IN_SYNC", t.call_server_active, t.io_errors)
      /\ SameSlots(p, t) /\ p.sent = t.sent
    BY <1>7, ChangeEffects
<1> HIDE DEF p
<1>10. x \in LibStates
    BY <1>7, <1>8
<1>11. /\ SameControl(h, u) /\ SameSlots(h, u) /\ h.sent = u.sent
       /\ SameControl(g, x) /\ SameSlots(g, x) /\ g.sent = x.sent
    BY <1>6, <1>10, ReportedEffects
<1>12. /\ HandleUplinkConfigNtf(s) = h
       /\ HandleTimingConfigNtf(s) = g
    BY Zenon DEF HandleUplinkConfigNtf, HandleTimingConfigNtf, e, a, b, u, t, p, x
<1> HIDE DEF h, g
<1>13. /\ h.sent = <<>> /\ SameSlots(h, s)
       /\ IF s.proto_state = "ACTIVE_DL"
          THEN Control(h, "ACTIVE_DLUL", "IN_SYNC", s.call_server_active, s.io_errors)
          ELSE SameControl(h, s)
    BY <1>2, <1>4, <1>6, <1>11 DEF SameControl, Control, SameSlots
<1>14. /\ g.sent = <<>> /\ SameSlots(g, s)
       /\ IF s.proto_state = "ACTIVE_DL"
          THEN Control(g, "ACTIVE_DLUL", "IN_SYNC", s.call_server_active, s.io_errors)
          ELSE Control(g, s.proto_state,
                       IF s.priv_state = "TIMING" THEN "IN_SYNC" ELSE s.priv_state,
                       s.call_server_active, s.io_errors)
    <2>1. x.sent = <<>> /\ SameSlots(x, s)
        BY <1>2, <1>4, <1>7, <1>9 DEF SameSlots
    <2>2. IF s.proto_state = "ACTIVE_DL"
          THEN Control(x, "ACTIVE_DLUL", "IN_SYNC", s.call_server_active, s.io_errors)
          ELSE Control(x, s.proto_state,
                       IF s.priv_state = "TIMING" THEN "IN_SYNC" ELSE s.priv_state,
                       s.call_server_active, s.io_errors)
        BY <1>2, <1>4, <1>7, <1>9 DEF SameControl, Control
    <2> HIDE DEF x
    <2> QED
        BY <1>11, <2>1, <2>2 DEF SameControl, Control, SameSlots
<1>15. d.sent = <<>> /\ SameSlots(d, s) /\ SameControl(d, s)
    <2>1. d = [e EXCEPT !.rx_started = TRUE]
        BY DEF HandleRxData, e
    <2>2. d.sent = e.sent /\ SameSlots(d, e) /\ SameControl(d, e)
        BY <1>2, <2>1 DEF SameSlots, SameControl, Control, LibStates
    <2> HIDE DEF d
    <2> QED
        BY <1>2, <2>2 DEF SameSlots, SameControl, Control
<1> QED
    BY <1>12, <1>13, <1>14, <1>15, Zenon

\* SSI_CONFIG_RESP: the connection is up, or it is down.
LEMMA SsiConfigEffects ==
    ASSUME NEW s \in LibStates, s.slot_size = 0
    PROVE  LET h == HandleSsiConfigResp(s, TRUE, "inorder", {})
           IN  /\ SameSlots(h, s)
               /\ s.priv_state = "CONNECTING" =>
                    /\ Control(h, "CONNECTED", "IN_SYNC",
                               s.call_server_active, s.io_errors)
                    /\ h.sent = <<>>
               /\ s.priv_state = "DISCONNECTING" =>
                    /\ Control(h, "DISCONNECTED", "IN_SYNC", FALSE, FALSE)
                    /\ h.sent = <<>>
               /\ h.sent = <<>> \/ \E on \in BOOLEAN, v \in {1, 2} :
                                        h.sent = <<SsiConfigReq(on, v)>>
<1> DEFINE e == Entered(s)
           a == Assert(e, "ssi_config_resp",
                       s.proto_state \in {"CONNECTED", "DISCONNECTED"})
           cc == StateChangeTo(a, "CONNECTED", "IN_SYNC")
           c == [cc EXCEPT !.sample_layout = "inorder"]
           d == priv_reset_state_to_disconnected(a)
           o == cmtspeech_send_ssi_config_request(a, TRUE, {})
           oo == StateChangeTo(o, "DISCONNECTED", "CONNECTING")
           f == cmtspeech_send_ssi_config_request(a, FALSE, {})
           ff == StateChangeTo(f, "CONNECTED", "DISCONNECTING")
           x == SsiConfigAnswered(a, TRUE, "inorder", {})
           r == priv_release_wakeline(x, "CALL", {})
           y == priv_handle_ssi_config_resp(x, {})
           h == Reported(s, y, "SSI_CONFIG_RESP")
<1>1. /\ "ssi_config_resp" \in Assertions
      /\ {"CONNECTED", "DISCONNECTED"} \subseteq Protos
      /\ {"IN_SYNC", "CONNECTING", "DISCONNECTING"} \subseteq Privs
      /\ "CALL" \in WakelineUsers
    BY DEF Assertions, Protos, Privs, WakelineUsers
<1>2. /\ e \in LibStates /\ SameControl(e, s) /\ SameSlots(e, s)
      /\ e.sent = <<>>
    BY EnteredEffects
<1> HIDE DEF e
<1>3. a \in LibStates
    BY <1>1, <1>2, AssertTyped
<1>4. SameControl(a, e) /\ SameSlots(a, e) /\ a.sent = e.sent
    BY <1>2, AssertEffects
<1> HIDE DEF a
<1>5. cc \in LibStates /\ d \in LibStates /\ o \in LibStates /\ f \in LibStates
    BY <1>1, <1>3, ProtocolTyped, RequestsTyped
<1>6. /\ Control(cc, "CONNECTED", "IN_SYNC", a.call_server_active, a.io_errors)
      /\ SameSlots(cc, a) /\ cc.sent = a.sent
    BY <1>3, ChangeEffects
<1>7. /\ Control(d, "DISCONNECTED", "IN_SYNC", FALSE, FALSE)
      /\ SameSlots(d, a) /\ d.sent = a.sent
    BY <1>3, DisconnectedEffects
<1>8. /\ SameSlots(o, a)
      /\ \E v \in {1, 2} : o.sent = Append(a.sent, SsiConfigReq(TRUE, v))
    BY <1>3, RequestsWritten
<1>9. /\ SameSlots(f, a)
      /\ \/ f.sent = a.sent
         \/ \E v \in {1, 2} : f.sent = Append(a.sent, SsiConfigReq(FALSE, v))
    BY <1>3, RequestsWritten
<1> HIDE DEF cc, d, o, f
<1>10. oo \in LibStates /\ ff \in LibStates
    BY <1>1, <1>5, ProtocolTyped
<1>11. SameSlots(oo, o) /\ oo.sent = o.sent /\ SameSlots(ff, f) /\ ff.sent = f.sent
    BY <1>5, ChangeEffects
<1>12. c \in LibStates
    <2>1. "inorder" \in {"inorder", "swapped", "none"}
        OBVIOUS
    <2> QED
        BY <1>5, <2>1, ZenonT(30) DEF LibStates
<1>13. SameControl(c, cc) /\ SameSlots(c, cc) /\ c.sent = cc.sent
    BY <1>5 DEF SameControl, Control, SameSlots, LibStates
<1> HIDE DEF oo, ff
<1>14. /\ a.priv_state = "CONNECTING" => x = c
       /\ a.priv_state = "DISCONNECTING" => x = d
       /\ x \in {c, d, oo, ff, a}
    <2>1. a.call_server_active \in BOOLEAN
        BY <1>3, Fields
    <2> QED
        BY <2>1 DEF SsiConfigAnswered, c, cc, d, o, oo, f, ff
<1> HIDE DEF c, x
<1>15. x \in LibStates
    BY <1>3, <1>5, <1>10, <1>12, <1>14
<1>16. SameSlots(x, s)
    BY <1>2, <1>4, <1>6, <1>7, <1>8, <1>9, <1>11, <1>13, <1>14 DEF SameSlots
<1>17. r \in LibStates
    BY <1>1, <1>15, WakelineTyped
<1>18. SameControl(r, x) /\ SameSlots(r, x) /\ r.sent = x.sent
    BY <1>15, WakelineEffects
<1> HIDE DEF r
<1>19. y \in {r, x}
    <2>1. ~(x.slot_size > 0)
        BY <1>16 DEF SameSlots
    <2> QED
        BY <2>1, Zenon DEF priv_handle_ssi_config_resp, r
<1> HIDE DEF y
<1>20. y \in LibStates /\ SameControl(y, x) /\ SameSlots(y, x) /\ y.sent = x.sent
    BY <1>15, <1>17, <1>18, <1>19 DEF SameControl, Control, SameSlots
<1>21. SameControl(h, y) /\ SameSlots(h, y) /\ h.sent = y.sent
    BY <1>20, ReportedEffects
<1>22. HandleSsiConfigResp(s, TRUE, "inorder", {}) = h
    BY Zenon DEF HandleSsiConfigResp, e, a, x, y
<1> HIDE DEF h
<1>23. SameSlots(h, s)
    BY <1>16, <1>20, <1>21 DEF SameSlots
<1>24. s.priv_state = "CONNECTING" =>
            /\ Control(h, "CONNECTED", "IN_SYNC", s.call_server_active, s.io_errors)
            /\ h.sent = <<>>
    BY <1>2, <1>4, <1>6, <1>13, <1>14, <1>20, <1>21 DEF SameControl, Control
<1>25. s.priv_state = "DISCONNECTING" =>
            /\ Control(h, "DISCONNECTED", "IN_SYNC", FALSE, FALSE)
            /\ h.sent = <<>>
    BY <1>2, <1>4, <1>7, <1>14, <1>20, <1>21 DEF SameControl, Control
<1>26. h.sent = <<>> \/ \E on \in BOOLEAN, v \in {1, 2} : h.sent = <<SsiConfigReq(on, v)>>
    <2>1. a.sent = <<>> /\ \A m : Append(<<>>, m) = <<m>>
        BY <1>2, <1>4, OneMessage
    <2>2. x.sent = <<>> \/ \E on \in BOOLEAN, v \in {1, 2} :
                                x.sent = Append(<<>>, SsiConfigReq(on, v))
        BY <1>6, <1>7, <1>8, <1>9, <1>11, <1>13, <1>14, <2>1
    <2>3. x.sent = <<>> \/ \E on \in BOOLEAN, v \in {1, 2} :
                                x.sent = <<SsiConfigReq(on, v)>>
        BY <2>1, <2>2, Zenon
    <2> QED
        BY <1>20, <1>21, <2>3, Zenon
<1> QED
    BY <1>22, <1>23, <1>24, <1>25, <1>26, Zenon

\* RESET_CONN_REQ and RESET_CONN_RESP
LEMMA ResetEffects ==
    ASSUME NEW s \in LibStates
    PROVE  /\ LET h == HandleResetConnReq(s, {})
              IN  /\ Control(h, "DISCONNECTED", "IN_SYNC", FALSE, FALSE)
                  /\ Fresh(h, 0) /\ h.sent = <<OutMsg("RESET_CONN_RESP")>>
           /\ LET h == HandleResetConnResp(s, {})
              IN  /\ SameSlots(h, s)
                  /\ IF s.priv_state = "RESET_BEFORE_CONNECT"
                     THEN \E v \in {1, 2} : h.sent = <<SsiConfigReq(TRUE, v)>>
                     ELSE /\ Control(h, "DISCONNECTED", "IN_SYNC", FALSE, FALSE)
                          /\ h.sent = <<>>
<1> DEFINE e == Entered(s)
           a == Assert(e, "reset_conn_req", s.proto_state # "DISCONNECTED")
           d == priv_reset_state_to_disconnected(a)
           w == Write(d, OutMsg("RESET_CONN_RESP"), {})
           i == priv_initialize_after_peer_reset(w, {})
           h == Reported(s, i, "EVENT_RESET")
           b == Assert(e, "reset_conn_resp", s.proto_state # "DISCONNECTED")
           z == priv_reset_state_to_disconnected(b)
           o == cmtspeech_send_ssi_config_request(z, TRUE, {})
           c == IF s.priv_state = "RESET_BEFORE_CONNECT" THEN o ELSE z
           r == priv_release_wakeline(c, "RESET", {})
           g == Reported(s, r, "EVENT_RESET")
<1>1. /\ {"reset_conn_req", "reset_conn_resp"} \subseteq Assertions
      /\ "RESET_CONN_RESP" \in OutTypes /\ "RESET" \in WakelineUsers
    BY DEF Assertions, OutTypes, WakelineUsers
<1>2. /\ e \in LibStates /\ SameControl(e, s) /\ SameSlots(e, s)
      /\ e.sent = <<>>
    BY EnteredEffects
<1> HIDE DEF e
<1>3. a \in LibStates /\ b \in LibStates
    BY <1>1, <1>2, AssertTyped
<1>4. /\ SameControl(a, e) /\ SameSlots(a, e) /\ a.sent = e.sent
      /\ SameControl(b, e) /\ SameSlots(b, e) /\ b.sent = e.sent
    BY <1>2, AssertEffects
<1> HIDE DEF a, b
<1>5. d \in LibStates /\ z \in LibStates
    BY <1>3, ProtocolTyped
<1>6. /\ d.sent = a.sent
      /\ Control(z, "DISCONNECTED", "IN_SYNC", FALSE, FALSE)
      /\ SameSlots(z, b) /\ z.sent = b.sent
    BY <1>3, DisconnectedEffects
<1> HIDE DEF d, z
<1>7. w \in LibStates
    BY <1>1, <1>5, Messages, ProtocolTyped
<1>8. w.sent = Append(d.sent, OutMsg("RESET_CONN_RESP"))
    BY <1>5, WriteEffects
<1> HIDE DEF w
<1>9. i \in LibStates
    BY <1>7, PeerResetSound
<1>10. /\ Control(i, "DISCONNECTED", "IN_SYNC", FALSE, FALSE)
       /\ Fresh(i, 0) /\ i.sent = w.sent
    BY <1>7, PeerResetEffects
<1> HIDE DEF i
<1>11. SameControl(h, i) /\ SameSlots(h, i) /\ h.sent = i.sent
    BY <1>9, ReportedEffects
<1>12. o \in LibStates
    BY <1>5, RequestsTyped
<1>13. /\ SameSlots(o, z)
       /\ \E v \in {1, 2} : o.sent = Append(z.sent, SsiConfigReq(TRUE, v))
    BY <1>5, RequestsWritten
<1> HIDE DEF o
<1>14. c \in LibStates
    BY <1>5, <1>12
<1>15. c = IF s.priv_state = "RESET_BEFORE_CONNECT" THEN o ELSE z
    OBVIOUS
<1> HIDE DEF c
<1>16. r \in LibStates
    BY <1>1, <1>14, WakelineTyped
<1>17. SameControl(r, c) /\ SameSlots(r, c) /\ r.sent = c.sent
    BY <1>14, WakelineEffects
<1> HIDE DEF r
<1>18. SameControl(g, r) /\ SameSlots(g, r) /\ g.sent = r.sent
    BY <1>16, ReportedEffects
<1>19. HandleResetConnReq(s, {}) = h /\ HandleResetConnResp(s, {}) = g
    BY Zenon DEF HandleResetConnReq, HandleResetConnResp, e, a, d, w, i, b, z, o, c, r
<1> HIDE DEF h, g
<1>20. \A m : Append(<<>>, m) = <<m>>
    BY OneMessage
<1>21. /\ Control(h, "DISCONNECTED", "IN_SYNC", FALSE, FALSE)
       /\ Fresh(h, 0)
    BY <1>10, <1>11 DEF SameControl, Control, SameSlots, Fresh
<1>22. h.sent = <<OutMsg("RESET_CONN_RESP")>>
    <2>1. h.sent = Append(<<>>, OutMsg("RESET_CONN_RESP"))
        BY <1>2, <1>4, <1>6, <1>8, <1>10, <1>11
    <2> QED
        BY <1>20, <2>1, Zenon
<1>23. SameSlots(g, s)
    BY <1>2, <1>4, <1>6, <1>13, <1>15, <1>17, <1>18 DEF SameSlots
<1>24. z.sent = <<>>
    BY <1>2, <1>4, <1>6
<1>25. CASE s.priv_state = "RESET_BEFORE_CONNECT"
    <2>1. \E v \in {1, 2} : g.sent = Append(<<>>, SsiConfigReq(TRUE, v))
        BY <1>13, <1>15, <1>17, <1>18, <1>24, <1>25
    <2>2. \E v \in {1, 2} : g.sent = <<SsiConfigReq(TRUE, v)>>
        BY <1>20, <2>1, Zenon
    <2> QED
        BY <1>19, <1>21, <1>22, <1>23, <1>25, <2>2, Zenon
<1>26. CASE s.priv_state # "RESET_BEFORE_CONNECT"
    <2>1. Control(g, "DISCONNECTED", "IN_SYNC", FALSE, FALSE) /\ g.sent = <<>>
        BY <1>6, <1>15, <1>17, <1>18, <1>24, <1>26 DEF SameControl, Control
    <2> QED
        BY <1>19, <1>21, <1>22, <1>23, <1>26, <2>1, Zenon
<1> QED
    BY <1>25, <1>26

\* The speech stream is on and no stop of it is pending.
Running(s) ==
    /\ s.proto_state \in Active
    /\ s.priv_state \in {"IN_SYNC", "TIMING", "CONFIG_ACT_PEND"}

\* cmtspeech_state_change_call_status and cmtspeech_state_change_error
LEMMA StatusEffects ==
    ASSUME NEW s \in LibStates
    PROVE  /\ LET t == cmtspeech_state_change_call_status(s, TRUE, {})
              IN  /\ t.call_server_active
                  /\ s.proto_state = "DISCONNECTED" =>
                        /\ Control(t, "DISCONNECTED", "CONNECTING", TRUE, FALSE)
                        /\ SameSlots(t, s)
                        /\ \E v \in {1, 2} : t.sent = <<SsiConfigReq(TRUE, v)>>
                  /\ s.proto_state \in Active /\ ~s.io_errors =>
                        /\ Control(t, s.proto_state, s.priv_state, TRUE, FALSE)
                        /\ SameSlots(t, s) /\ t.sent = <<>>
           /\ LET t == cmtspeech_state_change_call_status(s, FALSE, {})
              IN  /\ t.call_server_active = FALSE
                  /\ SameSlots(t, s)
                  /\ t.sent = <<>> \/ \E v \in {1, 2} : t.sent = <<SsiConfigReq(FALSE, v)>>
                  /\ s.priv_state = "CONFIG_DEACT_PEND" =>
                        /\ t.proto_state = s.proto_state /\ t.priv_state = s.priv_state
                        /\ t.sent = <<>>
                  /\ s.priv_state = "IN_SYNC" /\ s.proto_state = "CONNECTED" =>
                        /\ Control(t, "CONNECTED", "DISCONNECTING", FALSE, FALSE)
                        /\ \E v \in {1, 2} : t.sent = <<SsiConfigReq(FALSE, v)>>
                  /\ \/ Running(s)
                     \/ s.proto_state \in {"DISCONNECTED", "INVALID"}
                        /\ s.priv_state = "IN_SYNC"
                     => /\ Control(t, s.proto_state, s.priv_state, FALSE, s.io_errors)
                        /\ t.sent = <<>>
           /\ LET t == cmtspeech_state_change_error(s, {})
              IN  /\ Control(t, "INVALID", "IN_SYNC", s.call_server_active, FALSE)
                  /\ Fresh(t, 0) /\ t.sent = <<OutMsg("RESET_CONN_REQ")>>
<1> DEFINE e == Entered(s)
           o == cmtspeech_send_ssi_config_request(e, TRUE, {})
           x == CallActive(e, {})
           t == [x EXCEPT !.call_server_active = TRUE]
           a == Assert(e, "state_change_call_status", e.proto_state = "CONNECTED")
           b == [a EXCEPT !.io_errors = TRUE]
           f == cmtspeech_send_ssi_config_request(e, FALSE, {})
           p == PrivChangeTo(e, "SSI_CONFIG_PEND")
           y == CallInactive(e, {})
           u == [y EXCEPT !.call_server_active = FALSE]
           r == priv_send_reset(e, {})
<1>1. /\ "state_change_call_status" \in Assertions /\ "SSI_CONFIG_PEND" \in Privs
      /\ "INVALID" \in Protos
    BY DEF Assertions, Privs, Protos
<1>2. /\ e \in LibStates /\ SameControl(e, s) /\ SameSlots(e, s)
      /\ e.sent = <<>>
    BY EnteredEffects
<1>3. \A m : Append(<<>>, m) = <<m>>
    BY OneMessage
<1>4. cmtspeech_state_change_call_status(s, TRUE, {}) = t
      /\ cmtspeech_state_change_call_status(s, FALSE, {}) = u
      /\ cmtspeech_state_change_error(s, {}) = r
    BY Zenon DEF cmtspeech_state_change_call_status, cmtspeech_state_change_error
<1> HIDE DEF e
<1>5. x \in LibStates /\ y \in LibStates
    BY <1>2, StatusTyped
<1>6. ASSUME NEW z \in LibStates, NEW on \in BOOLEAN
      PROVE  LET q == [z EXCEPT !.call_server_active = on]
             IN  /\ Control(q, z.proto_state, z.priv_state, on, z.io_errors)
                 /\ SameSlots(q, z) /\ q.sent = z.sent
    BY DEF Control, SameSlots, LibStates
<1>7. /\ Control(t, x.proto_state, x.priv_state, TRUE, x.io_errors)
      /\ SameSlots(t, x) /\ t.sent = x.sent
      /\ Control(u, y.proto_state, y.priv_state, FALSE, y.io_errors)
      /\ SameSlots(u, y) /\ u.sent = y.sent
    BY <1>5, <1>6
<1> HIDE DEF t, u
<1>8. /\ Control(o, e.proto_state, "CONNECTING", e.call_server_active, FALSE)
      /\ SameSlots(o, e)
      /\ \E v \in {1, 2} : o.sent = Append(e.sent, SsiConfigReq(TRUE, v))
    BY <1>2, RequestsWritten
<1>9. IF e.priv_state = "DISCONNECTING"
      THEN SameControl(f, e) /\ SameSlots(f, e) /\ f.sent = e.sent
      ELSE /\ Control(f, e.proto_state, "DISCONNECTING", e.call_server_active, FALSE)
           /\ SameSlots(f, e)
           /\ \E v \in {1, 2} : f.sent = Append(e.sent, SsiConfigReq(FALSE, v))
    BY <1>2, RequestsWritten
<1>10. /\ Control(r, "INVALID", "IN_SYNC", e.call_server_active, FALSE)
       /\ Fresh(r, 0)
       /\ r.sent = Append(e.sent, OutMsg("RESET_CONN_REQ"))
    BY <1>2, RequestsWritten
<1>11. a \in LibStates
    BY <1>1, <1>2, AssertTyped
<1>12. SameControl(a, e) /\ SameSlots(a, e) /\ a.sent = e.sent
    BY <1>2, AssertEffects
<1>13. /\ Control(p, e.proto_state, "SSI_CONFIG_PEND", e.call_server_active, e.io_errors)
       /\ SameSlots(p, e) /\ p.sent = e.sent
    BY <1>2, ChangeEffects
<1> HIDE DEF a, p, o, f, r
<1>14. /\ b.proto_state = a.proto_state /\ b.priv_state = a.priv_state
       /\ SameSlots(b, a) /\ b.sent = a.sent
    BY <1>11 DEF SameSlots, LibStates
<1> HIDE DEF b
<1>15. /\ e.proto_state = "DISCONNECTED" => x = o
       /\ e.proto_state \in Active /\ ~e.io_errors => x = e
    BY DEF CallActive, x, o, Active
<1>16. /\ y \in {b, f, p, e}
       /\ e.priv_state = "CONFIG_DEACT_PEND" => y = b
       /\ e.priv_state = "IN_SYNC" /\ e.proto_state = "CONNECTED" => y = f
       /\ \/ Running(e)
          \/ e.proto_state \in {"DISCONNECTED", "INVALID"} /\ e.priv_state = "IN_SYNC"
          => y = e
    BY DEF CallInactive, y, f, p, b, a, Active, Running
<1> HIDE DEF x, y
<1>17. e.proto_state = s.proto_state /\ e.priv_state = s.priv_state
       /\ e.call_server_active = s.call_server_active
       /\ e.io_errors = s.io_errors
    BY <1>2 DEF SameControl, Control
<1>18. s.proto_state = "DISCONNECTED" =>
            /\ Control(t, "DISCONNECTED", "CONNECTING", TRUE, FALSE)
            /\ SameSlots(t, s)
            /\ \E v \in {1, 2} : t.sent = <<SsiConfigReq(TRUE, v)>>
    <2> SUFFICES ASSUME s.proto_state = "DISCONNECTED"
                 PROVE  /\ Control(t, "DISCONNECTED", "CONNECTING", TRUE, FALSE)
                        /\ SameSlots(t, s)
                        /\ \E v \in {1, 2} : t.sent = <<SsiConfigReq(TRUE, v)>>
        OBVIOUS
    <2>1. x = o
        BY <1>15, <1>17
    <2>2. \E v \in {1, 2} : t.sent = Append(<<>>, SsiConfigReq(TRUE, v))
        BY <1>2, <1>7, <1>8, <2>1
    <2>3. \E v \in {1, 2} : t.sent = <<SsiConfigReq(TRUE, v)>>
        BY <1>3, <2>2, Zenon
    <2>4. Control(t, "DISCONNECTED", "CONNECTING", TRUE, FALSE) /\ SameSlots(t, s)
        BY <1>2, <1>7, <1>8, <1>17, <2>1 DEF Control, SameSlots
    <2> QED
        BY <2>3, <2>4
<1>19. s.proto_state \in Active /\ ~s.io_errors =>
            /\ Control(t, s.proto_state, s.priv_state, TRUE, FALSE)
            /\ SameSlots(t, s) /\ t.sent = <<>>
    <2>1. s.io_errors \in BOOLEAN
        BY Fields
    <2> QED
        BY <1>2, <1>7, <1>15, <1>17, <2>1 DEF Control, SameSlots
<1>20. t.call_server_active /\ u.call_server_active = FALSE
    BY <1>7 DEF Control
<1>21. SameSlots(u, s)
    <2>1. SameSlots(y, e)
        BY <1>9, <1>12, <1>13, <1>14, <1>16 DEF SameSlots
    <2> QED
        BY <1>2, <1>7, <2>1 DEF SameSlots
<1>22. f.sent = <<>> \/ \E v \in {1, 2} : f.sent = <<SsiConfigReq(FALSE, v)>>
    <2>1. f.sent = <<>> \/ \E v \in {1, 2} : f.sent = Append(<<>>, SsiConfigReq(FALSE, v))
        BY <1>2, <1>9
    <2> QED
        BY <1>3, <2>1, Zenon
<1>23. u.sent = <<>> \/ \E v \in {1, 2} : u.sent = <<SsiConfigReq(FALSE, v)>>
    <2>1. b.sent = <<>> /\ p.sent = <<>> /\ e.sent = <<>>
        BY <1>2, <1>12, <1>13, <1>14
    <2>2. u.sent = <<>> \/ u.sent = f.sent
        BY <1>7, <1>16, <2>1
    <2> QED
        BY <1>22, <2>2, Zenon
<1>24. s.priv_state = "CONFIG_DEACT_PEND" =>
            /\ u.proto_state = s.proto_state /\ u.priv_state = s.priv_state
            /\ u.sent = <<>>
    BY <1>2, <1>7, <1>12, <1>14, <1>16, <1>17 DEF SameControl, Control
<1>25. s.priv_state = "IN_SYNC" /\ s.proto_state = "CONNECTED" =>
            /\ Control(u, "CONNECTED", "DISCONNECTING", FALSE, FALSE)
            /\ \E v \in {1, 2} : u.sent = <<SsiConfigReq(FALSE, v)>>
    <2> SUFFICES ASSUME s.priv_state = "IN_SYNC", s.proto_state = "CONNECTED"
                 PROVE  /\ Control(u, "CONNECTED", "DISCONNECTING", FALSE, FALSE)
                        /\ \E v \in {1, 2} : u.sent = <<SsiConfigReq(FALSE, v)>>
        OBVIOUS
    <2>1. y = f /\ e.priv_state = "IN_SYNC"
        BY <1>16, <1>17
    <2>2. \E v \in {1, 2} : u.sent = Append(<<>>, SsiConfigReq(FALSE, v))
        BY <1>2, <1>7, <1>9, <2>1
    <2>3. \E v \in {1, 2} : u.sent = <<SsiConfigReq(FALSE, v)>>
        BY <1>3, <2>2, Zenon
    <2>4. Control(u, "CONNECTED", "DISCONNECTING", FALSE, FALSE)
        BY <1>7, <1>9, <1>17, <2>1 DEF Control
    <2> QED
        BY <2>3, <2>4
<1>26. \/ Running(s)
       \/ s.proto_state \in {"DISCONNECTED", "INVALID"} /\ s.priv_state = "IN_SYNC"
       => /\ Control(u, s.proto_state, s.priv_state, FALSE, s.io_errors)
          /\ u.sent = <<>>
    BY <1>2, <1>7, <1>16, <1>17 DEF Control, Running
<1>27. /\ Control(r, "INVALID", "IN_SYNC", s.call_server_active, FALSE)
       /\ Fresh(r, 0) /\ r.sent = <<OutMsg("RESET_CONN_REQ")>>
    <2>1. r.sent = Append(<<>>, OutMsg("RESET_CONN_REQ"))
        BY <1>2, <1>10
    <2>2. r.sent = <<OutMsg("RESET_CONN_REQ")>>
        BY <1>3, <2>1, Zenon
    <2> QED
        BY <1>10, <1>17, <2>2
<1> QED
    BY <1>4, <1>18, <1>19, <1>20, <1>21, <1>23, <1>24, <1>25, <1>26, <1>27, Zenon

Owed(s) == s.speech_config_resp_pend => ~Unlocked(s)

\* Only the locks of the buffers have changed.
Relocked(t, s) ==
    /\ SameControl(t, s) /\ t.sent = <<>>
    /\ t.speech_config_resp_pend = s.speech_config_resp_pend
    /\ t.slot_size = s.slot_size /\ t.drv_size = s.drv_size
    /\ t.ul_desc = s.ul_desc /\ t.dl_desc = s.dl_desc

\* A buffer that comes back is unlocked, and the last one lets the reply go.
Released(t, s) ==
    \/ /\ Relocked(t, s)
       /\ t.ul_locked \subseteq s.ul_locked /\ t.dl_locked \subseteq s.dl_locked
       /\ s.speech_config_resp_pend => ~Unlocked(t)
    \/ /\ s.speech_config_resp_pend
       /\ Replied(t, s.proto_state, s.priv_state, s.call_server_active, s.slot_size)

\* The buffers given out
LEMMA AcquireEffects ==
    ASSUME NEW s \in LibStates
    PROVE  /\ \A i \in ULSlots :
                LET t == cmtspeech_ul_buffer_acquire(s, i)
                IN  /\ Relocked(t, s) /\ t.dl_locked = s.dl_locked
                    /\ t.ul_locked = s.ul_locked \cup {i}
           /\ \A i \in DLSlots :
                LET t == cmtspeech_dl_buffer_acquire(s, i)
                IN  /\ t.sent = <<>> /\ t.ul_locked = s.ul_locked
                    /\ t.dl_locked = s.dl_locked \cup {i}
                    /\ t.slot_size = s.slot_size
                    /\ t.speech_config_resp_pend = s.speech_config_resp_pend
                    /\ s.proto_state # "TEST_RAMP_PING_ACTIVE" => Relocked(t, s)
<1> DEFINE e == Entered(s)
<1>1. /\ e \in LibStates /\ SameControl(e, s) /\ SameSlots(e, s)
      /\ e.sent = <<>>
    BY EnteredEffects
<1>2. ASSUME NEW i \in ULSlots
      PROVE  LET t == cmtspeech_ul_buffer_acquire(s, i)
             IN  /\ Relocked(t, s) /\ t.dl_locked = s.dl_locked
                 /\ t.ul_locked = s.ul_locked \cup {i}
    <2> DEFINE t == [e EXCEPT !.ul_locked = e.ul_locked \cup {i}]
    <2>1. cmtspeech_ul_buffer_acquire(s, i) = t
        BY Zenon DEF cmtspeech_ul_buffer_acquire
    <2> HIDE DEF e
    <2>2. /\ Relocked(t, e) /\ t.dl_locked = e.dl_locked
          /\ t.ul_locked = e.ul_locked \cup {i}
        BY <1>1 DEF Relocked, SameControl, Control, LibStates
    <2> HIDE DEF t
    <2> QED
        BY <1>1, <2>1, <2>2 DEF Relocked, SameControl, Control, SameSlots
<1>3. ASSUME NEW i \in DLSlots
      PROVE  LET t == cmtspeech_dl_buffer_acquire(s, i)
             IN  /\ t.sent = <<>> /\ t.ul_locked = s.ul_locked
                 /\ t.dl_locked = s.dl_locked \cup {i}
                 /\ t.slot_size = s.slot_size
                 /\ t.speech_config_resp_pend = s.speech_config_resp_pend
                 /\ s.proto_state # "TEST_RAMP_PING_ACTIVE" => Relocked(t, s)
    <2> DEFINE l == [e EXCEPT !.dl_locked = e.dl_locked \cup {i}]
               a == Assert(l, "dl_buffer_acquire", s.dl_desc = s.slot_size)
               d == StateChangeTo(a, "DISCONNECTED", "IN_SYNC")
               t == cmtspeech_dl_buffer_acquire(s, i)
    <2>1. t = IF s.proto_state = "TEST_RAMP_PING_ACTIVE" THEN d ELSE a
        BY Zenon DEF cmtspeech_dl_buffer_acquire
    <2>2. "dl_buffer_acquire" \in Assertions
        BY DEF Assertions
    <2> HIDE DEF e, t
    <2>3. l \in LibStates
        <3>1. e.dl_locked \cup {i} \in SUBSET DLSlots
            BY <1>1, Fields
        <3> QED
            BY <1>1, <3>1, Zenon DEF LibStates
    <2>4. /\ Relocked(l, e) /\ l.ul_locked = e.ul_locked
          /\ l.dl_locked = e.dl_locked \cup {i}
        BY <1>1 DEF Relocked, SameControl, Control, LibStates
    <2> HIDE DEF l
    <2>5. a \in LibStates
        BY <2>2, <2>3, AssertTyped
    <2>6. SameControl(a, l) /\ SameSlots(a, l) /\ a.sent = l.sent
        BY <2>3, AssertEffects
    <2> HIDE DEF a
    <2>7. SameSlots(d, a) /\ d.sent = a.sent
        BY <2>5, ChangeEffects
    <2> HIDE DEF d
    <2>8. /\ t.sent = <<>> /\ t.ul_locked = s.ul_locked
          /\ t.dl_locked = s.dl_locked \cup {i} /\ t.slot_size = s.slot_size
          /\ t.speech_config_resp_pend = s.speech_config_resp_pend
        BY <1>1, <2>1, <2>4, <2>6, <2>7 DEF Relocked, SameSlots
    <2>9. s.proto_state # "TEST_RAMP_PING_ACTIVE" => Relocked(t, s)
        BY <1>1, <2>1, <2>4, <2>6 DEF Relocked, SameControl, Control, SameSlots
    <2> QED
        BY <2>8, <2>9 DEF t
<1> QED
    BY <1>2, <1>3

\* Once BUF_LOCKED is cleared
LEMMA LayoutReleasedEffects ==
    ASSUME NEW a \in LibStates, a.sent = <<>>, a.speech_config_resp_pend,
           NEW name
    PROVE  LET r == LayoutChangeReleased(a, {})
               z == Assert(r, name, r.dl_desc > 0)
               y == Assert(r, name, r.ul_desc > 0)
           IN  Released(z, a) /\ Released(y, a)
<1> DEFINE p == priv_setup_and_send_speech_config_reply(a, {})
           r == LayoutChangeReleased(a, {})
           z == Assert(r, name, r.dl_desc > 0)
           y == Assert(r, name, r.ul_desc > 0)
<1>1. /\ p \in LibStates
      /\ Replied(p, a.proto_state, a.priv_state, a.call_server_active, a.slot_size)
    BY ReplyEffects
<1>2. r = IF ~Unlocked(a) THEN a ELSE p
    BY Zenon DEF LayoutChangeReleased
<1> HIDE DEF p, r
<1>3. r \in LibStates
    BY <1>1, <1>2
<1>4. /\ SameControl(z, r) /\ SameSlots(z, r) /\ z.sent = r.sent
      /\ SameControl(y, r) /\ SameSlots(y, r) /\ y.sent = r.sent
    BY <1>3, AssertEffects
<1> HIDE DEF z, y
<1>5. CASE Unlocked(a)
    <2>1. Replied(r, a.proto_state, a.priv_state, a.call_server_active, a.slot_size)
        BY <1>1, <1>2, <1>5
    <2>2. ASSUME NEW t, SameControl(t, r), SameSlots(t, r), t.sent = r.sent
          PROVE  Replied(t, a.proto_state, a.priv_state, a.call_server_active, a.slot_size)
        BY <2>1, <2>2 DEF Replied, SameControl, Control, SameSlots, Fresh
    <2>3. /\ Replied(z, a.proto_state, a.priv_state, a.call_server_active, a.slot_size)
          /\ Replied(y, a.proto_state, a.priv_state, a.call_server_active, a.slot_size)
        BY <1>4, <2>2
    <2> QED
        BY <2>3, Zenon DEF Released, r, z, y
<1>6. CASE ~Unlocked(a)
    <2>1. r = a
        BY <1>2, <1>6
    <2>2. /\ Relocked(z, a) /\ z.ul_locked = a.ul_locked /\ z.dl_locked = a.dl_locked
          /\ Relocked(y, a) /\ y.ul_locked = a.ul_locked /\ y.dl_locked = a.dl_locked
        BY <1>4, <2>1 DEF Relocked, SameControl, Control, SameSlots
    <2>3. ~Unlocked(z) /\ ~Unlocked(y)
        BY <1>6, <2>2 DEF Unlocked
    <2>4. Released(z, a) /\ Released(y, a)
        BY <2>2, <2>3 DEF Released
    <2> QED
        BY <2>4, Zenon DEF r, z, y
<1> QED
    BY <1>5, <1>6

\* The buffers that come back
LEMMA ReleaseEffects ==
    ASSUME NEW s \in LibStates, Owed(s)
    PROVE  /\ \A i \in ULSlots : Released(cmtspeech_ul_buffer_release(s, i, {}), s)
           /\ \A i \in DLSlots : Released(cmtspeech_dl_buffer_release(s, i, {}), s)
<1> DEFINE e == Entered(s)
<1>1. /\ e \in LibStates /\ SameControl(e, s) /\ SameSlots(e, s)
      /\ e.sent = <<>>
    BY EnteredEffects
<1>2. {"ul_buffer_release", "layout_change_released", "dl_buffer_release"}
        \subseteq Assertions
    BY DEF Assertions
<1>3. ASSUME NEW a \in LibStates, NEW t, SameControl(a, s), a.sent = <<>>,
             a.speech_config_resp_pend = s.speech_config_resp_pend,
             a.slot_size = s.slot_size, a.drv_size = s.drv_size,
             a.ul_desc = s.ul_desc, a.dl_desc = s.dl_desc,
             a.ul_locked \subseteq s.ul_locked, a.dl_locked \subseteq s.dl_locked,
             Released(t, a)
      PROVE  Released(t, s)
    <2>1. CASE /\ a.speech_config_resp_pend
               /\ Replied(t, a.proto_state, a.priv_state, a.call_server_active,
                          a.slot_size)
        BY <1>3, <2>1 DEF Released, SameControl, Control
    <2>2. CASE /\ Relocked(t, a)
               /\ t.ul_locked \subseteq a.ul_locked /\ t.dl_locked \subseteq a.dl_locked
               /\ a.speech_config_resp_pend => ~Unlocked(t)
        BY <1>3, <2>2 DEF Released, Relocked, SameControl, Control
    <2> QED
        BY <1>3, <2>1, <2>2 DEF Released
<1>4. ASSUME NEW i \in ULSlots PROVE Released(cmtspeech_ul_buffer_release(s, i, {}), s)
    <2> DEFINE b == Assert(e, "ul_buffer_release", s.proto_state = "ACTIVE_DLUL")
               u == [b EXCEPT !.ul_locked = b.ul_locked \ {i}]
               a == Assert(u, "layout_change_released",
                           i \in s.ul_locked /\ s.ul_desc = 0)
               r == LayoutChangeReleased(a, {})
               z == Assert(r, "ul_buffer_release", r.ul_desc > 0)
    <2>1. cmtspeech_ul_buffer_release(s, i, {})
            = IF ~s.speech_config_resp_pend THEN u ELSE z
        BY Zenon DEF cmtspeech_ul_buffer_release
    <2> HIDE DEF e
    <2>2. b \in LibStates
        BY <1>1, <1>2, AssertTyped
    <2>3. SameControl(b, e) /\ SameSlots(b, e) /\ b.sent = e.sent
        BY <1>1, AssertEffects
    <2> HIDE DEF b
    <2>4. u \in LibStates
        <3>1. b.ul_locked \ {i} \in SUBSET ULSlots
            BY <2>2, Fields
        <3> QED
            BY <2>2, <3>1, Zenon DEF LibStates
    <2>5. /\ SameControl(u, b) /\ u.sent = b.sent
          /\ u.speech_config_resp_pend = b.speech_config_resp_pend
          /\ u.slot_size = b.slot_size /\ u.drv_size = b.drv_size
          /\ u.ul_desc = b.ul_desc /\ u.dl_desc = b.dl_desc
          /\ u.ul_locked \subseteq b.ul_locked /\ u.dl_locked = b.dl_locked
        BY <2>2 DEF SameControl, Control, LibStates
    <2> HIDE DEF u
    <2>6. a \in LibStates
        BY <1>2, <2>4, AssertTyped
    <2>7. SameControl(a, u) /\ SameSlots(a, u) /\ a.sent = u.sent
        BY <2>4, AssertEffects
    <2> HIDE DEF a
    <2>8. CASE ~s.speech_config_resp_pend
        <3>1. Released(u, s)
            BY <1>1, <2>3, <2>5, <2>8
               DEF Released, Relocked, SameControl, Control, SameSlots
        <3> QED
            BY <2>1, <2>8, <3>1
    <2>9. CASE s.speech_config_resp_pend
        <3>1. a.speech_config_resp_pend /\ a.sent = <<>>
            BY <1>1, <2>3, <2>5, <2>7, <2>9 DEF SameSlots
        <3>2. Released(z, a)
            BY <2>6, <3>1, LayoutReleasedEffects
        <3> HIDE DEF z
        <3>3. Released(z, s)
            BY <1>1, <1>3, <2>3, <2>5, <2>6, <2>7, <3>1, ZenonT(30), <3>2
               DEF SameControl, Control, SameSlots
        <3> QED
            BY <2>1, <2>9, <3>3
    <2> QED
        BY <2>8, <2>9
<1>5. ASSUME NEW i \in DLSlots PROVE Released(cmtspeech_dl_buffer_release(s, i, {}), s)
    <2> DEFINE u == [e EXCEPT !.dl_locked = e.dl_locked \ {i}]
               a == Assert(u, "layout_change_released", s.dl_desc = 0)
               r == LayoutChangeReleased(a, {})
               z == Assert(r, "dl_buffer_release", r.dl_desc > 0)
    <2>1. cmtspeech_dl_buffer_release(s, i, {})
            = IF i \notin s.dl_locked THEN e
              ELSE IF ~s.speech_config_resp_pend THEN u ELSE z
        BY Zenon DEF cmtspeech_dl_buffer_release
    <2> HIDE DEF e
    <2>2. Released(e, s)
        BY <1>1 DEF Released, Relocked, SameSlots, Owed, Unlocked
    <2>4. u \in LibStates
        <3>1. e.dl_locked \ {i} \in SUBSET DLSlots
            BY <1>1, Fields
        <3> QED
            BY <1>1, <3>1, Zenon DEF LibStates
    <2>5. /\ SameControl(u, e) /\ u.sent = e.sent
          /\ u.speech_config_resp_pend = e.speech_config_resp_pend
          /\ u.slot_size = e.slot_size /\ u.drv_size = e.drv_size
          /\ u.ul_desc = e.ul_desc /\ u.dl_desc = e.dl_desc
          /\ u.ul_locked = e.ul_locked /\ u.dl_locked \subseteq e.dl_locked
        BY <1>1 DEF SameControl, Control, LibStates
    <2> HIDE DEF u
    <2>6. a \in LibStates
        BY <1>2, <2>4, AssertTyped
    <2>7. SameControl(a, u) /\ SameSlots(a, u) /\ a.sent = u.sent
        BY <2>4, AssertEffects
    <2> HIDE DEF a
    <2>8. ~s.speech_config_resp_pend => Released(u, s)
        BY <1>1, <2>5 DEF Released, Relocked, SameControl, Control, SameSlots
    <2>9. s.speech_config_resp_pend => Released(z, s)
        <3> SUFFICES ASSUME s.speech_config_resp_pend PROVE Released(z, s)
            OBVIOUS
        <3>1. a.speech_config_resp_pend /\ a.sent = <<>>
            BY <1>1, <2>5, <2>7 DEF SameSlots
        <3>2. Released(z, a)
            BY <2>6, <3>1, LayoutReleasedEffects
        <3> HIDE DEF z
        <3> QED
            BY <1>1, <1>3, <2>5, <2>6, <2>7, <3>1, <3>2
               DEF SameControl, Control, SameSlots
    <2> HIDE DEF z
    <2> QED
        BY <2>1, <2>2, <2>8, <2>9
<1> QED
    BY <1>4, <1>5

-----------------------------------------------------------------------------
(* The steps of the link, by what they leave behind                        *)

UP == ModemMsg("UPLINK_CONFIG_NTF")
TM == ModemMsg("TIMING_CONFIG_NTF")
SR == ModemMsg("SSI_CONFIG_RESP")
NT == OutMsg("NEW_TIMING_CONFIG_REQ")
Off == SpeechConfig("off")

\* The types and streams of the messages, and what tells them apart.
LEMMA MessageIs ==
    /\ UP.type = "UPLINK_CONFIG_NTF" /\ TM.type = "TIMING_CONFIG_NTF"
    /\ SR.type = "SSI_CONFIG_RESP" /\ NT.type = "NEW_TIMING_CONFIG_REQ"
    /\ Off.type = "SPEECH_CONFIG_REQ" /\ Off.stream = "off"
    /\ RESP.type = "SPEECH_CONFIG_RESP" /\ RESP.on
    /\ \A r : SpeechConfig(r).type = "SPEECH_CONFIG_REQ" /\ SpeechConfig(r).stream = r
    /\ \A type : ModemMsg(type).type = type /\ OutMsg(type).type = type
    /\ \A on, v : SsiConfigReq(on, v).type = "SSI_CONFIG_REQ" /\ SsiConfigReq(on, v).on = on
    BY DEF UP, TM, SR, NT, Off, RESP, SpeechConfig, ModemMsg, OutMsg, SsiConfigReq

\* They belong to the messages of their side.
LEMMA MessageTyped ==
    /\ UP \in ModemMsgs /\ TM \in ModemMsgs /\ SR \in ModemMsgs /\ Off \in ModemMsgs
    /\ \A r \in StreamRates : SpeechConfig(r) \in ModemMsgs
    /\ RESP \in OutMsgs /\ NT \in OutMsgs
    /\ \A on \in BOOLEAN, v \in {1, 2} : SsiConfigReq(on, v) \in OutMsgs
<1>1. UP \in ModemMsgs /\ TM \in ModemMsgs /\ SR \in ModemMsgs
    BY ModemMessages DEF UP, TM, SR
<1>2. Off \in ModemMsgs /\ \A r \in StreamRates : SpeechConfig(r) \in ModemMsgs
    BY ModemMessages DEF Off, Streams
<1>3. RESP \in OutMsgs
    BY Messages DEF RESP
<1>4. NT \in OutMsgs
    BY Messages DEF NT, OutTypes
<1> QED
    BY <1>1, <1>2, <1>3, <1>4, Messages

\* cmtspeech_check_pending takes the oldest message.
LEMMA Checked ==
    ASSUME TypeOK, CheckPending
    PROVE  /\ Len(toLib) \in Nat \ {0} /\ toLib[1] \in ModemMsgs
           /\ Handled(toLib[1]) \in LibStates
           /\ Steps(Handled(toLib[1]))
           /\ toLib' = Tail(toLib) /\ toLib' \in Seq(ModemMsgs)
           /\ Len(toLib') = Len(toLib) - 1
           /\ \A k \in 1 .. Len(toLib') : toLib'[k] = toLib[k + 1]
           /\ UNCHANGED <<held, status, modem, call, used>>
<1>1. toLib \in Seq(ModemMsgs) /\ toLib # <<>> /\ lib \in LibStates
    BY DEF TypeOK, CheckPending
<1>2. /\ Len(toLib) \in Nat \ {0} /\ Head(toLib) = toLib[1] /\ toLib[1] \in ModemMsgs
      /\ Tail(toLib) \in Seq(ModemMsgs) /\ Len(Tail(toLib)) = Len(toLib) - 1
      /\ \A k \in 1 .. Len(toLib) - 1 : Tail(toLib)[k] = toLib[k + 1]
    BY <1>1, QueueSteps
<1>3. Steps(Handled(toLib[1])) /\ toLib' = Tail(toLib)
    BY <1>2 DEF CheckPending
<1>4. Handled(toLib[1]) \in LibStates
    BY <1>1, <1>2, HandledTyped
<1> QED
    BY <1>2, <1>3, <1>4 DEF CheckPending, application, network

\* The handlers of the stream and of the uplink, by message.
LEMMA CheckedStream ==
    ASSUME TypeOK, LinkAssumption, CheckPending, NEW stream \in Streams,
           toLib[1] = SpeechConfig(stream)
    PROVE  LET s == Handled(toLib[1])
               priv == IF stream = "off" THEN "CONFIG_DEACT_PEND"
                       ELSE "CONFIG_ACT_PEND"
               size == IF stream = "off" THEN 0 ELSE SlotSize(stream)
           IN  IF Unlocked(lib)
               THEN Replied(s, lib.proto_state, priv, lib.call_server_active, size)
               ELSE Waits(s, lib, priv, size)
<1> DEFINE s == Handled(toLib[1])
           on == stream # "off"
           rate == IF stream = "off" THEN "8kHz" ELSE stream
           priv == IF stream = "off" THEN "CONFIG_DEACT_PEND" ELSE "CONFIG_ACT_PEND"
           size == IF stream = "off" THEN 0 ELSE SlotSize(stream)
<1>1. toLib[1].type = "SPEECH_CONFIG_REQ" /\ toLib[1].stream = stream
    BY MessageIs
<1>2. s = HandleSpeechConfigReq(lib, on, rate, {})
    BY <1>1, HandledIs
<1>3. rate \in Rates /\ on \in BOOLEAN /\ lib \in LibStates
    BY LinkAssumption DEF Streams, Rates, LinkAssumption, TypeOK
<1> HIDE DEF s
<1>4. IF Unlocked(lib)
      THEN Replied(s, lib.proto_state,
                   IF on THEN "CONFIG_ACT_PEND" ELSE "CONFIG_DEACT_PEND",
                   lib.call_server_active, IF on THEN SlotSize(rate) ELSE 0)
      ELSE Waits(s, lib, IF on THEN "CONFIG_ACT_PEND" ELSE "CONFIG_DEACT_PEND",
                 IF on THEN SlotSize(rate) ELSE 0)
    BY <1>2, <1>3, SpeechConfigEffects
<1>5. /\ (IF on THEN "CONFIG_ACT_PEND" ELSE "CONFIG_DEACT_PEND") = priv
      /\ (IF on THEN SlotSize(rate) ELSE 0) = size
    OBVIOUS
<1> HIDE DEF on, rate, priv, size
<1>6. IF Unlocked(lib)
      THEN Replied(s, lib.proto_state, priv, lib.call_server_active, size)
      ELSE Waits(s, lib, priv, size)
    BY <1>4, <1>5
<1> QED
    BY <1>6 DEF s, priv, size

\* A handler that has written nothing leaves the modem's queue alone.
LEMMA Unwritten ==
    ASSUME TypeOK, NEW s \in LibStates, Steps(s), s.sent = <<>>
    PROVE  toModem' = toModem
<1>1. toModem \in Seq(OutMsgs)
    BY DEF TypeOK
<1>2. toModem \o <<>> = toModem
    BY <1>1, QueueSteps
<1>3. toModem' = toModem \o <<>>
    BY DEF Steps
<1> QED
    BY <1>2, <1>3

\* One message more in the queue of the modem.
LEMMA OneWritten ==
    ASSUME TypeOK, NEW s \in LibStates, Steps(s), NEW a \in OutMsgs, s.sent = <<a>>
    PROVE  /\ toModem' = toModem \o <<a>> /\ toModem' \in Seq(OutMsgs)
           /\ Len(toModem) \in Nat /\ Len(toModem') = Len(toModem) + 1
           /\ \A k \in 1 .. Len(toModem) : toModem'[k] = toModem[k]
           /\ toModem'[Len(toModem) + 1] = a
           /\ toModem = <<>> => toModem' = <<a>>
<1>1. toModem \in Seq(OutMsgs)
    BY DEF TypeOK
<1>2. <<a>> \in Seq(OutMsgs) /\ Len(<<a>>) = 1 /\ <<a>>[1] = a /\ <<>> \o <<a>> = <<a>>
    BY OneMessage
<1>3. toModem' = toModem \o <<a>>
    BY DEF Steps
<1>4. /\ toModem \o <<a>> \in Seq(OutMsgs) /\ Len(toModem \o <<a>>) = Len(toModem) + Len(<<a>>)
      /\ \A k \in 1 .. Len(toModem) : (toModem \o <<a>>)[k] = toModem[k]
      /\ \A k \in 1 .. Len(<<a>>) : (toModem \o <<a>>)[Len(toModem) + k] = <<a>>[k]
    BY <1>1, <1>2, QueueSteps
<1>5. Len(toModem) \in Nat
    BY <1>1, LenProperties
<1>6. toModem'[Len(toModem) + 1] = a
    BY <1>2, <1>3, <1>4
<1>7. toModem = <<>> => toModem' = <<a>>
    BY <1>2, <1>3
<1> HIDE DEF OutMsgs
<1> QED
    BY <1>2, <1>3, <1>4, <1>5, <1>6, <1>7

\* UPLINK_CONFIG_NTF and TIMING_CONFIG_NTF
LEMMA CheckedUplink ==
    ASSUME TypeOK, CheckPending, toLib[1] \in {UP, TM}, Running(lib)
    PROVE  /\ SameSlots(lib', lib) /\ Running(lib')
           /\ lib'.call_server_active = lib.call_server_active
           /\ lib'.io_errors = lib.io_errors
           /\ toModem' = toModem
<1> DEFINE s == Handled(toLib[1])
<1>1. s \in LibStates /\ Steps(s) /\ lib \in LibStates
    BY Checked DEF TypeOK
<1>2. \/ toLib[1].type = "UPLINK_CONFIG_NTF" \/ toLib[1].type = "TIMING_CONFIG_NTF"
    BY MessageIs
<1>3. s = HandleUplinkConfigNtf(lib) \/ s = HandleTimingConfigNtf(lib)
    BY <1>2, HandledIs
<1> HIDE DEF s
<1>4. /\ s.sent = <<>> /\ SameSlots(s, lib)
      /\ \/ s.proto_state = "ACTIVE_DLUL" /\ s.priv_state = "IN_SYNC"
         \/ /\ s.proto_state = lib.proto_state
            /\ s.priv_state \in {lib.priv_state, "IN_SYNC"}
      /\ s.call_server_active = lib.call_server_active
      /\ s.io_errors = lib.io_errors
    BY <1>1, <1>3, NotificationEffects DEF Control, SameControl
<1>5. toModem' = toModem
    BY <1>1, <1>4, Unwritten
<1> QED
    BY <1>1, <1>4, <1>5, Returned DEF Running, Active, SameSlots

\* SSI_CONFIG_RESP, on a connection without buffers
LEMMA CheckedSsiConfig ==
    ASSUME TypeOK, CheckPending, toLib[1].type = "SSI_CONFIG_RESP", lib.slot_size = 0
    PROVE  LET s == Handled(toLib[1])
           IN  /\ SameSlots(s, lib)
               /\ lib.priv_state = "CONNECTING" =>
                    /\ Control(s, "CONNECTED", "IN_SYNC",
                               lib.call_server_active, lib.io_errors)
                    /\ s.sent = <<>>
               /\ lib.priv_state = "DISCONNECTING" =>
                    Control(s, "DISCONNECTED", "IN_SYNC", FALSE, FALSE) /\ s.sent = <<>>
               /\ s.sent = <<>> \/ \E on \in BOOLEAN, v \in {1, 2} :
                                         s.sent = <<SsiConfigReq(on, v)>>
<1> DEFINE s == Handled(toLib[1])
<1>1. s \in LibStates /\ Steps(s) /\ lib \in LibStates
    BY Checked DEF TypeOK
<1>2. s = HandleSsiConfigResp(lib, TRUE, "inorder", {})
    BY HandledIs
<1> HIDE DEF s
<1>3. /\ SameSlots(s, lib)
      /\ lib.priv_state = "CONNECTING" =>
            /\ Control(s, "CONNECTED", "IN_SYNC", lib.call_server_active, lib.io_errors)
            /\ s.sent = <<>>
      /\ lib.priv_state = "DISCONNECTING" =>
            Control(s, "DISCONNECTED", "IN_SYNC", FALSE, FALSE) /\ s.sent = <<>>
      /\ s.sent = <<>> \/ \E on \in BOOLEAN, v \in {1, 2} :
                                s.sent = <<SsiConfigReq(on, v)>>
    BY <1>1, <1>2, SsiConfigEffects
<1> QED
    BY <1>3, Zenon DEF s

\* RESET_CONN_REQ and RESET_CONN_RESP
LEMMA CheckedReset ==
    ASSUME TypeOK, CheckPending
    PROVE  LET s == Handled(toLib[1])
           IN  /\ toLib[1].type = "RESET_CONN_REQ" =>
                    /\ s.sent = <<OutMsg("RESET_CONN_RESP")>>
                    /\ Control(s, "DISCONNECTED", "IN_SYNC", FALSE, FALSE)
                    /\ Fresh(s, 0)
               /\ toLib[1].type = "RESET_CONN_RESP" =>
                    /\ SameSlots(s, lib)
                    /\ s.sent = <<>> \/ \E v \in {1, 2} : s.sent = <<SsiConfigReq(TRUE, v)>>
                    /\ lib.priv_state # "RESET_BEFORE_CONNECT" =>
                            /\ s.sent = <<>>
                            /\ Control(s, "DISCONNECTED", "IN_SYNC", FALSE, FALSE)
<1> DEFINE s == Handled(toLib[1])
           a == HandleResetConnReq(lib, {})
           b == HandleResetConnResp(lib, {})
<1>1. s \in LibStates /\ Steps(s) /\ lib \in LibStates
    BY Checked DEF TypeOK
<1>2. /\ toLib[1].type = "RESET_CONN_REQ" => s = a
      /\ toLib[1].type = "RESET_CONN_RESP" => s = b
    BY HandledIs
<1>3. /\ Control(a, "DISCONNECTED", "IN_SYNC", FALSE, FALSE)
      /\ Fresh(a, 0) /\ a.sent = <<OutMsg("RESET_CONN_RESP")>>
    BY <1>1, ResetEffects
<1>4. /\ SameSlots(b, lib)
      /\ IF lib.priv_state = "RESET_BEFORE_CONNECT"
         THEN \E v \in {1, 2} : b.sent = <<SsiConfigReq(TRUE, v)>>
         ELSE Control(b, "DISCONNECTED", "IN_SYNC", FALSE, FALSE) /\ b.sent = <<>>
    BY <1>1, ResetEffects
<1> HIDE DEF s, a, b
<1>5. ASSUME toLib[1].type = "RESET_CONN_REQ"
      PROVE  /\ s.sent = <<OutMsg("RESET_CONN_RESP")>>
             /\ Control(s, "DISCONNECTED", "IN_SYNC", FALSE, FALSE) /\ Fresh(s, 0)
    BY <1>2, <1>3, <1>5
<1>6. ASSUME toLib[1].type = "RESET_CONN_RESP"
      PROVE  /\ SameSlots(s, lib)
             /\ s.sent = <<>> \/ \E v \in {1, 2} : s.sent = <<SsiConfigReq(TRUE, v)>>
             /\ lib.priv_state # "RESET_BEFORE_CONNECT" =>
                    /\ s.sent = <<>>
                    /\ Control(s, "DISCONNECTED", "IN_SYNC", FALSE, FALSE)
    BY <1>2, <1>4, <1>6
<1> QED
    BY <1>5, <1>6 DEF s

\* A speech frame of the modem
LEMMA DataArrives ==
    ASSUME TypeOK, DataReceived
    PROVE  /\ modem.stream # "off" /\ lib.drv_size > 0
           /\ SameControl(lib', lib) /\ SameSlots(lib', lib)
           /\ UNCHANGED <<held, status, modem, toModem, toLib, call, used>>
<1> DEFINE s == HandleRxData(lib)
<1>1. lib \in LibStates
    BY DEF TypeOK
<1>2. s \in LibStates
    BY <1>1, HandlersTyped
<1>3. s.sent = <<>> /\ SameSlots(s, lib) /\ SameControl(s, lib)
    BY <1>1, NotificationEffects
<1>4. Steps(s)
    BY DEF DataReceived
<1> HIDE DEF s
<1>5. SameControl(lib', lib) /\ SameSlots(lib', lib)
    BY <1>2, <1>3, <1>4, Returned DEF SameControl, Control, SameSlots
<1>6. toModem' = toModem
    BY <1>2, <1>3, <1>4, Unwritten
<1> QED
    BY <1>5, <1>6 DEF DataReceived, application, network

\* The change of the call status is relayed.
LEMMA Relayed ==
    ASSUME TypeOK, Relay
    PROVE  /\ status # call /\ status' = call
           /\ UNCHANGED <<held, modem, toLib, call, used>>
           /\ cmtspeech_state_change_call_status(lib, call, {}) \in LibStates
           /\ Steps(cmtspeech_state_change_call_status(lib, call, {}))
<1>1. lib \in LibStates /\ call \in BOOLEAN
    BY DEF TypeOK
<1>2. cmtspeech_state_change_call_status(lib, call, {}) \in LibStates
    BY <1>1, CallsTyped
<1> QED
    BY <1>2 DEF Relay, network

\* cmtspeech_state_change_error
LEMMA Failing ==
    ASSUME TypeOK, Patient, Error
    PROVE  /\ Settled /\ call' = FALSE
           /\ UNCHANGED <<held, status, modem, toLib>>
           /\ Control(lib', "INVALID", "IN_SYNC", lib.call_server_active, FALSE)
           /\ Fresh(lib', 0)
           /\ toModem' = <<OutMsg("RESET_CONN_REQ")>>
<1> DEFINE s == cmtspeech_state_change_error(lib, {})
<1>1. lib \in LibStates
    BY DEF TypeOK
<1>2. s \in LibStates
    BY <1>1, CallsTyped
<1>3. /\ Control(s, "INVALID", "IN_SYNC", lib.call_server_active, FALSE)
      /\ Fresh(s, 0) /\ s.sent = <<OutMsg("RESET_CONN_REQ")>>
    BY <1>1, StatusEffects
<1>4. Steps(s) /\ Settled
    BY DEF Error
<1> HIDE DEF s
<1>5. Control(lib', "INVALID", "IN_SYNC", lib.call_server_active, FALSE) /\ Fresh(lib', 0)
    BY <1>2, <1>3, <1>4, Returned DEF Control, Fresh
<1>6. OutMsg("RESET_CONN_REQ") \in OutMsgs /\ toModem = <<>>
    BY <1>4, Messages DEF OutTypes, Settled, Quiet
<1>7. toModem' = <<OutMsg("RESET_CONN_REQ")>>
    BY <1>2, <1>3, <1>4, <1>6, OneWritten
<1> QED
    BY <1>4, <1>5, <1>7 DEF Error, application

\* A buffer is given out: uplink buffers while the stream is on, downlink
\* buffers while the driver has some.
LEMMA Acquired ==
    ASSUME TypeOK, Acquire
    PROVE  /\ lib.proto_state \in Active \/ lib.dl_desc > 0
           /\ lib.proto_state # "TEST_RAMP_PING_ACTIVE" => Relocked(lib', lib)
           /\ Owed(lib) => Owed(lib')
           /\ toModem' = toModem
           /\ UNCHANGED <<status, modem, toLib, call, used>>
           /\ lib'.slot_size = lib.slot_size
<1>1. lib \in LibStates
    BY DEF TypeOK
<1>2. ASSUME NEW i \in ULAvailable(lib), Steps(cmtspeech_ul_buffer_acquire(lib, i))
      PROVE  /\ lib.proto_state \in Active /\ Relocked(lib', lib)
             /\ Owed(lib) => Owed(lib')
             /\ toModem' = toModem /\ lib'.slot_size = lib.slot_size
    <2> DEFINE s == cmtspeech_ul_buffer_acquire(lib, i)
    <2>1. i \in ULSlots /\ lib.proto_state \in Active
        BY <1>2 DEF ULAvailable
    <2>2. s \in LibStates
        BY <1>1, <2>1, CallsTyped
    <2>3. /\ Relocked(s, lib) /\ s.dl_locked = lib.dl_locked
          /\ s.ul_locked = lib.ul_locked \cup {i}
        BY <1>1, <2>1, AcquireEffects
    <2>4. Steps(s)
        BY <1>2
    <2> HIDE DEF s
    <2>5. toModem' = toModem
        BY <2>2, <2>3, <2>4, Unwritten DEF Relocked
    <2>6. lib'.sent = <<>>
        BY <2>2, <2>4 DEF Steps, LibStates
    <2>7. Relocked(lib', lib)
        BY <2>2, <2>3, <2>4, <2>6, Returned DEF Relocked, SameControl, Control
    <2>8. Owed(lib) => Owed(lib')
        BY <2>2, <2>3, <2>4, Returned DEF Owed, Unlocked, Relocked
    <2> QED
        BY <2>1, <2>5, <2>7, <2>8 DEF Relocked
<1>3. ASSUME NEW i \in DLAvailable(lib), Steps(cmtspeech_dl_buffer_acquire(lib, i))
      PROVE  /\ lib.dl_desc > 0
             /\ lib.proto_state # "TEST_RAMP_PING_ACTIVE" => Relocked(lib', lib)
             /\ Owed(lib) => Owed(lib')
             /\ toModem' = toModem /\ lib'.slot_size = lib.slot_size
    <2> DEFINE s == cmtspeech_dl_buffer_acquire(lib, i)
    <2>1. i \in DLSlots /\ lib.dl_desc > 0
        BY <1>3 DEF DLAvailable
    <2>2. s \in LibStates
        BY <1>1, <2>1, CallsTyped
    <2>3. /\ s.sent = <<>> /\ s.ul_locked = lib.ul_locked
          /\ s.dl_locked = lib.dl_locked \cup {i} /\ s.slot_size = lib.slot_size
          /\ s.speech_config_resp_pend = lib.speech_config_resp_pend
          /\ lib.proto_state # "TEST_RAMP_PING_ACTIVE" => Relocked(s, lib)
        BY <1>1, <2>1, AcquireEffects
    <2>4. Steps(s)
        BY <1>3
    <2> HIDE DEF s
    <2>5. toModem' = toModem
        BY <2>2, <2>3, <2>4, Unwritten
    <2>6. lib'.sent = <<>>
        BY <2>2, <2>4 DEF Steps, LibStates
    <2>7. lib.proto_state # "TEST_RAMP_PING_ACTIVE" => Relocked(lib', lib)
        BY <2>2, <2>3, <2>4, <2>6, Returned DEF Relocked, SameControl, Control
    <2>8. Owed(lib) => Owed(lib')
        BY <2>2, <2>3, <2>4, Returned DEF Owed, Unlocked, Relocked
    <2>9. lib'.slot_size = lib.slot_size
        BY <2>2, <2>3, <2>4, Returned
    <2> QED
        BY <2>1, <2>5, <2>7, <2>8, <2>9
<1>4. \/ \E i \in ULAvailable(lib) : Steps(cmtspeech_ul_buffer_acquire(lib, i))
      \/ \E i \in DLAvailable(lib) : Steps(cmtspeech_dl_buffer_acquire(lib, i))
    BY Zenon DEF Acquire
<1>5. UNCHANGED <<status, modem, toLib, call, used>>
    BY DEF Acquire, network
<1> QED
    BY <1>2, <1>3, <1>4, <1>5

\* A buffer comes back.
LEMMA GivenBack ==
    ASSUME TypeOK, Owed(lib), Release
    PROVE  /\ \E s \in LibStates : Steps(s) /\ Released(s, lib)
           /\ UNCHANGED <<status, modem, toLib, call, used>>
<1>1. lib \in LibStates
    BY DEF TypeOK
<1>2. ASSUME NEW i \in ULSlots, Steps(cmtspeech_ul_buffer_release(lib, i, {}))
      PROVE  \E s \in LibStates : Steps(s) /\ Released(s, lib)
    <2>1. cmtspeech_ul_buffer_release(lib, i, {}) \in LibStates
        BY <1>1, CallsTyped
    <2>2. Released(cmtspeech_ul_buffer_release(lib, i, {}), lib)
        BY <1>1, ReleaseEffects
    <2> QED
        BY <1>2, <2>1, <2>2
<1>3. ASSUME NEW i \in DLSlots, Steps(cmtspeech_dl_buffer_release(lib, i, {}))
      PROVE  \E s \in LibStates : Steps(s) /\ Released(s, lib)
    <2>1. cmtspeech_dl_buffer_release(lib, i, {}) \in LibStates
        BY <1>1, CallsTyped
    <2>2. Released(cmtspeech_dl_buffer_release(lib, i, {}), lib)
        BY <1>1, ReleaseEffects
    <2> QED
        BY <1>3, <2>1, <2>2
<1>4. \/ \E i \in ULSlots : Steps(cmtspeech_ul_buffer_release(lib, i, {}))
      \/ \E i \in DLSlots : Steps(cmtspeech_dl_buffer_release(lib, i, {}))
    BY Zenon DEF Release
<1>5. UNCHANGED <<status, modem, toLib, call, used>>
    BY DEF Release, network
<1> QED
    BY <1>2, <1>3, <1>4, <1>5

\* While no reply is owed, that is all.
LEMMA GivenBackQuietly ==
    ASSUME TypeOK, Release, ~lib.speech_config_resp_pend
    PROVE  /\ Relocked(lib', lib)
           /\ lib'.ul_locked \subseteq lib.ul_locked
           /\ lib'.dl_locked \subseteq lib.dl_locked
           /\ Fresh(lib, 0) => Fresh(lib', 0)
           /\ UNCHANGED <<status, modem, toModem, toLib, call, used>>
<1>1. Owed(lib)
    BY DEF Owed
<1>2. PICK s \in LibStates : Steps(s) /\ Released(s, lib)
    BY <1>1, GivenBack
<1>3. /\ Relocked(s, lib)
      /\ s.ul_locked \subseteq lib.ul_locked /\ s.dl_locked \subseteq lib.dl_locked
    BY <1>2 DEF Released
<1>4. toModem' = toModem
    BY <1>2, <1>3, Unwritten DEF Relocked
<1>5. lib'.sent = <<>>
    BY <1>2 DEF Steps, LibStates
<1>6. /\ Relocked(lib', lib)
      /\ lib'.ul_locked \subseteq lib.ul_locked /\ lib'.dl_locked \subseteq lib.dl_locked
    BY <1>2, <1>3, <1>5, Returned DEF Relocked, SameControl, Control
<1>7. Fresh(lib, 0) => Fresh(lib', 0)
    BY <1>6 DEF Fresh, Relocked
<1> QED
    BY <1>1, <1>4, <1>6, <1>7, GivenBack

\* The modem, when it is not resetting, at the start and after a reset
ModemIs(ssi, stream, asked) ==
    /\ modem.ssi = ssi /\ modem.stream = stream /\ modem.asked = asked
    /\ ~modem.resetting

Idling == ModemIs(FALSE, "off", "none")

Reborn ==
    modem.resetting /\ ~modem.ssi /\ modem.stream = "off" /\ modem.asked = "none"

\* The modem takes the oldest message.
LEMMA Read ==
    ASSUME TypeOK, ModemReads
    PROVE  /\ Len(toModem) \in Nat \ {0} /\ toModem[1] \in OutMsgs
           /\ toModem' = Tail(toModem) /\ toModem' \in Seq(OutMsgs)
           /\ Len(toModem') = Len(toModem) - 1
           /\ \A k \in 1 .. Len(toModem') : toModem'[k] = toModem[k + 1]
           /\ UNCHANGED <<lib, held, status, call, used>>
           /\ IF modem.resetting /\ toModem[1].type # "RESET_CONN_RESP"
              THEN UNCHANGED <<modem, toLib>>
              ELSE Answer(toModem[1]) \/ Reply(toModem[1])
<1>1. toModem \in Seq(OutMsgs) /\ toModem # <<>>
    BY DEF TypeOK, ModemReads
<1>2. /\ Len(toModem) \in Nat \ {0} /\ Head(toModem) = toModem[1] /\ toModem[1] \in OutMsgs
      /\ Tail(toModem) \in Seq(OutMsgs) /\ Len(Tail(toModem)) = Len(toModem) - 1
      /\ \A k \in 1 .. Len(toModem) - 1 : Tail(toModem)[k] = toModem[k + 1]
    BY <1>1, QueueSteps
<1>3. /\ toModem' = Tail(toModem) /\ UNCHANGED <<lib, held, status, call, used>>
      /\ IF modem.resetting /\ Head(toModem).type # "RESET_CONN_RESP"
         THEN UNCHANGED <<modem, toLib>>
         ELSE Answer(Head(toModem)) \/ Reply(Head(toModem))
    BY Zenon DEF ModemReads, application, network
<1>4. IF modem.resetting /\ toModem[1].type # "RESET_CONN_RESP"
      THEN UNCHANGED <<modem, toLib>>
      ELSE Answer(toModem[1]) \/ Reply(toModem[1])
    BY <1>2, <1>3
<1> HIDE DEF OutMsgs
<1> QED
    BY <1>2, <1>3, <1>4

\* and answers it, unless it is busy with its own reset.
LEMMA ReadAnswers ==
    ASSUME TypeOK, ModemReads,
           modem.resetting => toModem[1].type = "RESET_CONN_RESP"
    PROVE  /\ toModem[1].type \in Requests \cup {"SPEECH_CONFIG_RESP", "RESET_CONN_RESP"}
           /\ toModem[1].type = "SSI_CONFIG_REQ" =>
                /\ IF toModem[1].on
                   THEN /\ modem'.ssi /\ modem'.stream = modem.stream
                        /\ modem'.asked = modem.asked /\ ~modem'.resetting
                   ELSE Idling'
                /\ toLib' = toLib \o <<SR>>
           /\ toModem[1].type = "NEW_TIMING_CONFIG_REQ" =>
                /\ UNCHANGED modem
                /\ modem.stream # "off" => toLib' = toLib \o <<UP, TM>>
           /\ toModem[1].type = "RESET_CONN_REQ" =>
                Idling' /\ toLib' = toLib \o <<ModemMsg("RESET_CONN_RESP")>>
           /\ toModem[1].type = "SPEECH_CONFIG_RESP" =>
                /\ modem'.ssi = modem.ssi /\ modem'.asked = "none" /\ ~modem'.resetting
                /\ modem'.stream = IF toModem[1].on /\ modem.asked # "none"
                                   THEN modem.asked ELSE "off"
                /\ toLib' = toLib \o IF "off" \in {modem.stream, modem'.stream} THEN <<>>
                                     ELSE <<UP, TM>>
           /\ toModem[1].type = "RESET_CONN_RESP" =>
                /\ modem'.ssi = modem.ssi /\ modem'.stream = modem.stream
                /\ modem'.asked = modem.asked /\ ~modem'.resetting
                /\ toLib' = toLib
<1> DEFINE m == toModem[1]
<1>1. Answer(m) \/ Reply(m)
    BY Read
<1>2. toLib \o <<>> = toLib
    BY QueueSteps DEF TypeOK
<1>3. UplinkStart = <<UP, TM>> /\ SR = ModemMsg("SSI_CONFIG_RESP")
    BY Zenon DEF UplinkStart, UP, TM, SR
<1>4. m.type \in Requests \cup {"SPEECH_CONFIG_RESP", "RESET_CONN_RESP"}
    BY <1>1 DEF Answer, Reply, Requests
<1>10. modem \in LinkModems
    BY DEF TypeOK, LinkModems
<1>11. Idle.ssi = FALSE /\ Idle.stream = "off" /\ Idle.asked = "none" /\ ~Idle.resetting
    BY DEF Idle
<1> HIDE DEF m
<1>5. ASSUME m.type = "SSI_CONFIG_REQ"
      PROVE  /\ IF m.on
                THEN /\ modem'.ssi /\ modem'.stream = modem.stream
                     /\ modem'.asked = modem.asked /\ ~modem'.resetting
                ELSE Idling'
             /\ toLib' = toLib \o <<SR>>
    <2>1. /\ modem' = IF m.on THEN [modem EXCEPT !.ssi = TRUE] ELSE Idle
          /\ toLib' = toLib \o <<SR>>
        BY <1>1, <1>3, <1>5 DEF Answer, Reply, Sends
    <2>2. ~modem.resetting
        BY <1>5 DEF m
    <2>3. CASE m.on
        BY <1>10, <2>1, <2>2, <2>3 DEF LinkModems
    <2>4. CASE ~m.on
        BY <1>11, <2>1, <2>4 DEF ModemIs, Idling
    <2> QED
        BY <2>1, <2>3, <2>4
<1>6. ASSUME m.type = "NEW_TIMING_CONFIG_REQ"
      PROVE  UNCHANGED modem /\ (modem.stream # "off" => toLib' = toLib \o <<UP, TM>>)
    BY <1>1, <1>3, <1>6 DEF Answer, Reply, Sends
<1>7. ASSUME m.type = "RESET_CONN_REQ"
      PROVE  Idling' /\ toLib' = toLib \o <<ModemMsg("RESET_CONN_RESP")>>
    <2>1. modem' = Idle /\ toLib' = toLib \o <<ModemMsg("RESET_CONN_RESP")>>
        BY <1>1, <1>7 DEF Answer, Reply, Sends
    <2> QED
        BY <1>11, <2>1 DEF ModemIs, Idling
<1>8. ASSUME m.type = "SPEECH_CONFIG_RESP"
      PROVE  /\ modem'.ssi = modem.ssi /\ modem'.asked = "none" /\ ~modem'.resetting
             /\ modem'.stream = IF m.on /\ modem.asked # "none" THEN modem.asked ELSE "off"
             /\ toLib' = toLib \o IF "off" \in {modem.stream, modem'.stream} THEN <<>>
                                  ELSE <<UP, TM>>
    <2>1. /\ modem' = [modem EXCEPT !.asked = "none",
                          !.stream = IF m.on /\ modem.asked # "none"
                                     THEN modem.asked ELSE "off"]
          /\ toLib' = toLib \o IF "off" \in {modem.stream, modem'.stream} THEN <<>>
                               ELSE <<UP, TM>>
        BY <1>1, <1>3, <1>8 DEF Answer, Reply, Sends
    <2>2. ~modem.resetting
        BY <1>8 DEF m
    <2> QED
        BY <1>10, <2>1, <2>2 DEF LinkModems
<1>9. ASSUME m.type = "RESET_CONN_RESP"
      PROVE  /\ modem'.ssi = modem.ssi /\ modem'.stream = modem.stream
             /\ modem'.asked = modem.asked /\ ~modem'.resetting
             /\ toLib' = toLib
    <2>1. modem' = [modem EXCEPT !.resetting = FALSE] /\ toLib' = toLib
        BY <1>1, <1>2, <1>9 DEF Answer, Reply, Sends
    <2> QED
        BY <1>10, <2>1 DEF LinkModems
<1> QED
    BY <1>4, <1>5, <1>6, <1>7, <1>8, <1>9 DEF m

\* The modem asks for a stream.
LEMMA Asked ==
    ASSUME TypeOK, StartStream \/ ChangeStream \/ StopStream
    PROVE  /\ modem.ssi /\ ~modem.resetting /\ modem.asked = "none"
           /\ StartStream => call /\ modem.stream = "off"
           /\ ChangeStream => call /\ modem.stream # "off"
           /\ StopStream => ~call /\ modem.stream # "off"
           /\ \E r \in Streams :
                /\ StopStream => r = "off"
                /\ ~StopStream => r \in StreamRates
                /\ modem'.ssi /\ modem'.stream = modem.stream
                /\ modem'.asked = r /\ ~modem'.resetting
                /\ toLib' = toLib \o <<SpeechConfig(r)>>
           /\ UNCHANGED <<lib, held, status, toModem, call>>
<1>1. ASSUME NEW r, Asks(r)
      PROVE  /\ modem.ssi /\ ~modem.resetting /\ modem.asked = "none"
             /\ modem'.ssi /\ modem'.stream = modem.stream
             /\ modem'.asked = r /\ ~modem'.resetting
             /\ toLib' = toLib \o <<SpeechConfig(r)>>
             /\ UNCHANGED <<lib, held, status, toModem>>
    <2>1. modem \in LinkModems
        BY DEF TypeOK, LinkModems
    <2>2. /\ modem.ssi /\ ~modem.resetting /\ modem.asked = "none"
          /\ modem' = [modem EXCEPT !.asked = r]
          /\ toLib' = toLib \o <<SpeechConfig(r)>>
          /\ UNCHANGED <<lib, held, status, toModem>>
        BY <1>1 DEF Asks, Sends, application
    <2>3. /\ modem'.ssi /\ modem'.stream = modem.stream
          /\ modem'.asked = r /\ ~modem'.resetting
        BY <2>1, <2>2 DEF LinkModems
    <2> QED
        BY <2>2, <2>3
<1>2. CASE StopStream
    <2>1. Asks("off") /\ ~call /\ modem.stream # "off" /\ UNCHANGED call
        BY <1>2 DEF StopStream, network
    <2>2. "off" \in Streams
        BY DEF Streams
    <2>3. ~StartStream /\ ~ChangeStream
        BY <2>1 DEF StartStream, ChangeStream
    <2> QED
        BY <1>1, <1>2, <2>1, <2>2, <2>3
<1>3. CASE StartStream
    <2>1. call /\ modem.stream = "off" /\ UNCHANGED call
        BY <1>3 DEF StartStream, network
    <2>2. PICK r \in StreamRates : Asks(r)
        BY <1>3 DEF StartStream
    <2>3. ~StopStream /\ ~ChangeStream /\ r \in Streams
        BY <2>1 DEF StopStream, ChangeStream, Streams
    <2> QED
        BY <1>1, <1>3, <2>1, <2>2, <2>3
<1>4. CASE ChangeStream
    <2>1. call /\ modem.stream # "off" /\ UNCHANGED call
        BY <1>4 DEF ChangeStream
    <2>2. PICK r \in StreamRates : Asks(r)
        BY <1>4 DEF ChangeStream
    <2>3. ~StopStream /\ ~StartStream /\ r \in Streams
        BY <2>1 DEF StopStream, StartStream, Streams
    <2> QED
        BY <1>1, <1>4, <2>1, <2>2, <2>3
<1> QED
    BY <1>2, <1>3, <1>4

-----------------------------------------------------------------------------
(* The phases of a connection.  Every reachable state is in one of them,   *)
(* and every step leads from one to another or stays.                      *)

\* The protocol state and the private state of s.
In(s, proto, priv) == s.proto_state = proto /\ s.priv_state = priv

\* The messages under way.
Queues(m, l) == toModem = m /\ toLib = l

\* The slots are made for this sample rate.
Sized(s, rate) == s.slot_size = SlotSize(rate) /\ s.drv_size = SlotSize(rate)

\* An SSI_CONFIG_RESP is read before anything else, and nothing but further
\* resets follows a reset of the modem.
Tidy ==
    /\ \A k \in 1 .. Len(toLib) :
            toLib[k].type = "SSI_CONFIG_RESP" => k = 1 /\ lib.slot_size = 0
    /\ \A j, k \in 1 .. Len(toLib) :
            j < k /\ toLib[j].type = "RESET_CONN_REQ"
                => toLib[k].type = "RESET_CONN_REQ"

\* The modem has reset: what is under way from before is void, and the library
\* finds out when it reads as far as the reset.
Resetting ==
    /\ ~call /\ Reborn
    /\ toLib # <<>> /\ toLib[Len(toLib)].type = "RESET_CONN_REQ"
    /\ \A k \in 1 .. Len(toModem) : toModem[k].type # "RESET_CONN_RESP"
    /\ Tidy /\ Owed(lib)

\* A late acknowledgement, which an idle modem ignores.
Harmless(m) == m.type \in {"RESET_CONN_RESP", "SPEECH_CONFIG_RESP"}

\* There is no connection.
Down ==
    /\ ~call /\ (Idling \/ Reborn)
    /\ In(lib, "DISCONNECTED", "IN_SYNC") /\ Fresh(lib, 0)
    /\ \A k \in 1 .. Len(toLib) : toLib[k].type = "RESET_CONN_REQ"
    /\ \A k \in 1 .. Len(toModem) :
         \/ Harmless(toModem[k])
         \/ modem.resetting /\ \A j \in 1 .. k : toModem[j].type # "RESET_CONN_RESP"

\* The application has reset the link: the modem has not read it, or its answer
\* is under way.
Failed ==
    /\ ~call /\ ~modem.resetting
    /\ lib.proto_state = "INVALID"
    /\ lib.priv_state \in {"IN_SYNC", "CONFIG_DEACT_PEND"} /\ Fresh(lib, 0)
    /\ \/ /\ toModem # <<>> /\ toModem[1].type = "RESET_CONN_REQ"
          /\ \A k \in 2 .. Len(toModem) : toModem[k] = RESP
          /\ \A k \in 1 .. Len(toLib) : toLib[k] = Off
       \/ /\ Idling
          /\ \A k \in 1 .. Len(toModem) : toModem[k] = RESP
          /\ toLib # <<>> /\ toLib[Len(toLib)].type = "RESET_CONN_RESP"
          /\ \A k \in 1 .. Len(toLib) - 1 : toLib[k] = Off

\* A call has started and the application does not know yet.
Calling ==
    /\ call /\ ~status /\ Idling
    /\ In(lib, "DISCONNECTED", "IN_SYNC") /\ Fresh(lib, 0)
    /\ Queues(<<>>, <<>>)

\* The connection is set up, and perhaps the stream is already asked for.
Connecting ==
    /\ call /\ status /\ lib.call_server_active /\ ~lib.io_errors
    /\ Fresh(lib, 0)
    /\ \/ /\ In(lib, "DISCONNECTED", "CONNECTING") /\ Idling
          /\ \E v \in {1, 2} : Queues(<<SsiConfigReq(TRUE, v)>>, <<>>)
       \/ /\ ModemIs(TRUE, "off", "none")
          /\ \/ In(lib, "DISCONNECTED", "CONNECTING") /\ Queues(<<>>, <<SR>>)
             \/ In(lib, "CONNECTED", "IN_SYNC") /\ Queues(<<>>, <<>>)
       \/ \E r \in StreamRates :
          /\ ModemIs(TRUE, "off", r)
          /\ \/ /\ In(lib, "DISCONNECTED", "CONNECTING")
                /\ Queues(<<>>, <<SR, SpeechConfig(r)>>)
             \/ /\ In(lib, "CONNECTED", "IN_SYNC")
                /\ Queues(<<>>, <<SpeechConfig(r)>>)

\* The library has replied to the first SPEECH_CONFIG_REQ of the connection.
Starting ==
    /\ call /\ status /\ lib.call_server_active /\ ~lib.io_errors
    /\ In(lib, "ACTIVE_DL", "TIMING") /\ ~lib.speech_config_resp_pend
    /\ Queues(<<RESP, NT>>, <<>>)
    /\ \E r \in StreamRates : ModemIs(TRUE, "off", r) /\ Sized(lib, r)

\* Where a change of the stream has got to.
AskedInLink == \E k \in 1 .. Len(toLib) : toLib[k].type = "SPEECH_CONFIG_REQ"
ReplyInLink == toModem \in {<<RESP>>, <<NT, RESP>>}

\* The stream is on.  Both sides know its parameters, or the request, the reply
\* or the application's buffers are what a change waits for.
Streaming ==
    /\ call /\ modem.ssi /\ ~modem.resetting
    /\ modem.stream \in StreamRates /\ modem.asked \in StreamRates \cup {"none"}
    /\ Running(lib) /\ lib.call_server_active = status /\ ~lib.io_errors
    /\ Owed(lib)
    /\ toModem \in {<<>>, <<NT>>, <<RESP>>, <<NT, RESP>>}
    /\ \A k \in 1 .. Len(toLib) : toLib[k] \in {UP, TM, SpeechConfig(modem.asked)}
    /\ \A j, k \in 1 .. Len(toLib) :
            toLib[j].type = "SPEECH_CONFIG_REQ" /\ toLib[k].type = "SPEECH_CONFIG_REQ"
                => j = k
    /\ IF modem.asked = "none"
       THEN /\ ~AskedInLink /\ ~ReplyInLink /\ ~lib.speech_config_resp_pend
            /\ Sized(lib, modem.stream)
       ELSE \/ /\ AskedInLink /\ ~ReplyInLink /\ ~lib.speech_config_resp_pend
               /\ Sized(lib, modem.stream)
            \/ /\ ~AskedInLink /\ ReplyInLink /\ ~lib.speech_config_resp_pend
               /\ Sized(lib, modem.asked)
            \/ /\ ~AskedInLink /\ ~ReplyInLink /\ lib.speech_config_resp_pend
               /\ lib.slot_size = SlotSize(modem.asked)

\* The call is over and the stream not yet off.
Ending ==
    /\ ~call /\ lib.proto_state \in Active /\ lib.call_server_active = status
    /\ Owed(lib)
    /\ \E r \in StreamRates :
       \/ /\ ModemIs(TRUE, r, "none") /\ Queues(<<>>, <<>>)
          /\ Running(lib) /\ ~lib.io_errors
          /\ ~lib.speech_config_resp_pend /\ Sized(lib, r)
       \/ /\ ModemIs(TRUE, r, "off") /\ Queues(<<>>, <<Off>>)
          /\ Running(lib) /\ ~lib.io_errors
          /\ ~lib.speech_config_resp_pend /\ Sized(lib, r)
       \/ /\ ModemIs(TRUE, r, "off") /\ Queues(<<>>, <<>>)
          /\ lib.priv_state = "CONFIG_DEACT_PEND"
          /\ lib.speech_config_resp_pend /\ lib.slot_size = 0

\* The stream is off and the connection goes down.
Closing ==
    /\ ~call /\ lib.proto_state = "CONNECTED" /\ Fresh(lib, 0)
    /\ lib.call_server_active = status
    /\ \/ /\ status /\ lib.priv_state = "IN_SYNC"
          /\ \/ ModemIs(TRUE, "off", "none") /\ Queues(<<>>, <<>>)
             \/ \E r \in StreamRates :
                    ModemIs(TRUE, r, "off") /\ Queues(<<RESP>>, <<>>)
       \/ /\ ~status /\ lib.priv_state = "DISCONNECTING"
          /\ \/ \E v \in {1, 2} :
                \/ /\ ModemIs(TRUE, "off", "none")
                   /\ Queues(<<SsiConfigReq(FALSE, v)>>, <<>>)
                \/ \E r \in StreamRates :
                   /\ ModemIs(TRUE, r, "off")
                   /\ Queues(<<RESP, SsiConfigReq(FALSE, v)>>, <<>>)
             \/ Idling /\ Queues(<<>>, <<SR>>)

\* The link is always in one of them.
Phases == \/ Resetting \/ Down \/ Failed \/ Calling \/ Connecting \/ Starting
          \/ Streaming \/ Ending \/ Closing


\* What a reset of the modem finds.
LEMMA TidyQueue ==
    ASSUME TypeOK, Phases
    PROVE  Tidy
<1>1. toLib \in Seq(ModemMsgs) /\ Len(toLib) \in Nat
    BY LenProperties DEF TypeOK
<1>2. \A r : Len(<<SR, SpeechConfig(r)>>) = 2 /\ <<SR, SpeechConfig(r)>>[1] = SR
             /\ <<SR, SpeechConfig(r)>>[2] = SpeechConfig(r)
    BY TwoMessages
<1>3. \A m : Len(<<m>>) = 1 /\ <<m>>[1] = m
    BY OneMessage
<1>4. Len(<<>>) = 0
    OBVIOUS
<1>5. CASE Resetting
    BY <1>5 DEF Resetting
<1>6. CASE Down
    BY <1>1, <1>6, MessageIs DEF Down, Tidy
<1>7. CASE Failed
    BY <1>1, <1>7, MessageIs DEF Failed, Tidy
<1>8. CASE Calling \/ Starting
    <2>1. toLib = <<>>
        BY <1>8 DEF Calling, Starting, Queues
    <2> QED
        BY <1>4, <2>1 DEF Tidy
<1>9. CASE Connecting
    <2>1. lib.slot_size = 0
        BY <1>9 DEF Connecting, Fresh
    <2>2. \/ toLib = <<>> \/ toLib = <<SR>>
          \/ \E r \in StreamRates :
                toLib = <<SR, SpeechConfig(r)>> \/ toLib = <<SpeechConfig(r)>>
        BY <1>9 DEF Connecting, Queues
    <2>3. CASE toLib = <<>> \/ toLib = <<SR>>
        BY <1>3, <1>4, <2>1, <2>3, MessageIs DEF Tidy
    <2>4. ASSUME NEW r \in StreamRates, toLib = <<SR, SpeechConfig(r)>>
          PROVE  Tidy
        BY <1>2, <2>1, <2>4, MessageIs DEF Tidy
    <2>5. ASSUME NEW r \in StreamRates, toLib = <<SpeechConfig(r)>>
          PROVE  Tidy
        BY <1>3, <2>1, <2>5, MessageIs DEF Tidy
    <2> QED
        BY <2>2, <2>3, <2>4, <2>5
<1>10. CASE Streaming
    BY <1>1, <1>10, MessageIs DEF Streaming, Tidy
<1>11. CASE Ending
    <2>1. toLib = <<>> \/ toLib = <<Off>>
        BY <1>11 DEF Ending, Queues
    <2> QED
        BY <1>3, <1>4, <2>1, MessageIs DEF Tidy
<1>12. CASE Closing
    <2>1. (toLib = <<>> \/ toLib = <<SR>>) /\ lib.slot_size = 0
        BY <1>12 DEF Closing, Queues, Fresh
    <2> QED
        BY <1>3, <1>4, <2>1, MessageIs DEF Tidy
<1> QED
    BY <1>5, <1>6, <1>7, <1>8, <1>9, <1>10, <1>11, <1>12 DEF Phases

\* A reply the library owes waits for a buffer.
LEMMA RepliesOwed ==
    ASSUME Phases
    PROVE  Owed(lib)
    BY DEF Phases, Resetting, Down, Failed, Calling, Connecting, Starting, Streaming,
           Ending, Closing, Owed, Fresh

\* A reset of the modem starts all over.
LEMMA ModemResets ==
    ASSUME TypeOK, Phases, ModemReset
    PROVE  Resetting'
<1> DEFINE m == ModemMsg("RESET_CONN_REQ")
<1>1. /\ modem' = [Idle EXCEPT !.resetting = TRUE]
      /\ toModem' = <<>> /\ toLib' = toLib \o <<m>>
      /\ call' = FALSE /\ lib' = lib
    BY Zenon DEF ModemReset, Sends
<1>2. toLib \in Seq(ModemMsgs) /\ Len(toLib) \in Nat /\ Tidy /\ Owed(lib)
    BY TidyQueue, RepliesOwed, LenProperties DEF TypeOK
<1>3. m \in ModemMsgs /\ <<m>> \in Seq(ModemMsgs) /\ Len(<<m>>) = 1 /\ <<m>>[1] = m
    BY OneMessage, ModemMessages
<1>4. /\ toLib \o <<m>> \in Seq(ModemMsgs)
      /\ Len(toLib \o <<m>>) = Len(toLib) + Len(<<m>>)
      /\ \A k \in 1 .. Len(toLib) : (toLib \o <<m>>)[k] = toLib[k]
      /\ \A k \in 1 .. Len(<<m>>) : (toLib \o <<m>>)[Len(toLib) + k] = <<m>>[k]
    BY <1>2, <1>3, QueueSteps
<1>5. m.type = "RESET_CONN_REQ"
    BY MessageIs
<1> HIDE DEF m
<1>6. /\ Len(toLib') = Len(toLib) + 1 /\ toLib'[Len(toLib) + 1] = m
      /\ \A k \in 1 .. Len(toLib) : toLib'[k] = toLib[k]
    BY <1>1, <1>3, <1>4
<1>7. toLib' # <<>>
    BY <1>2, <1>6
<1>8. Tidy'
    BY <1>1, <1>2, <1>5, <1>6 DEF Tidy
<1>9. Reborn'
    BY <1>1 DEF Idle, Reborn
<1> QED
    BY <1>1, <1>2, <1>5, <1>6, <1>7, <1>8, <1>9 DEF Resetting, Owed, Unlocked

-----------------------------------------------------------------------------
(* The steps from each phase                                               *)

Ordinary ==
    \/ CheckPending \/ DataReceived \/ Relay \/ Acquire \/ Release \/ Error
    \/ ModemReads \/ StartStream \/ ChangeStream \/ StopStream \/ CallChanges

\* What the reply to a SPEECH_CONFIG_REQ writes.
LEMMA RepliedWrites ==
    ASSUME NEW r, NEW proto, NEW priv, NEW active, NEW size,
           Replied(r, proto, priv, active, size)
    PROVE  \/ r.sent = <<RESP>> \/ r.sent = <<RESP, NT>>
           \/ \E v \in {1, 2} : r.sent = <<RESP, SsiConfigReq(FALSE, v)>>
<1>1. CASE priv = "CONFIG_ACT_PEND" /\ proto = "CONNECTED"
    BY <1>1 DEF Replied, NT
<1>2. CASE priv = "CONFIG_ACT_PEND" /\ proto = "ACTIVE_DLUL"
    BY <1>2 DEF Replied
<1>3. CASE priv = "CONFIG_DEACT_PEND" /\ proto \in Active
    <2>1. IF active
          THEN Control(r, "CONNECTED", "IN_SYNC", TRUE, FALSE) /\ r.sent = <<RESP>>
          ELSE /\ Control(r, "CONNECTED", "DISCONNECTING", FALSE, FALSE)
               /\ \E v \in {1, 2} : r.sent = <<RESP, SsiConfigReq(FALSE, v)>>
        BY <1>3 DEF Replied
    <2> QED
        BY <2>1
<1>4. CASE \/ priv \notin ConfigPending
           \/ priv = "CONFIG_ACT_PEND" /\ proto \notin {"CONNECTED", "ACTIVE_DLUL"}
           \/ priv = "CONFIG_DEACT_PEND" /\ proto \notin Active
    BY <1>4, Zenon DEF Replied
<1> QED
    BY <1>1, <1>2, <1>3, <1>4 DEF ConfigPending

\* A call that does not acknowledge a reset of the modem
Silent(s) == \A k \in 1 .. Len(s.sent) : s.sent[k].type # "RESET_CONN_RESP"

\* The queues that acknowledge no reset of the modem.
LEMMA SilentWhen ==
    ASSUME NEW s
    PROVE  /\ s.sent = <<>> => Silent(s)
           /\ s.sent = <<RESP>> => Silent(s)
           /\ s.sent = <<RESP, NT>> => Silent(s)
           /\ \A on, v : s.sent = <<SsiConfigReq(on, v)>> => Silent(s)
           /\ \A v : s.sent = <<RESP, SsiConfigReq(FALSE, v)>> => Silent(s)
           /\ \A proto, priv, active, size :
                Replied(s, proto, priv, active, size) => Silent(s)
<1>1. Len(<<>>) = 0 /\ \A m : Len(<<m>>) = 1 /\ <<m>>[1] = m
    BY OneMessage
<1>2. \A a, b : Len(<<a, b>>) = 2 /\ <<a, b>>[1] = a /\ <<a, b>>[2] = b
    BY TwoMessages
<1>3. s.sent = <<>> => Silent(s)
    BY <1>1 DEF Silent
<1>4. s.sent = <<RESP>> => Silent(s)
    BY <1>1, MessageIs DEF Silent
<1>5. s.sent = <<RESP, NT>> => Silent(s)
    BY <1>2, MessageIs DEF Silent
<1>6. ASSUME NEW on, NEW v, s.sent = <<SsiConfigReq(on, v)>> PROVE Silent(s)
    BY <1>1, <1>6, MessageIs DEF Silent
<1>7. ASSUME NEW v, s.sent = <<RESP, SsiConfigReq(FALSE, v)>> PROVE Silent(s)
    <2> DEFINE c == SsiConfigReq(FALSE, v)
    <2>1. RESP.type # "RESET_CONN_RESP" /\ c.type # "RESET_CONN_RESP"
        BY MessageIs
    <2> HIDE DEF c
    <2>2. Len(s.sent) = 2 /\ s.sent[1] = RESP /\ s.sent[2] = c
        BY <1>2, <1>7 DEF c
    <2> QED
        BY <2>1, <2>2 DEF Silent
<1>8. ASSUME NEW proto, NEW priv, NEW active, NEW size,
             Replied(s, proto, priv, active, size)
      PROVE  Silent(s)
    BY <1>4, <1>5, <1>7, <1>8, RepliedWrites
<1> QED
    BY <1>3, <1>4, <1>5, <1>6, <1>7, <1>8

\* writes nothing the modem takes for an acknowledgement.
LEMMA SilentSteps ==
    ASSUME TypeOK, NEW s \in LibStates, Steps(s), Silent(s),
           \A k \in 1 .. Len(toModem) : toModem[k].type # "RESET_CONN_RESP"
    PROVE  \A k \in 1 .. Len(toModem') : toModem'[k].type # "RESET_CONN_RESP"
<1>1. toModem \in Seq(OutMsgs) /\ s.sent \in Seq(OutMsgs)
    BY Fields DEF TypeOK
<1>2. toModem' = toModem \o s.sent
    BY DEF Steps
<1>3. /\ Len(toModem \o s.sent) = Len(toModem) + Len(s.sent)
      /\ \A k \in 1 .. Len(toModem) : (toModem \o s.sent)[k] = toModem[k]
      /\ \A k \in 1 .. Len(s.sent) : (toModem \o s.sent)[Len(toModem) + k] = s.sent[k]
    BY <1>1, QueueSteps
<1>4. Len(toModem) \in Nat /\ Len(s.sent) \in Nat
    BY <1>1, LenProperties
<1> DEFINE q == toModem'
<1>5. /\ Len(q) = Len(toModem) + Len(s.sent)
      /\ \A k \in 1 .. Len(toModem) : q[k] = toModem[k]
      /\ \A k \in 1 .. Len(s.sent) : q[Len(toModem) + k] = s.sent[k]
    BY <1>2, <1>3
<1> HIDE DEF q
<1> SUFFICES ASSUME NEW k \in 1 .. Len(q) PROVE q[k].type # "RESET_CONN_RESP"
    BY DEF q
<1>6. CASE k \in 1 .. Len(toModem)
    BY <1>5, <1>6
<1>7. CASE k \notin 1 .. Len(toModem)
    <2>1. k - Len(toModem) \in 1 .. Len(s.sent)
        BY <1>4, <1>5, <1>7
    <2>2. q[k] = s.sent[k - Len(toModem)]
        <3>1. q[Len(toModem) + (k - Len(toModem))] = s.sent[k - Len(toModem)]
            BY <1>5, <2>1
        <3>2. Len(toModem) + (k - Len(toModem)) = k
            BY <1>4, <1>5
        <3> QED
            BY <3>1, <3>2
    <2> QED
        BY <2>1, <2>2 DEF Silent
<1> QED
    BY <1>6, <1>7

\* What the library reads before the reset: it may answer, but not the reset.
LEMMA HandledSilently ==
    ASSUME TypeOK, LinkAssumption, CheckPending, Owed(lib), Tidy,
           toLib[1].type # "RESET_CONN_REQ"
    PROVE  Silent(Handled(toLib[1])) /\ Owed(Handled(toLib[1]))
<1> DEFINE m == toLib[1]
           s == Handled(m)
<1>1. m \in ModemMsgs /\ lib \in LibStates /\ s \in LibStates
    BY Checked DEF TypeOK
<1>2. CASE m.type = "SPEECH_CONFIG_REQ"
    <2>1. m = SpeechConfig(m.stream) /\ m.stream \in Streams
        BY <1>1, <1>2 DEF ModemMsgs, SpeechConfig
    <2>2. PICK priv, size :
            IF Unlocked(lib)
            THEN Replied(s, lib.proto_state, priv, lib.call_server_active, size)
            ELSE Waits(s, lib, priv, size)
        BY <2>1, CheckedStream
    <2> HIDE DEF s
    <2>3. CASE Unlocked(lib)
        <3>1. Replied(s, lib.proto_state, priv, lib.call_server_active, size)
            BY <2>2, <2>3
        <3>2. Silent(s)
            BY <3>1, SilentWhen
        <3>3. Owed(s)
            BY <3>1 DEF Replied, Fresh, Owed
        <3> QED
            BY <3>2, <3>3 DEF s
    <2>4. CASE ~Unlocked(lib)
        <3>1. Waits(s, lib, priv, size)
            BY <2>2, <2>4
        <3>2. Silent(s)
            BY <3>1, SilentWhen DEF Waits
        <3>3. Owed(s)
            BY <2>4, <3>1 DEF Waits, Unlocked, Owed
        <3> QED
            BY <3>2, <3>3 DEF s
    <2> QED
        BY <2>3, <2>4
<1>3. CASE m.type \in {"UPLINK_CONFIG_NTF", "TIMING_CONFIG_NTF"}
    <2>1. s = HandleUplinkConfigNtf(lib) \/ s = HandleTimingConfigNtf(lib)
        BY <1>3, HandledIs
    <2> HIDE DEF s
    <2>2. s.sent = <<>> /\ SameSlots(s, lib)
        BY <1>1, <2>1, NotificationEffects
    <2>3. Silent(s) /\ Owed(s)
        BY <2>2, SilentWhen DEF SameSlots, Owed, Unlocked
    <2> QED
        BY <2>3 DEF s
<1>4. CASE m.type = "SSI_CONFIG_RESP"
    <2>1. lib.slot_size = 0
        BY <1>4, Checked DEF Tidy
    <2>2. /\ SameSlots(s, lib)
          /\ s.sent = <<>> \/ \E on \in BOOLEAN, v \in {1, 2} :
                                    s.sent = <<SsiConfigReq(on, v)>>
        BY <1>4, <2>1, CheckedSsiConfig
    <2> HIDE DEF s
    <2>3. Silent(s) /\ Owed(s)
        BY <2>2, SilentWhen DEF SameSlots, Owed, Unlocked
    <2> QED
        BY <2>3 DEF s
<1>5. CASE m.type = "RESET_CONN_RESP"
    <2>1. /\ SameSlots(s, lib)
          /\ s.sent = <<>> \/ \E v \in {1, 2} : s.sent = <<SsiConfigReq(TRUE, v)>>
        BY <1>5, CheckedReset
    <2> HIDE DEF s
    <2>2. Silent(s) /\ Owed(s)
        BY <2>1, SilentWhen DEF SameSlots, Owed, Unlocked
    <2> QED
        BY <2>2 DEF s
<1> QED
    BY <1>1, <1>2, <1>3, <1>4, <1>5 DEF ModemMsgs

\* The library reads on until it finds the reset.
LEMMA FromResetting ==
    ASSUME LinkAssumption, TypeOK, Patient, Resetting, Ordinary
    PROVE  /\ (Resetting \/ Down)'
           /\ \/ CheckPending /\ toLib[1].type # "RESET_CONN_REQ"
              \/ DataReceived \/ Relay \/ Acquire \/ Release \/ Error \/ ModemReads
              \/ StartStream \/ ChangeStream \/ StopStream \/ CallChanges
              => Resetting'
<1>1. /\ toLib \in Seq(ModemMsgs) /\ Len(toLib) \in Nat /\ Len(toModem) \in Nat
      /\ lib \in LibStates /\ lib.proto_state \in Protos /\ call = FALSE
    BY LenProperties, Fields DEF TypeOK, Resetting
<1>2. modem.resetting /\ modem.ssi = FALSE /\ modem.stream = "off"
    BY DEF Resetting, Reborn
<1>3. ~Settled
    BY <1>2 DEF Settled, Quiet
<1>4. ASSUME NEW s \in LibStates, Steps(s), Silent(s), Owed(s),
             s.slot_size = lib.slot_size, UNCHANGED <<modem, toLib, call>>
      PROVE  Resetting'
    <2>1. \A k \in 1 .. Len(toModem') : toModem'[k].type # "RESET_CONN_RESP"
        BY <1>4, SilentSteps DEF Resetting
    <2>2. Owed(lib') /\ lib'.slot_size = lib.slot_size
        BY <1>4, Returned DEF Owed, Unlocked
    <2>3. Tidy'
        BY <1>4, <2>2 DEF Tidy, Resetting
    <2> QED
        BY <1>4, <2>1, <2>2, <2>3 DEF Resetting, Owed, Unlocked, Reborn
<1>5. ASSUME CheckPending
      PROVE  IF toLib[1].type = "RESET_CONN_REQ" THEN Down' ELSE Resetting'
    <2> DEFINE s == Handled(toLib[1])
    <2>1. /\ Len(toLib) \in Nat \ {0}
          /\ s \in LibStates /\ Steps(s) /\ Len(toLib') = Len(toLib) - 1
          /\ \A k \in 1 .. Len(toLib') : toLib'[k] = toLib[k + 1]
          /\ UNCHANGED <<status, modem, call>> /\ toLib' \in Seq(ModemMsgs)
        BY <1>5, Checked
    <2>2. CASE toLib[1].type = "RESET_CONN_REQ"
        <3> DEFINE a == OutMsg("RESET_CONN_RESP")
        <3>1. /\ s.sent = <<a>> /\ Fresh(s, 0)
              /\ Control(s, "DISCONNECTED", "IN_SYNC", FALSE, FALSE)
            BY <1>5, <2>2, CheckedReset
        <3>2. a \in OutMsgs /\ a.type = "RESET_CONN_RESP"
            BY Messages, MessageIs DEF OutTypes
        <3> HIDE DEF s, a
        <3>3. In(lib', "DISCONNECTED", "IN_SYNC") /\ Fresh(lib', 0)
            BY <2>1, <3>1, Returned DEF Control, Fresh, In
        <3>4. /\ Len(toModem') = Len(toModem) + 1
              /\ \A k \in 1 .. Len(toModem) : toModem'[k] = toModem[k]
              /\ toModem'[Len(toModem) + 1] = a
            BY <2>1, <3>1, <3>2, OneWritten, ZenonT(30)
        <3>5. ASSUME NEW k \in 1 .. Len(toLib') PROVE toLib'[k].type = "RESET_CONN_REQ"
            BY <2>1, <2>2 DEF Resetting, Tidy
        <3>6. ASSUME NEW k \in 1 .. Len(toModem')
              PROVE  \/ Harmless(toModem'[k])
                     \/ /\ modem'.resetting
                        /\ \A j \in 1 .. k : toModem'[j].type # "RESET_CONN_RESP"
            BY <1>1, <1>2, <2>1, <3>2, <3>4 DEF Harmless, Resetting
        <3>7. Reborn' /\ ~call'
            BY <1>1, <2>1 DEF Resetting, Reborn
        <3> QED
            BY <2>2, <3>3, <3>5, <3>6, <3>7 DEF Down, In, Fresh, Harmless
    <2>3. CASE toLib[1].type # "RESET_CONN_REQ"
        <3>1. Silent(s) /\ Owed(s)
            BY <1>5, <2>3, HandledSilently DEF Resetting
        <3> HIDE DEF s
        <3>2. \A k \in 1 .. Len(toModem') : toModem'[k].type # "RESET_CONN_RESP"
            BY <2>1, <3>1, SilentSteps DEF Resetting
        <3>3. Owed(lib')
            BY <2>1, <3>1, Returned DEF Owed, Unlocked
        <3>4. Len(toLib) > 1
            BY <1>1, <2>1, <2>3 DEF Resetting
        <3>5. toLib' # <<>> /\ toLib'[Len(toLib')].type = "RESET_CONN_REQ"
            BY <1>1, <2>1, <3>4 DEF Resetting
        <3>6. Tidy'
            <4>1. Tidy
                BY DEF Resetting
            <4>2. ASSUME NEW k \in 1 .. Len(toLib') PROVE toLib'[k].type # "SSI_CONFIG_RESP"
                BY <1>1, <2>1, <4>1 DEF Tidy
            <4>3. ASSUME NEW j \in 1 .. Len(toLib'), NEW k \in 1 .. Len(toLib'),
                         j < k, toLib'[j].type = "RESET_CONN_REQ"
                  PROVE  toLib'[k].type = "RESET_CONN_REQ"
                <5>1. /\ j + 1 \in 1 .. Len(toLib) /\ k + 1 \in 1 .. Len(toLib)
                      /\ j + 1 < k + 1
                    BY <1>1, <2>1, <4>3
                <5>2. toLib'[j] = toLib[j + 1] /\ toLib'[k] = toLib[k + 1]
                    BY <2>1
                <5> QED
                    BY <4>1, <4>3, <5>1, <5>2 DEF Tidy
            <4> QED
                BY <4>2, <4>3 DEF Tidy
        <3> QED
            BY <1>1, <2>1, <2>3, <3>2, <3>3, <3>5, <3>6
               DEF Resetting, Owed, Unlocked, Reborn
    <2> QED
        BY <2>2, <2>3
<1>6. CASE DataReceived
    BY <1>2, <1>6, DataArrives
<1>7. CASE Relay
    <2> DEFINE s == cmtspeech_state_change_call_status(lib, FALSE, {})
    <2>1. s \in LibStates /\ Steps(s) /\ UNCHANGED <<modem, toLib, call>>
        BY <1>1, <1>7, Relayed
    <2>2. /\ SameSlots(s, lib)
          /\ s.sent = <<>> \/ \E v \in {1, 2} : s.sent = <<SsiConfigReq(FALSE, v)>>
        BY <1>1, StatusEffects
    <2> HIDE DEF s
    <2>3. Silent(s)
        BY <2>2, SilentWhen
    <2>4. Owed(s) /\ s.slot_size = lib.slot_size
        BY <2>2 DEF SameSlots, Owed, Unlocked, Resetting
    <2> QED
        BY <1>4, <2>1, <2>3, <2>4
<1>8. CASE Acquire
    <2>1. /\ Owed(lib') /\ toModem' = toModem /\ lib'.slot_size = lib.slot_size
          /\ UNCHANGED <<modem, toLib, call>>
        BY <1>8, Acquired DEF Resetting
    <2>2. Tidy'
        BY <2>1 DEF Tidy, Resetting
    <2> QED
        BY <2>1, <2>2 DEF Resetting, Owed, Unlocked, Reborn
<1>9. CASE Release
    <2>1. UNCHANGED <<modem, toLib, call>>
        BY <1>9, GivenBack DEF Resetting
    <2>2. PICK s \in LibStates : Steps(s) /\ Released(s, lib)
        BY <1>9, GivenBack DEF Resetting
    <2>3. CASE /\ Relocked(s, lib)
               /\ lib.speech_config_resp_pend => ~Unlocked(s)
        <3>1. Silent(s)
            BY <2>3, SilentWhen DEF Relocked
        <3>2. Owed(s) /\ s.slot_size = lib.slot_size
            BY <2>3 DEF Relocked, Owed
        <3> QED
            BY <1>4, <2>1, <2>2, <3>1, <3>2
    <2>4. CASE Replied(s, lib.proto_state, lib.priv_state, lib.call_server_active,
                       lib.slot_size)
        <3>1. Silent(s)
            BY <2>4, SilentWhen
        <3>2. Owed(s) /\ s.slot_size = lib.slot_size
            BY <2>4 DEF Replied, Fresh, Owed
        <3> QED
            BY <1>4, <2>1, <2>2, <3>1, <3>2
    <2> QED
        BY <2>2, <2>3, <2>4 DEF Released
<1>10. CASE ModemReads
    <2>1. /\ Len(toModem) \in Nat \ {0} /\ Len(toModem') = Len(toModem) - 1
          /\ \A k \in 1 .. Len(toModem') : toModem'[k] = toModem[k + 1]
          /\ UNCHANGED <<lib, call>>
          /\ IF modem.resetting /\ toModem[1].type # "RESET_CONN_RESP"
             THEN UNCHANGED <<modem, toLib>>
             ELSE Answer(toModem[1]) \/ Reply(toModem[1])
        BY <1>10, Read
    <2>2. toModem[1].type # "RESET_CONN_RESP"
        BY <2>1 DEF Resetting
    <2>3. UNCHANGED <<modem, toLib>>
        BY <1>2, <2>1, <2>2
    <2>4. \A k \in 1 .. Len(toModem') : toModem'[k].type # "RESET_CONN_RESP"
        BY <2>1 DEF Resetting
    <2>5. Tidy'
        BY <2>1, <2>3 DEF Tidy, Resetting
    <2> QED
        BY <2>1, <2>3, <2>4, <2>5 DEF Resetting, Owed, Unlocked, Reborn
<1>11. CASE StartStream \/ ChangeStream \/ StopStream
    BY <1>2, <1>11, Asked
<1>12. CASE Error
    BY <1>3, <1>12, Failing
<1>13. CASE CallChanges
    BY <1>3, <1>13 DEF CallChanges
<1> QED
    BY <1>5, <1>6, <1>7, <1>8, <1>9, <1>10, <1>11, <1>12, <1>13 DEF Ordinary

\* Without buffers there is no data,
LEMMA NoData ==
    ASSUME TypeOK, Fresh(lib, 0), lib.proto_state \notin Active
    PROVE  ~DataReceived /\ ~Acquire
<1>1. ~DataReceived
    BY DataArrives DEF Fresh
<1>2. ~Acquire
    BY Acquired DEF Fresh
<1> QED
    BY <1>1, <1>2

\* and what the application gives back late changes nothing.
LEMMA GivenBackLate ==
    ASSUME TypeOK, Fresh(lib, 0), Release
    PROVE  /\ Fresh(lib', 0) /\ SameControl(lib', lib)
           /\ UNCHANGED <<status, modem, toModem, toLib, call, used>>
<1>1. ~lib.speech_config_resp_pend
    BY DEF Fresh
<1>2. /\ Relocked(lib', lib) /\ Fresh(lib', 0)
      /\ UNCHANGED <<status, modem, toModem, toLib, call, used>>
    BY <1>1, GivenBackQuietly
<1>3. SameControl(lib', lib)
    BY <1>2 DEF Relocked
<1> QED
    BY <1>2, <1>3

\* Late acknowledgements and resets are dealt with until a call starts.
LEMMA FromDown ==
    ASSUME LinkAssumption, TypeOK, Patient, Down, Ordinary
    PROVE  (Down \/ Calling \/ Failed)'
<1>1. /\ toLib \in Seq(ModemMsgs) /\ Len(toLib) \in Nat /\ Len(toModem) \in Nat
      /\ lib \in LibStates /\ call = FALSE
      /\ Fresh(lib, 0) /\ In(lib, "DISCONNECTED", "IN_SYNC")
    <2>1. /\ toLib \in Seq(ModemMsgs) /\ toModem \in Seq(OutMsgs)
          /\ lib \in LibStates /\ call \in BOOLEAN
        BY DEF TypeOK
    <2>2. ~call /\ Fresh(lib, 0) /\ In(lib, "DISCONNECTED", "IN_SYNC")
        BY DEF Down
    <2> QED
        BY <2>1, <2>2, LenProperties
<1>2. ~modem.ssi /\ modem.stream = "off" /\ modem.asked = "none"
    BY DEF Down, Reborn, Idling, ModemIs
<1>3. (~modem.resetting => Idling) /\ (modem.resetting => Reborn)
    BY DEF Down, Reborn, Idling, ModemIs
<1>4. CASE CheckPending
    <2> DEFINE s == Handled(toLib[1])
               a == OutMsg("RESET_CONN_RESP")
    <2>1. /\ Len(toLib) \in Nat \ {0}
          /\ s \in LibStates /\ Steps(s) /\ Len(toLib') = Len(toLib) - 1
          /\ \A k \in 1 .. Len(toLib') : toLib'[k] = toLib[k + 1]
          /\ UNCHANGED <<modem, call>>
        BY <1>4, Checked
    <2>2. /\ s.sent = <<a>> /\ Fresh(s, 0)
          /\ Control(s, "DISCONNECTED", "IN_SYNC", FALSE, FALSE)
        <3>1. toLib[1].type = "RESET_CONN_REQ"
            BY <2>1 DEF Down
        <3> QED
            BY <1>4, <3>1, CheckedReset
    <2>3. a \in OutMsgs /\ Harmless(a)
        BY Messages, MessageIs DEF OutTypes, Harmless
    <2> HIDE DEF s, a
    <2>4. In(lib', "DISCONNECTED", "IN_SYNC") /\ Fresh(lib', 0)
        BY <2>1, <2>2, Returned DEF Control, Fresh, In
    <2>5. /\ Len(toModem') = Len(toModem) + 1
          /\ \A k \in 1 .. Len(toModem) : toModem'[k] = toModem[k]
          /\ toModem'[Len(toModem) + 1] = a
        BY <2>1, <2>2, <2>3, OneWritten, ZenonT(30)
    <2>6. ASSUME NEW k \in 1 .. Len(toLib') PROVE toLib'[k].type = "RESET_CONN_REQ"
        BY <1>1, <2>1 DEF Down
    <2>7. ASSUME NEW k \in 1 .. Len(toModem')
          PROVE  \/ Harmless(toModem'[k])
                 \/ /\ modem'.resetting
                    /\ \A j \in 1 .. k : toModem'[j].type # "RESET_CONN_RESP"
        BY <1>1, <2>1, <2>3, <2>5 DEF Down
    <2> QED
        BY <1>1, <1>2, <2>1, <2>4, <2>6, <2>7 DEF Down, In, Fresh, Harmless, Idling, Reborn, ModemIs
<1>5. CASE Relay
    <2> DEFINE s == cmtspeech_state_change_call_status(lib, FALSE, {})
    <2>1. s \in LibStates /\ Steps(s) /\ UNCHANGED <<modem, toLib, call>>
        BY <1>1, <1>5, Relayed
    <2>2. /\ SameSlots(s, lib) /\ s.sent = <<>>
          /\ Control(s, "DISCONNECTED", "IN_SYNC", FALSE, lib.io_errors)
        BY <1>1, StatusEffects DEF In
    <2> HIDE DEF s
    <2>3. In(lib', "DISCONNECTED", "IN_SYNC") /\ Fresh(lib', 0)
        BY <1>1, <2>1, <2>2, Returned DEF Control, SameSlots, Fresh, In
    <2>4. toModem' = toModem
        BY <2>1, <2>2, Unwritten
    <2> QED
        BY <2>1, <2>3, <2>4 DEF Down, In, Fresh, Harmless, Idling, Reborn, ModemIs
<1>6. CASE Release
    <2>1. /\ Fresh(lib', 0) /\ SameControl(lib', lib)
          /\ UNCHANGED <<modem, toModem, toLib, call>>
        BY <1>1, <1>6, GivenBackLate
    <2>2. In(lib', "DISCONNECTED", "IN_SYNC")
        BY <1>1, <2>1 DEF SameControl, Control, In
    <2> QED
        BY <2>1, <2>2 DEF Down, In, Fresh, Harmless, Idling, Reborn, ModemIs
<1>7. CASE ModemReads
    <2>1. /\ Len(toModem) \in Nat \ {0} /\ Len(toModem') = Len(toModem) - 1
          /\ \A k \in 1 .. Len(toModem') : toModem'[k] = toModem[k + 1]
          /\ UNCHANGED <<lib, call>>
          /\ IF modem.resetting /\ toModem[1].type # "RESET_CONN_RESP"
             THEN UNCHANGED <<modem, toLib>>
             ELSE Answer(toModem[1]) \/ Reply(toModem[1])
        BY <1>7, Read
    <2>2. CASE modem.resetting /\ toModem[1].type # "RESET_CONN_RESP"
        <3>1. UNCHANGED <<modem, toLib>>
            BY <2>1, <2>2
        <3>2. ASSUME NEW k \in 1 .. Len(toModem')
              PROVE  \/ Harmless(toModem'[k])
                     \/ /\ modem'.resetting
                        /\ \A j \in 1 .. k : toModem'[j].type # "RESET_CONN_RESP"
            <4>1. k + 1 \in 1 .. Len(toModem) /\ toModem'[k] = toModem[k + 1]
                BY <2>1
            <4>2. \/ Harmless(toModem[k + 1])
                  \/ /\ modem.resetting
                     /\ \A j \in 1 .. k + 1 : toModem[j].type # "RESET_CONN_RESP"
                BY <4>1 DEF Down
            <4>3. ASSUME \A j \in 1 .. k + 1 : toModem[j].type # "RESET_CONN_RESP",
                         NEW j \in 1 .. k
                  PROVE  toModem'[j].type # "RESET_CONN_RESP"
                BY <2>1, <4>3
            <4> QED
                BY <3>1, <4>1, <4>2, <4>3
        <3> QED
            BY <2>1, <3>1, <3>2 DEF Down, In, Fresh, Harmless, Idling, Reborn, ModemIs
    <2>3. CASE ~(modem.resetting /\ toModem[1].type # "RESET_CONN_RESP")
        <3>1. toModem[1].type \in {"RESET_CONN_RESP", "SPEECH_CONFIG_RESP"}
            BY <2>1, <2>3 DEF Down, Harmless
        <3>2. Idling' /\ toLib' = toLib
            <4>1. CASE toModem[1].type = "RESET_CONN_RESP"
                <5>1. /\ modem'.ssi = modem.ssi /\ modem'.stream = modem.stream
                      /\ modem'.asked = modem.asked /\ ~modem'.resetting
                      /\ toLib' = toLib
                    BY <1>7, <4>1, ReadAnswers
                <5> QED
                    BY <1>2, <5>1 DEF Idling, ModemIs
            <4>2. CASE toModem[1].type = "SPEECH_CONFIG_RESP"
                <5>1. ~modem.resetting
                    BY <2>3, <4>2
                <5>2. /\ modem'.ssi = modem.ssi /\ modem'.asked = "none"
                      /\ modem'.stream = "off" /\ ~modem'.resetting
                      /\ toLib' = toLib \o IF "off" \in {modem.stream, modem'.stream}
                                           THEN <<>> ELSE <<UP, TM>>
                    BY <1>2, <1>7, <4>2, <5>1, ReadAnswers
                <5>3. toLib \o <<>> = toLib
                    BY <1>1, QueueSteps
                <5> QED
                    BY <1>2, <5>2, <5>3 DEF Idling, ModemIs
            <4> QED
                BY <3>1, <4>1, <4>2
        <3>3. ASSUME NEW k \in 1 .. Len(toModem') PROVE Harmless(toModem'[k])
            <4>1. k + 1 \in 1 .. Len(toModem) /\ toModem'[k] = toModem[k + 1]
                BY <2>1
            <4>2. \/ Harmless(toModem[k + 1])
                  \/ /\ modem.resetting
                     /\ \A j \in 1 .. k + 1 : toModem[j].type # "RESET_CONN_RESP"
                BY <4>1 DEF Down
            <4>3. 1 \in 1 .. k + 1
                BY <2>1
            <4> QED
                BY <2>3, <4>1, <4>2, <4>3
        <3> QED
            BY <2>1, <3>2, <3>3 DEF Down, In, Fresh, Harmless, Idling, Reborn, ModemIs
    <2> QED
        BY <2>2, <2>3
<1>8. CASE StartStream \/ ChangeStream \/ StopStream
    BY <1>2, <1>8, Asked
<1>9. CASE Error
    <2>1. /\ call' = FALSE /\ UNCHANGED <<modem, toLib>> /\ Settled
          /\ Control(lib', "INVALID", "IN_SYNC", lib.call_server_active, FALSE)
          /\ Fresh(lib', 0) /\ toModem' = <<OutMsg("RESET_CONN_REQ")>>
        BY <1>9, Failing
    <2>2. Len(toModem') = 1 /\ toModem'[1].type = "RESET_CONN_REQ" /\ toModem' # <<>>
        BY <2>1, OneMessage, MessageIs
    <2>3. toLib' = <<>> /\ ~modem'.resetting
        BY <2>1 DEF Settled, Quiet
    <2> QED
        BY <2>1, <2>2, <2>3 DEF Failed, Control, Fresh
<1>10. CASE CallChanges
    <2>1. /\ Settled /\ call' = TRUE /\ UNCHANGED <<lib, status, modem, toModem, toLib>>
        BY <1>1, <1>10 DEF CallChanges, application
    <2>2. toModem' = <<>> /\ toLib' = <<>> /\ status' = FALSE /\ Idling'
        BY <1>1, <1>2, <1>3, <2>1 DEF Settled, Quiet, Idling, ModemIs
    <2> QED
        BY <1>1, <2>1, <2>2 DEF Calling, Queues, In, Fresh
<1>11. ~DataReceived /\ ~Acquire
    BY <1>1, NoData DEF In, Active
<1> QED
    BY <1>4, <1>5, <1>6, <1>7, <1>8, <1>9, <1>10, <1>11 DEF Ordinary

\* One message more on the way to the library.
LEMMA OneSent ==
    ASSUME TypeOK, NEW a \in ModemMsgs, toLib' = toLib \o <<a>>
    PROVE  /\ Len(toLib) \in Nat /\ Len(toLib') = Len(toLib) + 1
           /\ \A k \in 1 .. Len(toLib) : toLib'[k] = toLib[k]
           /\ toLib'[Len(toLib) + 1] = a
           /\ toLib = <<>> => toLib' = <<a>>
<1>1. toLib \in Seq(ModemMsgs)
    BY DEF TypeOK
<1>2. <<a>> \in Seq(ModemMsgs) /\ Len(<<a>>) = 1 /\ <<a>>[1] = a /\ <<>> \o <<a>> = <<a>>
    BY OneMessage
<1>3. /\ Len(toLib \o <<a>>) = Len(toLib) + Len(<<a>>)
      /\ \A k \in 1 .. Len(toLib) : (toLib \o <<a>>)[k] = toLib[k]
      /\ \A k \in 1 .. Len(<<a>>) : (toLib \o <<a>>)[Len(toLib) + k] = <<a>>[k]
    BY <1>1, <1>2, QueueSteps
<1>4. Len(toLib) \in Nat
    BY <1>1, LenProperties
<1>5. toLib'[Len(toLib) + 1] = a
    BY <1>2, <1>3
<1>6. toLib = <<>> => toLib' = <<a>>
    BY <1>2
<1> HIDE DEF ModemMsgs
<1> QED
    BY <1>2, <1>3, <1>4, <1>5, <1>6

\* The library is back when the modem has answered its reset.
LEMMA FromFailed ==
    ASSUME LinkAssumption, TypeOK, Patient, Failed, Ordinary
    PROVE  (Failed \/ Down)'
<1> DEFINE Lost == /\ ~call /\ ~modem.resetting
                   /\ lib.proto_state = "INVALID"
                   /\ lib.priv_state \in {"IN_SYNC", "CONFIG_DEACT_PEND"}
                   /\ Fresh(lib, 0)
           Unread == /\ toModem # <<>> /\ toModem[1].type = "RESET_CONN_REQ"
                     /\ \A k \in 2 .. Len(toModem) : toModem[k] = RESP
                     /\ \A k \in 1 .. Len(toLib) : toLib[k] = Off
           Answered == /\ Idling
                       /\ \A k \in 1 .. Len(toModem) : toModem[k] = RESP
                       /\ toLib # <<>> /\ toLib[Len(toLib)].type = "RESET_CONN_RESP"
                       /\ \A k \in 1 .. Len(toLib) - 1 : toLib[k] = Off
<1>1. /\ toLib \in Seq(ModemMsgs) /\ Len(toLib) \in Nat /\ Len(toModem) \in Nat
      /\ lib \in LibStates /\ call = FALSE
    BY LenProperties DEF TypeOK, Failed
<1>2. /\ Lost /\ (Unread \/ Answered)
    BY DEF Failed
<1>3. Lost' /\ (Unread \/ Answered)' => Failed'
    BY DEF Failed
<1>4. ~Settled
    BY <1>2 DEF Settled, Quiet
<1>5. Off.type = "SPEECH_CONFIG_REQ" /\ RESP.type = "SPEECH_CONFIG_RESP"
    BY MessageIs
<1> HIDE DEF Lost, Unread, Answered
<1>6. CASE CheckPending
    <2> DEFINE s == Handled(toLib[1])
    <2>1. /\ Len(toLib) \in Nat \ {0}
          /\ s \in LibStates /\ Steps(s) /\ Len(toLib') = Len(toLib) - 1
          /\ \A k \in 1 .. Len(toLib') : toLib'[k] = toLib[k + 1]
          /\ UNCHANGED <<modem, call>>
        BY <1>6, Checked
    <2>2. CASE toLib[1] = Off
        <3>1. "off" \in Streams /\ toLib[1] = SpeechConfig("off")
            BY <2>2 DEF Streams, Off
        <3>2. Replied(s, "INVALID", "CONFIG_DEACT_PEND", lib.call_server_active, 0)
            BY <1>2, <1>6, <3>1, CheckedStream DEF Lost, Fresh, Unlocked
        <3>3. RESP \in OutMsgs
            BY MessageTyped
        <3> HIDE DEF s
        <3>4. /\ s.sent = <<RESP>> /\ Fresh(s, 0)
              /\ s.proto_state = "INVALID" /\ s.priv_state = "CONFIG_DEACT_PEND"
            BY <3>2 DEF Replied, Control, Active
        <3>5. Lost'
            BY <1>2, <2>1, <3>4, Returned DEF Lost, Fresh
        <3>6. /\ Len(toModem') = Len(toModem) + 1
              /\ \A k \in 1 .. Len(toModem) : toModem'[k] = toModem[k]
              /\ toModem'[Len(toModem) + 1] = RESP
            BY <2>1, <3>3, <3>4, OneWritten, ZenonT(30)
        <3>7. CASE Unread
            <4>1. toModem' # <<>> /\ toModem'[1].type = "RESET_CONN_REQ"
                BY <1>1, <3>6, <3>7 DEF Unread
            <4>2. ASSUME NEW k \in 2 .. Len(toModem') PROVE toModem'[k] = RESP
                BY <1>1, <3>6, <3>7 DEF Unread
            <4>3. ASSUME NEW k \in 1 .. Len(toLib') PROVE toLib'[k] = Off
                BY <1>1, <2>1, <3>7 DEF Unread
            <4> QED
                BY <1>3, <3>5, <4>1, <4>2, <4>3 DEF Unread
        <3>8. CASE Answered
            <4>1. Len(toLib) > 1
                BY <1>5, <2>1, <2>2, <3>8 DEF Answered
            <4>2. toLib' # <<>> /\ toLib'[Len(toLib')].type = "RESET_CONN_RESP"
                BY <2>1, <3>8, <4>1 DEF Answered
            <4>3. ASSUME NEW k \in 1 .. Len(toLib') - 1 PROVE toLib'[k] = Off
                BY <2>1, <3>8, <4>1 DEF Answered
            <4>4. ASSUME NEW k \in 1 .. Len(toModem') PROVE toModem'[k] = RESP
                BY <1>1, <3>6, <3>8 DEF Answered
            <4> QED
                BY <1>3, <2>1, <3>5, <3>8, <4>2, <4>3, <4>4
                   DEF Answered, Idling, ModemIs
        <3> QED
            BY <1>2, <3>7, <3>8
    <2>3. CASE toLib[1] # Off
        <3>1. Answered /\ Len(toLib) = 1 /\ toLib[1].type = "RESET_CONN_RESP"
            <4>1. 1 \in 1 .. Len(toLib)
                BY <2>1
            <4>2. Answered
                BY <1>2, <2>3, <4>1 DEF Unread
            <4> QED
                BY <2>1, <2>3, <4>2 DEF Answered
        <3>2. /\ SameSlots(s, lib) /\ s.sent = <<>>
              /\ Control(s, "DISCONNECTED", "IN_SYNC", FALSE, FALSE)
            BY <1>2, <1>6, <3>1, CheckedReset DEF Lost
        <3> HIDE DEF s
        <3>3. In(lib', "DISCONNECTED", "IN_SYNC") /\ Fresh(lib', 0)
            BY <1>2, <2>1, <3>2, Returned DEF Control, SameSlots, Fresh, In, Lost
        <3>4. toModem' = toModem
            BY <2>1, <3>2, Unwritten
        <3>5. \A k \in 1 .. Len(toModem') : Harmless(toModem'[k])
            BY <1>5, <3>1, <3>4 DEF Answered, Harmless
        <3>6. \A k \in 1 .. Len(toLib') : toLib'[k].type = "RESET_CONN_REQ"
            BY <2>1, <3>1
        <3>7. ~call' /\ Idling'
            BY <1>1, <2>1, <3>1 DEF Answered, Idling, ModemIs
        <3> QED
            BY <3>3, <3>5, <3>6, <3>7 DEF Down, In, Fresh, Harmless
    <2> QED
        BY <2>2, <2>3
<1>7. CASE Relay
    <2> DEFINE s == cmtspeech_state_change_call_status(lib, FALSE, {})
    <2>1. s \in LibStates /\ Steps(s) /\ UNCHANGED <<modem, toLib, call>>
        BY <1>1, <1>7, Relayed
    <2>2. /\ SameSlots(s, lib) /\ s.sent = <<>>
          /\ s.proto_state = "INVALID" /\ s.priv_state \in {"IN_SYNC", "CONFIG_DEACT_PEND"}
        BY <1>1, <1>2, StatusEffects, ZenonT(30) DEF Lost, Control
    <2> HIDE DEF s
    <2>3. Lost'
        BY <1>2, <2>1, <2>2, Returned DEF SameSlots, Fresh, Lost
    <2>4. toModem' = toModem
        BY <2>1, <2>2, Unwritten
    <2> QED
        BY <1>2, <1>3, <2>1, <2>3, <2>4 DEF Unread, Answered, Idling, ModemIs
<1>8. CASE Release
    <2>1. /\ Fresh(lib', 0) /\ SameControl(lib', lib)
          /\ UNCHANGED <<modem, toModem, toLib, call>>
        BY <1>2, <1>8, GivenBackLate DEF Lost
    <2>2. Lost'
        BY <1>2, <2>1 DEF Lost, SameControl, Control, Fresh
    <2> QED
        BY <1>2, <1>3, <2>1, <2>2 DEF Unread, Answered, Idling, ModemIs
<1>9. CASE ModemReads
    <2>1. /\ Len(toModem) \in Nat \ {0} /\ Len(toModem') = Len(toModem) - 1
          /\ \A k \in 1 .. Len(toModem') : toModem'[k] = toModem[k + 1]
          /\ UNCHANGED <<lib, call>>
        BY <1>9, Read
    <2>2. ~modem.resetting
        BY <1>2 DEF Lost
    <2>3. CASE Unread
        <3> DEFINE a == ModemMsg("RESET_CONN_RESP")
        <3>1. toModem[1].type = "RESET_CONN_REQ"
            BY <2>3 DEF Unread
        <3>2. Idling' /\ toLib' = toLib \o <<a>>
            BY <1>9, <2>2, <3>1, ReadAnswers
        <3>3. a \in ModemMsgs /\ a.type = "RESET_CONN_RESP"
            BY ModemMessages, MessageIs
        <3> HIDE DEF a
        <3>4. /\ Len(toLib') = Len(toLib) + 1 /\ toLib'[Len(toLib) + 1] = a
              /\ \A k \in 1 .. Len(toLib) : toLib'[k] = toLib[k]
            BY <3>2, <3>3, OneSent
        <3>5. toLib' # <<>> /\ toLib'[Len(toLib')].type = "RESET_CONN_RESP"
            BY <1>1, <3>3, <3>4
        <3>6. ASSUME NEW k \in 1 .. Len(toLib') - 1 PROVE toLib'[k] = Off
            BY <1>1, <2>3, <3>4 DEF Unread
        <3>7. ASSUME NEW k \in 1 .. Len(toModem') PROVE toModem'[k] = RESP
            BY <2>1, <2>3 DEF Unread
        <3>8. Lost'
            BY <1>2, <2>1, <3>2 DEF Lost, Fresh, Idling, ModemIs
        <3> QED
            BY <1>3, <3>2, <3>5, <3>6, <3>7, <3>8 DEF Answered, Idling, ModemIs
    <2>4. CASE Answered
        <3>1. toModem[1].type = "SPEECH_CONFIG_RESP" /\ modem.asked = "none"
              /\ ~modem.ssi /\ modem.stream = "off"
            BY <1>5, <2>1, <2>4 DEF Answered, Idling, ModemIs
        <3>2. /\ modem'.ssi = modem.ssi /\ modem'.asked = "none"
              /\ modem'.stream = "off" /\ ~modem'.resetting
              /\ toLib' = toLib \o IF "off" \in {modem.stream, modem'.stream}
                                   THEN <<>> ELSE <<UP, TM>>
            BY <1>9, <2>2, <3>1, ReadAnswers
        <3>3. toLib \o <<>> = toLib
            BY <1>1, QueueSteps
        <3>4. Idling' /\ toLib' = toLib
            BY <3>1, <3>2, <3>3 DEF Idling, ModemIs
        <3>5. ASSUME NEW k \in 1 .. Len(toModem') PROVE toModem'[k] = RESP
            BY <2>1, <2>4 DEF Answered
        <3>6. Lost'
            BY <1>2, <2>1, <3>4 DEF Lost, Fresh, Idling, ModemIs
        <3> QED
            BY <1>3, <2>4, <3>4, <3>5, <3>6 DEF Answered, Idling, ModemIs
    <2> QED
        BY <1>2, <2>3, <2>4
<1>10. CASE StartStream \/ ChangeStream \/ StopStream
    <2>1. modem.ssi /\ StopStream
        BY <1>1, <1>10, Asked
    <2>2. Unread
        BY <1>2, <2>1 DEF Answered, Idling, ModemIs
    <2>3. /\ ~modem'.resetting /\ toLib' = toLib \o <<Off>>
          /\ UNCHANGED <<lib, toModem, call>>
        BY <2>1, Asked DEF Off, ModemIs
    <2>4. Off \in ModemMsgs
        BY MessageTyped
    <2>5. /\ Len(toLib') = Len(toLib) + 1 /\ toLib'[Len(toLib) + 1] = Off
          /\ \A k \in 1 .. Len(toLib) : toLib'[k] = toLib[k]
        BY <2>3, <2>4, OneSent
    <2>6. \A k \in 1 .. Len(toLib') : toLib'[k] = Off
        BY <1>1, <2>2, <2>5 DEF Unread
    <2>7. Lost'
        BY <1>2, <2>3 DEF Lost, Fresh
    <2> QED
        BY <1>3, <2>2, <2>3, <2>6, <2>7 DEF Unread
<1>11. CASE DataReceived \/ Acquire
    BY <1>2, <1>11, NoData DEF Lost, Active
<1>12. CASE Error
    BY <1>4, <1>12, Failing
<1>13. CASE CallChanges
    BY <1>4, <1>13 DEF CallChanges
<1> QED
    BY <1>6, <1>7, <1>8, <1>9, <1>10, <1>11, <1>12, <1>13 DEF Ordinary

\* A reset of the link by the application
LEMMA ErrorFails ==
    ASSUME TypeOK, Patient, Error
    PROVE  Failed'
<1>1. /\ call' = FALSE /\ UNCHANGED <<modem, toLib>> /\ Settled
      /\ Control(lib', "INVALID", "IN_SYNC", lib.call_server_active, FALSE)
      /\ Fresh(lib', 0) /\ toModem' = <<OutMsg("RESET_CONN_REQ")>>
    BY Failing
<1>2. Len(toModem') = 1 /\ toModem'[1].type = "RESET_CONN_REQ" /\ toModem' # <<>>
    BY <1>1, OneMessage, MessageIs
<1>3. toLib' = <<>> /\ ~modem'.resetting
    BY <1>1 DEF Settled, Quiet
<1> QED
    BY <1>1, <1>2, <1>3 DEF Failed, Control, Fresh

\* A call waits for the application to notice.
LEMMA FromCalling ==
    ASSUME LinkAssumption, TypeOK, Patient, Calling, Ordinary
    PROVE  (Calling \/ Connecting)'
<1>1. /\ lib \in LibStates /\ call = TRUE /\ status = FALSE /\ Idling /\ Fresh(lib, 0)
      /\ In(lib, "DISCONNECTED", "IN_SYNC") /\ toModem = <<>> /\ toLib = <<>>
    BY DEF TypeOK, Calling, Queues
<1>2. ~Settled /\ ~modem.ssi
    BY <1>1 DEF Settled, Quiet, Idling, ModemIs
<1>3. CASE Relay
    <2> DEFINE s == cmtspeech_state_change_call_status(lib, TRUE, {})
    <2>1. s \in LibStates /\ Steps(s) /\ UNCHANGED <<modem, toLib, call>> /\ status' = TRUE
        BY <1>1, <1>3, Relayed
    <2>2. Control(s, "DISCONNECTED", "CONNECTING", TRUE, FALSE) /\ SameSlots(s, lib)
        BY <1>1, StatusEffects DEF In
    <2>3. PICK v \in {1, 2} : s.sent = <<SsiConfigReq(TRUE, v)>>
        BY <1>1, StatusEffects DEF In
    <2>4. SsiConfigReq(TRUE, v) \in OutMsgs
        BY MessageTyped
    <2> HIDE DEF s
    <2>5. Queues(<<SsiConfigReq(TRUE, v)>>, <<>>)'
        <3>1. toModem' = <<SsiConfigReq(TRUE, v)>>
            BY <1>1, <2>1, <2>3, <2>4, OneWritten
        <3> QED
            BY <1>1, <2>1, <3>1 DEF Queues
    <2>6. /\ Fresh(lib', 0) /\ In(lib', "DISCONNECTED", "CONNECTING")
          /\ lib'.call_server_active /\ ~lib'.io_errors
        BY <1>1, <2>1, <2>2, Returned DEF Control, SameSlots, Fresh, In
    <2>7. call' /\ status' /\ Idling'
        BY <1>1, <2>1 DEF Idling, ModemIs
    <2> QED
        BY <2>5, <2>6, <2>7 DEF Connecting, Fresh, In
<1>4. CASE Release
    <2>1. /\ Fresh(lib', 0) /\ SameControl(lib', lib)
          /\ UNCHANGED <<status, modem, toModem, toLib, call>>
        BY <1>1, <1>4, GivenBackLate
    <2>2. In(lib', "DISCONNECTED", "IN_SYNC")
        BY <1>1, <2>1 DEF SameControl, Control, In
    <2> QED
        BY <1>1, <2>1, <2>2 DEF Calling, In, Fresh, Idling, ModemIs, Queues
<1>5. CASE CheckPending \/ ModemReads
    BY <1>1, <1>5 DEF CheckPending, ModemReads
<1>6. CASE DataReceived \/ Acquire
    BY <1>1, <1>6, NoData DEF In, Active
<1>7. CASE StartStream \/ ChangeStream \/ StopStream
    BY <1>2, <1>7, Asked
<1>8. CASE Error
    BY <1>2, <1>8, Failing
<1>9. CASE CallChanges
    BY <1>2, <1>9 DEF CallChanges
<1> QED
    BY <1>3, <1>4, <1>5, <1>6, <1>7, <1>8, <1>9 DEF Ordinary

\* The connection comes up.
LEMMA FromConnecting ==
    ASSUME LinkAssumption, TypeOK, Patient, Connecting, Ordinary
    PROVE  (Connecting \/ Starting \/ Closing \/ Failed)'
<1> DEFINE Fixed == /\ call /\ status /\ lib.call_server_active /\ ~lib.io_errors
                    /\ Fresh(lib, 0)
           Asking == /\ In(lib, "DISCONNECTED", "CONNECTING") /\ Idling
                     /\ \E v \in {1, 2} : Queues(<<SsiConfigReq(TRUE, v)>>, <<>>)
           Answered == /\ ModemIs(TRUE, "off", "none")
                       /\ In(lib, "DISCONNECTED", "CONNECTING") /\ Queues(<<>>, <<SR>>)
           Ready == /\ ModemIs(TRUE, "off", "none")
                    /\ In(lib, "CONNECTED", "IN_SYNC") /\ Queues(<<>>, <<>>)
           Early(r) == /\ ModemIs(TRUE, "off", r) /\ In(lib, "DISCONNECTED", "CONNECTING")
                       /\ Queues(<<>>, <<SR, SpeechConfig(r)>>)
           Wanted(r) == /\ ModemIs(TRUE, "off", r) /\ In(lib, "CONNECTED", "IN_SYNC")
                        /\ Queues(<<>>, <<SpeechConfig(r)>>)
<1>1. /\ lib \in LibStates /\ call = TRUE /\ status = TRUE /\ Fresh(lib, 0)
      /\ lib.call_server_active = TRUE /\ lib.io_errors = FALSE
      /\ toLib \in Seq(ModemMsgs)
    BY Fields DEF TypeOK, Connecting
<1>2. /\ Fixed
      /\ Asking \/ Answered \/ Ready \/ \E r \in StreamRates : Early(r) \/ Wanted(r)
    BY DEF Connecting
<1>3. /\ Fixed /\ Asking => Connecting
      /\ Fixed /\ (Answered \/ Ready) => Connecting
      /\ \A r \in StreamRates : Fixed /\ (Early(r) \/ Wanted(r)) => Connecting
    BY DEF Connecting
<1>4. /\ (Fixed /\ Asking)' => Connecting'
      /\ (Fixed /\ (Answered \/ Ready))' => Connecting'
      /\ \A r \in StreamRates : (Fixed /\ (Early(r) \/ Wanted(r)))' => Connecting'
    BY DEF Connecting
<1>5. modem.stream = "off" /\ lib.proto_state \in {"DISCONNECTED", "CONNECTED"}
    BY <1>2 DEF Idling, ModemIs, In
<1>6. ASSUME NEW r, NEW w
      PROVE  /\ Len(<<r>>) = 1 /\ <<r>>[1] = r /\ <<r>> # <<>> /\ Tail(<<r>>) = <<>>
             /\ Len(<<r, w>>) = 2 /\ <<r, w>>[1] = r /\ <<r, w>> # <<>>
             /\ Tail(<<r, w>>) = <<w>> /\ <<r>> \o <<w>> = <<r, w>>
             /\ <<>> \o <<r>> = <<r>>
    BY OneMessage, TwoMessages
<1>7. \A r \in StreamRates : r # "none" /\ r # "off" /\ r \in Streams
    BY LinkAssumption DEF LinkAssumption, Streams
<1> HIDE DEF Fixed, Asking, Answered, Ready, Early, Wanted
<1>8. CASE CheckPending
    <2> DEFINE s == Handled(toLib[1])
    <2>1. /\ s \in LibStates /\ Steps(s) /\ toLib' = Tail(toLib)
          /\ UNCHANGED <<status, modem, call>>
        BY <1>8, Checked
    <2>2. toModem = <<>>
        BY <1>2, <1>8 DEF CheckPending, Asking, Answered, Ready, Early, Wanted, Queues
    <2>3. ASSUME toLib[1] = SR, lib.priv_state = "CONNECTING"
          PROVE  Fixed' /\ In(lib, "CONNECTED", "IN_SYNC")' /\ toModem' = <<>>
        <3>1. toLib[1].type = "SSI_CONFIG_RESP" /\ lib.slot_size = 0
            BY <1>1, <2>3, MessageIs DEF Fresh
        <3>2. /\ SameSlots(s, lib) /\ s.sent = <<>>
              /\ Control(s, "CONNECTED", "IN_SYNC", TRUE, FALSE)
            BY <1>1, <1>8, <2>3, <3>1, CheckedSsiConfig
        <3> HIDE DEF s
        <3>3. /\ In(lib', "CONNECTED", "IN_SYNC") /\ Fresh(lib', 0)
              /\ lib'.call_server_active /\ ~lib'.io_errors
            BY <1>1, <2>1, <3>2, Returned DEF Control, SameSlots, Fresh, In
        <3>4. toModem' = toModem
            BY <2>1, <3>2, Unwritten
        <3> QED
            BY <1>1, <2>1, <2>2, <3>3, <3>4 DEF Fixed, Fresh, In
    <2>4. CASE Answered
        <3>1. toLib = <<SR>> /\ lib.priv_state = "CONNECTING"
            BY <2>4 DEF Answered, Queues, In
        <3>2. Ready'
            BY <1>6, <2>1, <2>3, <2>4, <3>1 DEF Answered, Ready, Queues, ModemIs
        <3> QED
            BY <1>4, <1>6, <2>3, <3>1, <3>2
    <2>5. ASSUME NEW r \in StreamRates, Early(r)
          PROVE  Connecting'
        <3>1. toLib = <<SR, SpeechConfig(r)>> /\ lib.priv_state = "CONNECTING"
            BY <2>5 DEF Early, Queues, In
        <3>2. Wanted(r)'
            BY <1>6, <2>1, <2>3, <2>5, <3>1 DEF Early, Wanted, Queues, ModemIs
        <3> QED
            BY <1>4, <1>6, <2>3, <3>1, <3>2
    <2>6. ASSUME NEW r \in StreamRates, Wanted(r)
          PROVE  Starting'
        <3>1. toLib = <<SpeechConfig(r)>> /\ In(lib, "CONNECTED", "IN_SYNC")
            BY <2>6 DEF Wanted, Queues
        <3>2. toLib[1] = SpeechConfig(r) /\ toLib' = <<>>
            BY <1>6, <2>1, <3>1
        <3>3. Replied(s, "CONNECTED", "CONFIG_ACT_PEND", TRUE, SlotSize(r))
            BY <1>1, <1>7, <1>8, <3>1, <3>2, CheckedStream DEF Fresh, Unlocked, In
        <3> HIDE DEF s
        <3>4. /\ Control(s, "ACTIVE_DL", "TIMING", TRUE, FALSE)
              /\ Fresh(s, SlotSize(r)) /\ s.sent = <<RESP, NT>>
            BY <3>3 DEF Replied, NT
        <3>5. toModem' = <<RESP, NT>>
            <4>1. toModem' = <<>> \o <<RESP, NT>>
                BY <2>1, <2>2, <3>4, Returned
            <4> QED
                BY <4>1, TwoMessages
        <3>6. /\ In(lib', "ACTIVE_DL", "TIMING") /\ ~lib'.speech_config_resp_pend
              /\ Sized(lib', r) /\ lib'.call_server_active /\ ~lib'.io_errors
            BY <2>1, <3>4, Returned DEF Control, Fresh, In, Sized
        <3>7. ModemIs(TRUE, "off", r)' /\ call' /\ status'
            BY <1>1, <2>1, <2>6 DEF Wanted, ModemIs
        <3> QED
            BY <3>2, <3>5, <3>6, <3>7 DEF Starting, Queues, In, Sized
    <2>7. toLib # <<>>
        BY <1>8 DEF CheckPending
    <2>8. Answered \/ \E r \in StreamRates : Early(r) \/ Wanted(r)
        BY <1>2, <2>7 DEF Asking, Ready, Queues
    <2> QED
        BY <2>4, <2>5, <2>6, <2>8
<1>9. CASE Release
    <2>1. /\ Fresh(lib', 0) /\ SameControl(lib', lib)
          /\ UNCHANGED <<status, modem, toModem, toLib, call>>
        BY <1>1, <1>9, GivenBackLate
    <2>2. Fixed'
        BY <1>1, <2>1 DEF Fixed, SameControl, Control, Fresh
    <2>3. CASE Asking
        <3>1. Asking'
            BY <2>1, <2>3 DEF Asking, In, SameControl, Control, Queues, Idling, ModemIs
        <3> QED
            BY <1>4, <2>2, <3>1
    <2>4. CASE Answered \/ Ready
        <3>1. (Answered \/ Ready)'
            BY <2>1, <2>4 DEF Answered, Ready, In, SameControl, Control, Queues, ModemIs
        <3> QED
            BY <1>4, <2>2, <3>1
    <2>5. ASSUME NEW r \in StreamRates, Early(r) \/ Wanted(r)
          PROVE  Connecting'
        <3>1. (Early(r) \/ Wanted(r))'
            BY <2>1, <2>5 DEF Early, Wanted, In, SameControl, Control, Queues, ModemIs
        <3> QED
            BY <1>4, <2>2, <3>1
    <2> QED
        BY <1>2, <2>3, <2>4, <2>5
<1>10. CASE ModemReads
    <2>1. toModem # <<>>
        BY <1>10 DEF ModemReads
    <2>2. Asking
        BY <1>2, <2>1 DEF Answered, Ready, Early, Wanted, Queues
    <2>3. PICK v \in {1, 2} : toModem = <<SsiConfigReq(TRUE, v)>> /\ toLib = <<>>
        BY <2>2 DEF Asking, Queues
    <2>4. /\ toModem[1].type = "SSI_CONFIG_REQ" /\ toModem[1].on
          /\ Tail(toModem) = <<>>
        <3>1. toModem[1] = SsiConfigReq(TRUE, v) /\ Tail(toModem) = <<>>
            BY <1>6, <2>3
        <3> QED
            BY <3>1 DEF SsiConfigReq
    <2>5. ModemIs(FALSE, "off", "none")
        BY <2>2 DEF Asking, Idling
    <2>6. toLib' = toLib \o <<SR>>
        BY <1>10, <2>4, <2>5, ReadAnswers DEF ModemIs
    <2>7. ModemIs(TRUE, "off", "none")'
        BY <1>10, <2>4, <2>5, ReadAnswers DEF ModemIs
    <2>8. toLib' = <<SR>> /\ toModem' = <<>> /\ UNCHANGED <<lib, call, status>>
        BY <1>6, <1>10, <2>3, <2>4, <2>6, Read
    <2>9. Answered' /\ Fixed'
        BY <1>2, <2>2, <2>7, <2>8 DEF Asking, Answered, Fixed, Queues, In, Fresh
    <2> QED
        BY <1>4, <2>9
<1>11. CASE StartStream \/ ChangeStream \/ StopStream
    <2>1. modem.ssi /\ modem.asked = "none" /\ StartStream
        BY <1>1, <1>5, <1>11, Asked
    <2>2. PICK r \in StreamRates :
            /\ modem'.ssi /\ modem'.stream = modem.stream
            /\ modem'.asked = r /\ ~modem'.resetting
            /\ toLib' = toLib \o <<SpeechConfig(r)>>
        <3>1. ~StopStream
            BY <1>1, Asked
        <3> QED
            BY <2>1, <3>1, Asked
    <2>3. UNCHANGED <<lib, status, toModem, call>>
        BY <1>11, Asked
    <2>4. Answered \/ Ready
        BY <1>2, <1>7, <2>1 DEF Asking, Early, Wanted, Idling, ModemIs
    <2>5. ModemIs(TRUE, "off", r)'
        BY <1>5, <2>2 DEF ModemIs
    <2>6. Fixed'
        BY <1>2, <2>3 DEF Fixed, Fresh
    <2>7. CASE Answered
        <3>1. toModem = <<>> /\ toLib = <<SR>> /\ In(lib, "DISCONNECTED", "CONNECTING")
            BY <2>7 DEF Answered, Queues
        <3>2. toLib' = <<SR, SpeechConfig(r)>>
            BY <1>6, <2>2, <3>1
        <3>3. Early(r)'
            BY <2>3, <2>5, <3>1, <3>2 DEF Early, Queues, In
        <3> QED
            BY <1>4, <2>6, <3>3
    <2>8. CASE Ready
        <3>1. Wanted(r)'
            BY <1>6, <2>2, <2>3, <2>5, <2>8 DEF Ready, Wanted, Queues, In
        <3> QED
            BY <1>4, <2>6, <3>1
    <2> QED
        BY <2>4, <2>7, <2>8
<1>12. CASE CallChanges
    <2>1. Settled /\ call' = FALSE /\ UNCHANGED <<lib, status, modem, toModem, toLib>>
        BY <1>1, <1>12 DEF CallChanges, application
    <2>2. Ready
        BY <1>2, <1>6, <2>1
           DEF Settled, Quiet, Asking, Answered, Early, Wanted, Queues
    <2> QED
        BY <1>1, <2>1, <2>2 DEF Closing, Ready, ModemIs, Queues, In, Fresh
<1>13. CASE Error
    BY <1>13, ErrorFails
<1>14. CASE DataReceived \/ Acquire
    BY <1>1, <1>5, <1>14, NoData DEF Active
<1>15. CASE Relay
    BY <1>1, <1>15 DEF Relay
<1> QED
    BY <1>8, <1>9, <1>10, <1>11, <1>12, <1>13, <1>14, <1>15 DEF Ordinary

\* The reply is on its way to the modem.
LEMMA FromStarting ==
    ASSUME LinkAssumption, TypeOK, Patient, Starting, Ordinary
    PROVE  (Starting \/ Streaming)'
<1>1. PICK r \in StreamRates : ModemIs(TRUE, "off", r) /\ Sized(lib, r)
    BY DEF Starting
<1>2. /\ lib \in LibStates /\ call = TRUE /\ status = TRUE
      /\ lib.call_server_active = TRUE /\ lib.io_errors = FALSE
      /\ In(lib, "ACTIVE_DL", "TIMING") /\ ~lib.speech_config_resp_pend
      /\ toModem = <<RESP, NT>> /\ toLib = <<>>
    BY Fields DEF TypeOK, Starting, Queues
<1>3. r \in {"8kHz", "16kHz"} /\ r # "none" /\ r # "off"
    BY LinkAssumption DEF LinkAssumption
<1>4. /\ toModem # <<>> /\ toModem[1] = RESP /\ Tail(toModem) = <<NT>>
    BY <1>2, TwoMessages
<1>5. ~Settled
    BY <1>4 DEF Settled, Quiet
<1>6. modem.ssi /\ modem.stream = "off" /\ modem.asked = r /\ ~modem.resetting
    BY <1>1 DEF ModemIs
<1>7. ASSUME Relocked(lib', lib), UNCHANGED <<status, modem, toModem, toLib, call>>
      PROVE  Starting'
    <2>1. /\ In(lib', "ACTIVE_DL", "TIMING") /\ ~lib'.speech_config_resp_pend
          /\ lib'.call_server_active /\ ~lib'.io_errors /\ Sized(lib', r)
        BY <1>1, <1>2, <1>7 DEF Relocked, SameControl, Control, In, Sized
    <2> QED
        BY <1>1, <1>2, <1>7, <2>1 DEF Starting, Queues, In, Sized, ModemIs
<1>8. CASE Acquire
    <2>1. Relocked(lib', lib) /\ UNCHANGED <<status, modem, toModem, toLib, call>>
        BY <1>2, <1>8, Acquired DEF In
    <2> QED
        BY <1>7, <2>1
<1>9. CASE Release
    <2>1. Relocked(lib', lib) /\ UNCHANGED <<status, modem, toModem, toLib, call>>
        BY <1>2, <1>9, GivenBackQuietly
    <2> QED
        BY <1>7, <2>1
<1>10. CASE ModemReads
    <2>1. RESP.type = "SPEECH_CONFIG_RESP" /\ RESP.on
        BY MessageIs
    <2>2. /\ modem'.ssi = modem.ssi /\ modem'.asked = "none" /\ ~modem'.resetting
          /\ modem'.stream = r
          /\ toLib' = toLib \o IF "off" \in {modem.stream, modem'.stream} THEN <<>>
                               ELSE <<UP, TM>>
        BY <1>3, <1>4, <1>6, <1>10, <2>1, ReadAnswers
    <2>3. toLib' = <<>>
        BY <1>2, <1>6, <2>2
    <2>4. toModem' = <<NT>> /\ UNCHANGED <<lib, call, status>>
        BY <1>4, <1>10, Read
    <2>5. ~AskedInLink'
        BY <2>3 DEF AskedInLink
    <2>6. ~ReplyInLink'
        <3>1. Len(<<NT>>) = 1 /\ <<NT>>[1] = NT /\ Len(<<NT, RESP>>) = 2
              /\ <<RESP>>[1] = RESP
            BY OneMessage, TwoMessages
        <3>2. NT # RESP
            BY MessageIs
        <3> QED
            BY <2>4, <3>1, <3>2 DEF ReplyInLink
    <2>7. Running(lib') /\ Owed(lib') /\ Sized(lib', r) /\ ~lib'.speech_config_resp_pend
        BY <1>1, <1>2, <2>4 DEF In, Running, Active, Owed, Sized
    <2>8. /\ (call /\ modem.ssi /\ ~modem.resetting)'
          /\ (modem.stream = r /\ modem.asked = "none")'
          /\ (lib.call_server_active = status /\ ~lib.io_errors)'
        BY <1>2, <1>6, <2>2, <2>4
    <2>9. (\A k \in 1 .. Len(toLib) : toLib[k] \in {UP, TM, SpeechConfig(modem.asked)})'
          /\ (\A j, k \in 1 .. Len(toLib) :
                 toLib[j].type = "SPEECH_CONFIG_REQ" /\ toLib[k].type = "SPEECH_CONFIG_REQ"
                     => j = k)'
        BY <2>3
    <2> QED
        BY <2>4, <2>5, <2>6, <2>7, <2>8, <2>9 DEF Streaming, Running, Owed, Unlocked, Sized
<1>11. CASE CheckPending
    BY <1>2, <1>11 DEF CheckPending
<1>12. CASE DataReceived
    BY <1>6, <1>12, DataArrives
<1>13. CASE Relay
    BY <1>2, <1>13 DEF Relay
<1>14. CASE StartStream \/ ChangeStream \/ StopStream
    BY <1>3, <1>6, <1>14, Asked
<1>15. CASE Error
    BY <1>5, <1>15, Failing
<1>16. CASE CallChanges
    BY <1>5, <1>16 DEF CallChanges
<1> QED
    BY <1>8, <1>9, <1>10, <1>11, <1>12, <1>13, <1>14, <1>15, <1>16 DEF Ordinary

\* The connection goes down once the application has noticed and the modem has
\* answered.
LEMMA FromClosing ==
    ASSUME LinkAssumption, TypeOK, Patient, Closing, Ordinary
    PROVE  (Closing \/ Down)'
<1> DEFINE Fixed == /\ ~call /\ lib.proto_state = "CONNECTED" /\ Fresh(lib, 0)
                    /\ lib.call_server_active = status
           Open == Fixed /\ status /\ lib.priv_state = "IN_SYNC"
           Leaving == Fixed /\ ~status /\ lib.priv_state = "DISCONNECTING"
           Off1 == ModemIs(TRUE, "off", "none")
           Off2(r) == ModemIs(TRUE, r, "off")
           Ends(v) == SsiConfigReq(FALSE, v)
<1>1. /\ lib \in LibStates /\ call = FALSE /\ status \in BOOLEAN /\ Fresh(lib, 0)
      /\ lib.proto_state = "CONNECTED" /\ lib.call_server_active = status
    BY DEF TypeOK, Closing
<1>2. \/ Open /\ Off1 /\ Queues(<<>>, <<>>)
      \/ \E r \in StreamRates : Open /\ Off2(r) /\ Queues(<<RESP>>, <<>>)
      \/ \E v \in {1, 2} : Leaving /\ Off1 /\ Queues(<<Ends(v)>>, <<>>)
      \/ \E v \in {1, 2}, r \in StreamRates :
            Leaving /\ Off2(r) /\ Queues(<<RESP, Ends(v)>>, <<>>)
      \/ Leaving /\ Idling /\ Queues(<<>>, <<SR>>)
    BY DEF Closing
<1>3. /\ (Open /\ Off1 /\ Queues(<<>>, <<>>))' => Closing'
      /\ \A r \in StreamRates : (Open /\ Off2(r) /\ Queues(<<RESP>>, <<>>))' => Closing'
      /\ \A v \in {1, 2} : (Leaving /\ Off1 /\ Queues(<<Ends(v)>>, <<>>))' => Closing'
      /\ \A v \in {1, 2}, r \in StreamRates :
            (Leaving /\ Off2(r) /\ Queues(<<RESP, Ends(v)>>, <<>>))' => Closing'
      /\ (Leaving /\ Idling /\ Queues(<<>>, <<SR>>))' => Closing'
    BY DEF Closing
<1>4. ASSUME NEW a, NEW b
      PROVE  /\ <<a>>[1] = a /\ <<a>> # <<>> /\ Tail(<<a>>) = <<>>
             /\ <<a, b>>[1] = a /\ <<a, b>> # <<>> /\ Tail(<<a, b>>) = <<b>>
             /\ <<a>> \o <<b>> = <<a, b>> /\ <<>> \o <<a>> = <<a>>
    BY OneMessage, TwoMessages
<1>5. \A v \in {1, 2} : Ends(v).type = "SSI_CONFIG_REQ" /\ ~Ends(v).on /\ Ends(v) \in OutMsgs
    BY MessageIs, MessageTyped DEF SsiConfigReq
<1>6. RESP.type = "SPEECH_CONFIG_RESP" /\ RESP.on /\ SR.type = "SSI_CONFIG_RESP"
    BY MessageIs
<1> HIDE DEF Open, Leaving, Off1, Off2, Ends
<1>7. ~Settled
    BY <1>1, <1>2, <1>4 DEF Settled, Quiet, Queues, Open, Leaving
<1>8. CASE CheckPending
    <2> DEFINE s == Handled(toLib[1])
    <2>1. /\ s \in LibStates /\ Steps(s) /\ toLib' = Tail(toLib)
          /\ UNCHANGED <<modem, call>>
        BY <1>8, Checked
    <2>2. toLib # <<>>
        BY <1>8 DEF CheckPending
    <2>3. Leaving /\ Idling /\ toModem = <<>> /\ toLib = <<SR>>
        BY <1>2, <2>2 DEF Queues
    <2>4. toLib[1] = SR /\ toLib' = <<>>
        BY <1>4, <2>1, <2>3
    <2>5. /\ SameSlots(s, lib) /\ s.sent = <<>>
          /\ Control(s, "DISCONNECTED", "IN_SYNC", FALSE, FALSE)
        BY <1>1, <1>6, <1>8, <2>3, <2>4, CheckedSsiConfig DEF Fresh, Leaving
    <2> HIDE DEF s
    <2>6. In(lib', "DISCONNECTED", "IN_SYNC") /\ Fresh(lib', 0)
        BY <1>1, <2>1, <2>5, Returned DEF Control, SameSlots, Fresh, In
    <2>7. toModem' = <<>>
        BY <2>1, <2>3, <2>5, Unwritten
    <2>8. ~call' /\ Idling'
        BY <1>1, <2>1, <2>3 DEF Idling, ModemIs
    <2> QED
        BY <2>4, <2>6, <2>7, <2>8 DEF Down, In, Fresh
<1>9. CASE Relay
    <2> DEFINE s == cmtspeech_state_change_call_status(lib, FALSE, {})
    <2>1. /\ s \in LibStates /\ Steps(s) /\ UNCHANGED <<modem, toLib, call>>
          /\ status' = FALSE /\ status
        BY <1>1, <1>9, Relayed
    <2>2. Open
        BY <1>2, <2>1 DEF Leaving
    <2>3. /\ SameSlots(s, lib) /\ Control(s, "CONNECTED", "DISCONNECTING", FALSE, FALSE)
        BY <1>1, <2>2, StatusEffects DEF Open
    <2>4. PICK v \in {1, 2} : s.sent = <<Ends(v)>>
        BY <1>1, <2>2, StatusEffects DEF Open, Ends
    <2> HIDE DEF s
    <2>5. Leaving'
        BY <1>1, <2>1, <2>3, Returned DEF Control, SameSlots, Fresh, Leaving
    <2>6. toModem' = toModem \o <<Ends(v)>>
        BY <2>1, <2>4, Returned
    <2>7. CASE Off1 /\ Queues(<<>>, <<>>)
        <3>1. Off1' /\ Queues(<<Ends(v)>>, <<>>)'
            BY <1>4, <2>1, <2>6, <2>7 DEF Off1, ModemIs, Queues
        <3> QED
            BY <1>3, <2>5, <3>1
    <2>8. ASSUME NEW r \in StreamRates, Off2(r), Queues(<<RESP>>, <<>>)
          PROVE  Closing'
        <3>1. Off2(r)' /\ Queues(<<RESP, Ends(v)>>, <<>>)'
            BY <1>4, <2>1, <2>6, <2>8 DEF Off2, ModemIs, Queues
        <3> QED
            BY <1>3, <2>5, <3>1
    <2>9. ~Leaving
        BY <2>2 DEF Open, Leaving
    <2> QED
        BY <1>2, <2>7, <2>8, <2>9
<1>10. CASE Release
    <2>1. /\ Fresh(lib', 0) /\ SameControl(lib', lib)
          /\ UNCHANGED <<status, modem, toModem, toLib, call>>
        BY <1>1, <1>10, GivenBackLate
    <2>2. (Open => Open') /\ (Leaving => Leaving')
        BY <2>1 DEF Open, Leaving, SameControl, Control, Fresh
    <2>3. /\ (Off1 => Off1') /\ (Idling => Idling')
          /\ \A r \in StreamRates : Off2(r) => Off2(r)'
        BY <2>1 DEF Off1, Off2, Idling, ModemIs
    <2>4. \A m, l : Queues(m, l) => Queues(m, l)'
        BY <2>1 DEF Queues
    <2>5. CASE Open /\ Off1 /\ Queues(<<>>, <<>>)
        BY <1>3, <2>2, <2>3, <2>4, <2>5
    <2>6. ASSUME NEW r \in StreamRates, Open /\ Off2(r) /\ Queues(<<RESP>>, <<>>)
          PROVE  Closing'
        BY <1>3, <2>2, <2>3, <2>4, <2>6
    <2>7. ASSUME NEW v \in {1, 2}, Leaving /\ Off1 /\ Queues(<<Ends(v)>>, <<>>)
          PROVE  Closing'
        BY <1>3, <2>2, <2>3, <2>4, <2>7
    <2>8. ASSUME NEW v \in {1, 2}, NEW r \in StreamRates,
                 Leaving /\ Off2(r) /\ Queues(<<RESP, Ends(v)>>, <<>>)
          PROVE  Closing'
        BY <1>3, <2>2, <2>3, <2>4, <2>8
    <2>9. CASE Leaving /\ Idling /\ Queues(<<>>, <<SR>>)
        BY <1>3, <2>2, <2>3, <2>4, <2>9
    <2> QED
        BY <1>2, <2>5, <2>6, <2>7, <2>8, <2>9
<1>11. CASE ModemReads
    <2>1. UNCHANGED <<lib, call, status>> /\ toModem' = Tail(toModem) /\ toModem # <<>>
        BY <1>11, Read DEF ModemReads
    <2>2. (Open => Open') /\ (Leaving => Leaving')
        BY <2>1 DEF Open, Leaving, Fresh
    <2>3. ASSUME NEW r \in StreamRates, Off2(r), toModem[1] = RESP, toLib = <<>>
          PROVE  Off1' /\ toLib' = <<>>
        <3>1. ~modem.resetting /\ modem.ssi /\ modem.asked = "off"
            BY <2>3 DEF Off2, ModemIs
        <3>2. /\ modem'.ssi = modem.ssi /\ modem'.asked = "none" /\ ~modem'.resetting
              /\ modem'.stream = "off"
              /\ toLib' = toLib \o IF "off" \in {modem.stream, modem'.stream} THEN <<>>
                                   ELSE <<UP, TM>>
            BY <1>6, <1>11, <2>3, <3>1, ReadAnswers
        <3> QED
            BY <2>3, <3>1, <3>2 DEF Off1, ModemIs
    <2>4. ASSUME NEW r \in StreamRates, Open /\ Off2(r) /\ Queues(<<RESP>>, <<>>)
          PROVE  Closing'
        <3>1. toModem[1] = RESP /\ toModem' = <<>> /\ toLib = <<>>
            BY <1>4, <2>1, <2>4 DEF Queues
        <3>2. Off1' /\ Queues(<<>>, <<>>)'
            BY <2>3, <2>4, <3>1 DEF Queues
        <3> QED
            BY <1>3, <2>2, <2>4, <3>2
    <2>5. ASSUME NEW v \in {1, 2}, NEW r \in StreamRates,
                 Leaving /\ Off2(r) /\ Queues(<<RESP, Ends(v)>>, <<>>)
          PROVE  Closing'
        <3>1. toModem[1] = RESP /\ toModem' = <<Ends(v)>> /\ toLib = <<>>
            BY <1>4, <2>1, <2>5 DEF Queues
        <3>2. Off1' /\ Queues(<<Ends(v)>>, <<>>)'
            BY <2>3, <2>5, <3>1 DEF Queues
        <3> QED
            BY <1>3, <2>2, <2>5, <3>2
    <2>6. ASSUME NEW v \in {1, 2}, Leaving /\ Off1 /\ Queues(<<Ends(v)>>, <<>>)
          PROVE  Closing'
        <3>1. toModem[1] = Ends(v) /\ toModem' = <<>> /\ toLib = <<>>
            BY <1>4, <2>1, <2>6 DEF Queues
        <3>2. Idling' /\ toLib' = toLib \o <<SR>>
            BY <1>5, <1>11, <2>6, <3>1, ReadAnswers DEF Off1, ModemIs
        <3>3. Queues(<<>>, <<SR>>)'
            BY <1>4, <3>1, <3>2 DEF Queues
        <3> QED
            BY <1>3, <2>2, <2>6, <3>2, <3>3
    <2> QED
        BY <1>2, <2>1, <2>4, <2>5, <2>6 DEF Queues
<1>12. CASE StartStream \/ ChangeStream \/ StopStream
    <2>1. modem.ssi /\ modem.asked = "none" /\ modem.stream # "off"
        BY <1>1, <1>12, Asked
    <2> QED
        BY <1>2, <2>1 DEF Off1, Off2, Idling, ModemIs
<1>13. CASE DataReceived \/ Acquire
    BY <1>1, <1>13, NoData DEF Active
<1>14. CASE Error
    BY <1>7, <1>14, Failing
<1>15. CASE CallChanges
    BY <1>7, <1>15 DEF CallChanges
<1> QED
    BY <1>8, <1>9, <1>10, <1>11, <1>12, <1>13, <1>14, <1>15 DEF Ordinary

\* The reply to the stop of the stream, during the call
LEMMA RepliedStop ==
    ASSUME NEW s, NEW proto \in Active, NEW active,
           Replied(s, proto, "CONFIG_DEACT_PEND", active, 0)
    PROVE  /\ Fresh(s, 0)
           /\ IF active
              THEN Control(s, "CONNECTED", "IN_SYNC", TRUE, FALSE) /\ s.sent = <<RESP>>
              ELSE /\ Control(s, "CONNECTED", "DISCONNECTING", FALSE, FALSE)
                   /\ \E v \in {1, 2} : s.sent = <<RESP, SsiConfigReq(FALSE, v)>>
    BY DEF Replied

\* and after its end
LEMMA StopReplied ==
    ASSUME TypeOK, NEW s \in LibStates, NEW r \in StreamRates, Steps(s),
           lib.proto_state \in Active, toModem = <<>>, toLib' = <<>>,
           Replied(s, lib.proto_state, "CONFIG_DEACT_PEND", lib.call_server_active, 0),
           lib.call_server_active = status, ~call, ModemIs(TRUE, r, "off"),
           UNCHANGED <<status, modem, call>>
    PROVE  Closing'
<1>1. /\ Fresh(s, 0)
      /\ IF status
         THEN Control(s, "CONNECTED", "IN_SYNC", TRUE, FALSE) /\ s.sent = <<RESP>>
         ELSE /\ Control(s, "CONNECTED", "DISCONNECTING", FALSE, FALSE)
              /\ \E v \in {1, 2} : s.sent = <<RESP, SsiConfigReq(FALSE, v)>>
    BY RepliedStop
<1>2. Fresh(lib', 0) /\ toModem' = <<>> \o s.sent
    BY <1>1, Returned DEF Fresh
<1>3. ModemIs(TRUE, r, "off")' /\ ~call' /\ status' = status /\ status \in BOOLEAN
    BY DEF ModemIs, TypeOK
<1>4. CASE status
    <2>1. Control(s, "CONNECTED", "IN_SYNC", TRUE, FALSE) /\ s.sent = <<RESP>>
        BY <1>1, <1>4
    <2>2. toModem' = <<RESP>>
        BY <1>2, <2>1, OneMessage
    <2>3. In(lib', "CONNECTED", "IN_SYNC") /\ lib'.call_server_active = TRUE
        BY <2>1, Returned DEF Control, In
    <2> QED
        BY <1>2, <1>3, <1>4, <2>2, <2>3 DEF Closing, Queues, In, Fresh
<1>5. CASE ~status
    <2>1. PICK v \in {1, 2} : s.sent = <<RESP, SsiConfigReq(FALSE, v)>>
        BY <1>1, <1>5
    <2>2. Control(s, "CONNECTED", "DISCONNECTING", FALSE, FALSE)
        BY <1>1, <1>5
    <2>3. toModem' = <<RESP, SsiConfigReq(FALSE, v)>>
        BY <1>2, <2>1, TwoMessages
    <2>4. In(lib', "CONNECTED", "DISCONNECTING") /\ lib'.call_server_active = FALSE
        BY <2>2, Returned DEF Control, In
    <2>5. Queues(<<RESP, SsiConfigReq(FALSE, v)>>, <<>>)'
        BY <2>3 DEF Queues
    <2> QED
        BY <1>2, <1>3, <1>5, <2>4, <2>5 DEF Closing, In, Fresh
<1> QED
    BY <1>3, <1>4, <1>5

\* The stream stops, at once or when the application gives its buffers back,
\* unless another call takes it over.
LEMMA FromEnding ==
    ASSUME LinkAssumption, TypeOK, Patient, Ending, Ordinary
    PROVE  (Ending \/ Closing \/ Streaming \/ Failed)'
<1> DEFINE Fixed == /\ ~call /\ lib.proto_state \in Active
                    /\ lib.call_server_active = status /\ Owed(lib)
           Flows(r) == /\ Running(lib) /\ ~lib.io_errors
                       /\ ~lib.speech_config_resp_pend /\ Sized(lib, r)
           Held == /\ lib.priv_state = "CONFIG_DEACT_PEND"
                   /\ lib.speech_config_resp_pend /\ lib.slot_size = 0
<1>1. /\ lib \in LibStates /\ call = FALSE /\ status \in BOOLEAN /\ Fixed
      /\ lib.proto_state \in Active /\ lib.call_server_active = status
    BY DEF TypeOK, Ending
<1>2. PICK r \in StreamRates :
        \/ ModemIs(TRUE, r, "none") /\ Queues(<<>>, <<>>) /\ Flows(r)
        \/ ModemIs(TRUE, r, "off") /\ Queues(<<>>, <<Off>>) /\ Flows(r)
        \/ ModemIs(TRUE, r, "off") /\ Queues(<<>>, <<>>) /\ Held
    BY DEF Ending
<1>3. /\ (Fixed /\ ModemIs(TRUE, r, "none") /\ Queues(<<>>, <<>>) /\ Flows(r))' => Ending'
      /\ (Fixed /\ ModemIs(TRUE, r, "off") /\ Queues(<<>>, <<Off>>) /\ Flows(r))' => Ending'
      /\ (Fixed /\ ModemIs(TRUE, r, "off") /\ Queues(<<>>, <<>>) /\ Held)' => Ending'
    BY DEF Ending
<1>4. r \in {"8kHz", "16kHz"} /\ r # "none" /\ r # "off"
    BY LinkAssumption DEF LinkAssumption
<1>5. /\ Len(<<Off>>) = 1 /\ <<Off>>[1] = Off /\ <<Off>> # <<>> /\ Tail(<<Off>>) = <<>>
      /\ <<>> \o <<Off>> = <<Off>>
    BY OneMessage
<1>6. toModem = <<>> /\ modem.ssi /\ modem.stream = r
    BY <1>2 DEF Queues, ModemIs
<1> HIDE DEF Fixed, Flows, Held
<1>7. ASSUME Fixed', (Flows(r) => Flows(r)'), (Held => Held'),
             UNCHANGED <<modem, toModem, toLib>>
      PROVE  Ending'
    <2>1. \A m, l : Queues(m, l) => Queues(m, l)'
        BY <1>7 DEF Queues
    <2>2. \A a : ModemIs(TRUE, r, a) => ModemIs(TRUE, r, a)'
        BY <1>7 DEF ModemIs
    <2>3. CASE ModemIs(TRUE, r, "none") /\ Queues(<<>>, <<>>) /\ Flows(r)
        BY <1>3, <1>7, <2>1, <2>2, <2>3
    <2>4. CASE ModemIs(TRUE, r, "off") /\ Queues(<<>>, <<Off>>) /\ Flows(r)
        BY <1>3, <1>7, <2>1, <2>2, <2>4
    <2>5. CASE ModemIs(TRUE, r, "off") /\ Queues(<<>>, <<>>) /\ Held
        BY <1>3, <1>7, <2>1, <2>2, <2>5
    <2> QED
        BY <1>2, <2>3, <2>4, <2>5
<1>8. CASE CheckPending
    <2> DEFINE s == Handled(toLib[1])
    <2>1. /\ s \in LibStates /\ Steps(s) /\ toLib' = Tail(toLib)
          /\ UNCHANGED <<status, modem, call>>
        BY <1>8, Checked
    <2>2. toLib # <<>>
        BY <1>8 DEF CheckPending
    <2>3. ModemIs(TRUE, r, "off") /\ toLib = <<Off>> /\ Flows(r)
        BY <1>2, <2>2 DEF Queues
    <2>4. toLib[1] = SpeechConfig("off") /\ toLib' = <<>> /\ "off" \in Streams
        BY <1>5, <2>1, <2>3 DEF Off, Streams
    <2>5. IF Unlocked(lib)
          THEN Replied(s, lib.proto_state, "CONFIG_DEACT_PEND", lib.call_server_active, 0)
          ELSE Waits(s, lib, "CONFIG_DEACT_PEND", 0)
        BY <1>8, <2>4, CheckedStream
    <2> HIDE DEF s
    <2>6. CASE Unlocked(lib)
        BY <1>1, <1>6, <2>1, <2>3, <2>4, <2>5, <2>6, StopReplied
    <2>7. CASE ~Unlocked(lib)
        <3>1. Waits(s, lib, "CONFIG_DEACT_PEND", 0)
            BY <2>5, <2>7
        <3>2. toModem' = <<>>
            BY <1>6, <2>1, <3>1, Unwritten DEF Waits
        <3>3. Held'
            BY <2>1, <3>1, Returned DEF Waits, Control, Held
        <3>4. Fixed'
            BY <1>1, <2>1, <2>7, <3>1, Returned
               DEF Waits, Control, Fixed, Owed, Unlocked
        <3>5. ModemIs(TRUE, r, "off")' /\ Queues(<<>>, <<>>)'
            BY <2>1, <2>3, <2>4, <3>2 DEF ModemIs, Queues
        <3> QED
            BY <1>3, <3>3, <3>4, <3>5
    <2> QED
        BY <2>6, <2>7
<1>9. CASE DataReceived
    <2>1. /\ SameControl(lib', lib) /\ SameSlots(lib', lib)
          /\ UNCHANGED <<status, modem, toModem, toLib, call>>
        BY <1>9, DataArrives
    <2>2. Fixed' /\ (Flows(r) => Flows(r)') /\ (Held => Held')
        BY <1>1, <2>1 DEF SameControl, Control, SameSlots, Fixed, Flows, Held,
                          Running, Sized, Owed, Unlocked
    <2> QED
        BY <1>7, <2>1, <2>2
<1>10. CASE Relay
    <2> DEFINE s == cmtspeech_state_change_call_status(lib, FALSE, {})
    <2>1. /\ s \in LibStates /\ Steps(s) /\ UNCHANGED <<modem, toLib, call>>
          /\ status' = FALSE
        BY <1>1, <1>10, Relayed
    <2>2. Flows(r) \/ Held
        BY <1>2
    <2>3. /\ SameSlots(s, lib) /\ s.call_server_active = FALSE /\ s.sent = <<>>
          /\ s.proto_state = lib.proto_state /\ s.priv_state = lib.priv_state
          /\ Flows(r) => s.io_errors = lib.io_errors
        BY <1>1, <2>2, StatusEffects, ZenonT(30) DEF Control, Flows, Held
    <2> HIDE DEF s
    <2>4. toModem' = toModem
        BY <2>1, <2>3, Unwritten
    <2>5. Fixed' /\ (Flows(r) => Flows(r)') /\ (Held => Held')
        BY <1>1, <2>1, <2>3, Returned
           DEF SameSlots, Fixed, Flows, Held, Running, Sized, Owed, Unlocked
    <2> QED
        BY <1>7, <2>1, <2>4, <2>5
<1>11. CASE Acquire
    <2>1. /\ Relocked(lib', lib) /\ (Owed(lib) => Owed(lib'))
          /\ UNCHANGED <<status, modem, toModem, toLib, call>>
        BY <1>1, <1>11, Acquired DEF Active
    <2>2. Owed(lib')
        BY <1>1, <2>1 DEF Fixed
    <2>3. Fixed' /\ (Flows(r) => Flows(r)') /\ (Held => Held')
        BY <1>1, <2>1, <2>2
           DEF Relocked, SameControl, Control, Fixed, Flows, Held, Running, Sized,
               Owed, Unlocked
    <2> QED
        BY <1>7, <2>1, <2>3
<1>12. CASE Release
    <2>1. Owed(lib)
        BY <1>1 DEF Fixed
    <2>2. UNCHANGED <<status, modem, toLib, call>>
        BY <1>12, <2>1, GivenBack
    <2>3. PICK s \in LibStates : Steps(s) /\ Released(s, lib)
        BY <1>12, <2>1, GivenBack
    <2>4. CASE Relocked(s, lib) /\ (lib.speech_config_resp_pend => ~Unlocked(s))
        <3>1. toModem' = toModem
            BY <2>3, <2>4, Unwritten DEF Relocked
        <3>2. Fixed' /\ (Flows(r) => Flows(r)') /\ (Held => Held')
            BY <1>1, <2>2, <2>3, <2>4, Returned
               DEF Relocked, SameControl, Control, Fixed, Flows, Held, Running, Sized,
                   Owed, Unlocked
        <3> QED
            BY <1>7, <2>2, <3>1, <3>2
    <2>5. CASE /\ lib.speech_config_resp_pend
               /\ Replied(s, lib.proto_state, lib.priv_state, lib.call_server_active,
                          lib.slot_size)
        <3>1. Held /\ ModemIs(TRUE, r, "off") /\ toLib = <<>>
            BY <1>2, <2>5 DEF Flows, Queues
        <3>2. Replied(s, lib.proto_state, "CONFIG_DEACT_PEND", lib.call_server_active, 0)
            BY <2>5, <3>1 DEF Held
        <3> QED
            BY <1>1, <1>6, <2>2, <2>3, <3>1, <3>2, StopReplied
    <2> QED
        BY <2>3, <2>4, <2>5 DEF Released
<1>13. CASE StartStream \/ ChangeStream \/ StopStream
    <2>1. StopStream /\ modem.asked = "none"
        BY <1>1, <1>13, Asked
    <2>2. /\ modem'.ssi /\ modem'.stream = modem.stream
          /\ modem'.asked = "off" /\ ~modem'.resetting
          /\ toLib' = toLib \o <<Off>> /\ UNCHANGED <<lib, status, toModem, call>>
        BY <2>1, Asked DEF Off
    <2>3. Queues(<<>>, <<>>) /\ Flows(r)
        BY <1>2, <2>1 DEF ModemIs
    <2>4. Fixed' /\ Flows(r)'
        BY <1>1, <2>2, <2>3 DEF Fixed, Flows, Running, Sized, Owed, Unlocked
    <2>5. ModemIs(TRUE, r, "off")' /\ Queues(<<>>, <<Off>>)'
        BY <1>5, <1>6, <2>2, <2>3 DEF ModemIs, Queues
    <2> QED
        BY <1>3, <2>4, <2>5
<1>14. CASE CallChanges
    <2>1. Settled /\ call' = TRUE /\ UNCHANGED <<lib, status, modem, toModem, toLib>>
        BY <1>1, <1>14 DEF CallChanges, application
    <2>2. modem.asked = "none" /\ ~modem.resetting
        BY <2>1 DEF Settled, Quiet
    <2>3. Flows(r) /\ toModem' = <<>> /\ toLib' = <<>>
        BY <1>2, <2>1, <2>2 DEF ModemIs, Queues
    <2>4. ~AskedInLink' /\ ~ReplyInLink'
        <3>1. <<RESP>> # <<>> /\ <<NT, RESP>> # <<>> /\ Len(<<>>) = 0
            OBVIOUS
        <3> QED
            BY <2>3, <3>1 DEF AskedInLink, ReplyInLink
    <2>5. Running(lib') /\ Owed(lib') /\ Sized(lib', r) /\ ~lib'.speech_config_resp_pend
          /\ ~lib'.io_errors /\ lib'.call_server_active = status'
        BY <1>1, <2>1, <2>3 DEF Flows, Fixed, Owed, Running, Sized, Unlocked
    <2>6. /\ modem'.ssi /\ ~modem'.resetting /\ modem'.stream = r /\ modem'.asked = "none"
        BY <1>6, <2>1, <2>2
    <2>7. /\ \A k \in 1 .. Len(toLib') : toLib'[k] \in {UP, TM, SpeechConfig(modem'.asked)}
          /\ \A j, k \in 1 .. Len(toLib') :
                 toLib'[j].type = "SPEECH_CONFIG_REQ" /\ toLib'[k].type = "SPEECH_CONFIG_REQ"
                     => j = k
        BY <2>3
    <2> QED
        BY <2>1, <2>3, <2>4, <2>5, <2>6, <2>7
           DEF Streaming, Running, Owed, Unlocked, Sized
<1>15. CASE Error
    BY <1>15, ErrorFails
<1>16. CASE ModemReads
    BY <1>6, <1>16 DEF ModemReads
<1> QED
    BY <1>8, <1>9, <1>10, <1>11, <1>12, <1>13, <1>14, <1>15, <1>16 DEF Ordinary

\* The reply to the start or the change of the stream
LEMMA RepliedOn ==
    ASSUME NEW s, NEW proto \in Active,
           NEW priv \in {"IN_SYNC", "TIMING", "CONFIG_ACT_PEND"},
           NEW active, NEW size, Replied(s, proto, priv, active, size)
    PROVE  /\ Fresh(s, size) /\ Running(s) /\ s.sent = <<RESP>>
           /\ s.call_server_active = active /\ s.io_errors = FALSE
<1>1. CASE priv = "CONFIG_ACT_PEND" /\ proto = "ACTIVE_DLUL"
    BY <1>1 DEF Replied, Control, Running, Active
<1>2. CASE priv # "CONFIG_ACT_PEND" \/ proto # "ACTIVE_DLUL"
    <2>1. \/ priv \notin ConfigPending
          \/ priv = "CONFIG_ACT_PEND" /\ proto \notin {"CONNECTED", "ACTIVE_DLUL"}
        BY <1>2 DEF ConfigPending, Active
    <2>2. Control(s, proto, priv, active, FALSE) /\ s.sent = <<RESP>> /\ Fresh(s, size)
        BY <2>1, Zenon DEF Replied
    <2> QED
        BY <2>2 DEF Control, Running
<1> QED
    BY <1>1, <1>2

\* The modem starts the uplink.
LEMMA UplinkStarts ==
    ASSUME TypeOK, toLib' = toLib \o <<UP, TM>>
    PROVE  /\ Len(toLib') = Len(toLib) + 2 /\ Len(toLib) \in Nat
           /\ \A k \in 1 .. Len(toLib) : toLib'[k] = toLib[k]
           /\ \A k \in 1 .. Len(toLib') : k \notin 1 .. Len(toLib) =>
                 toLib'[k] \in {UP, TM}
<1>1. toLib \in Seq(ModemMsgs) /\ UP \in ModemMsgs /\ TM \in ModemMsgs
    BY MessageTyped DEF TypeOK
<1>2. /\ <<UP, TM>> \in Seq(ModemMsgs) /\ Len(<<UP, TM>>) = 2
      /\ <<UP, TM>>[1] = UP /\ <<UP, TM>>[2] = TM
    BY <1>1, TwoMessages
<1> DEFINE q == toLib \o <<UP, TM>>
<1>3. /\ Len(q) = Len(toLib) + Len(<<UP, TM>>)
      /\ \A k \in 1 .. Len(toLib) : q[k] = toLib[k]
      /\ \A k \in 1 .. Len(<<UP, TM>>) : q[Len(toLib) + k] = <<UP, TM>>[k]
    BY <1>1, <1>2, QueueSteps
<1>4. Len(toLib) \in Nat
    BY <1>1, LenProperties
<1> HIDE DEF q
<1>5. Len(q) = Len(toLib) + 2 /\ q[Len(toLib) + 1] = UP /\ q[Len(toLib) + 2] = TM
    BY <1>2, <1>3
<1>6. ASSUME NEW k \in 1 .. Len(q), k \notin 1 .. Len(toLib)
      PROVE  q[k] \in {UP, TM}
    <2>1. k = Len(toLib) + 1 \/ k = Len(toLib) + 2
        BY <1>4, <1>5, <1>6
    <2> QED
        BY <1>5, <2>1
<1>7. toLib' = q
    BY DEF q
<1> QED
    BY <1>3, <1>4, <1>5, <1>6, <1>7

\* What may be under way while the stream is on
OneRequest ==
    \A j, k \in 1 .. Len(toLib) :
        toLib[j].type = "SPEECH_CONFIG_REQ" /\ toLib[k].type = "SPEECH_CONFIG_REQ"
            => j = k

Mail ==
    /\ toModem \in {<<>>, <<NT>>, <<RESP>>, <<NT, RESP>>}
    /\ \A k \in 1 .. Len(toLib) : toLib[k] \in {UP, TM, SpeechConfig(modem.asked)}
    /\ OneRequest

\* and how far the change of the stream has got
Change ==
    IF modem.asked = "none"
    THEN /\ ~AskedInLink /\ ~ReplyInLink /\ ~lib.speech_config_resp_pend
         /\ Sized(lib, modem.stream)
    ELSE \/ /\ AskedInLink /\ ~ReplyInLink /\ ~lib.speech_config_resp_pend
            /\ Sized(lib, modem.stream)
         \/ /\ ~AskedInLink /\ ReplyInLink /\ ~lib.speech_config_resp_pend
            /\ Sized(lib, modem.asked)
         \/ /\ ~AskedInLink /\ ~ReplyInLink /\ lib.speech_config_resp_pend
            /\ lib.slot_size = SlotSize(modem.asked)

StreamOn ==
    /\ call /\ modem.ssi /\ ~modem.resetting
    /\ modem.stream \in StreamRates /\ modem.asked \in StreamRates \cup {"none"}
    /\ Running(lib) /\ lib.call_server_active = status /\ ~lib.io_errors
    /\ Owed(lib)

\* The invariant of a stream that flows, in its parts.
LEMMA StreamingIs ==
    /\ Streaming => StreamOn /\ Mail /\ Change
    /\ (StreamOn /\ Mail /\ Change)' => Streaming'
    BY DEF Streaming, StreamOn, Mail, Change, OneRequest

\* The four states of the queue to the modem are different.
LEMMA MailToModem ==
    /\ <<NT>> # <<>> /\ <<RESP>> # <<>> /\ <<NT, RESP>> # <<>>
    /\ <<NT>> # <<RESP>> /\ <<NT>> # <<NT, RESP>> /\ <<RESP>> # <<NT, RESP>>
    /\ <<NT>>[1] = NT /\ <<RESP>>[1] = RESP /\ <<NT, RESP>>[1] = NT /\ NT # RESP
    /\ Tail(<<NT>>) = <<>> /\ Tail(<<RESP>>) = <<>> /\ Tail(<<NT, RESP>>) = <<RESP>>
    /\ <<>> \o <<RESP>> = <<RESP>> /\ <<NT>> \o <<RESP>> = <<NT, RESP>>
<1>1. ASSUME NEW a, NEW b
      PROVE  /\ Len(<<a>>) = 1 /\ <<a>>[1] = a /\ <<a>> # <<>> /\ Tail(<<a>>) = <<>>
             /\ Len(<<a, b>>) = 2 /\ <<a, b>>[1] = a /\ <<a, b>> # <<>>
             /\ Tail(<<a, b>>) = <<b>>
             /\ <<a>> \o <<b>> = <<a, b>> /\ <<>> \o <<a>> = <<a>>
    BY OneMessage, TwoMessages
<1>2. NT # RESP
    BY MessageIs
<1>3. /\ <<NT>> # <<>> /\ <<RESP>> # <<>> /\ <<NT, RESP>> # <<>>
      /\ <<NT>>[1] = NT /\ <<RESP>>[1] = RESP /\ <<NT, RESP>>[1] = NT
      /\ Tail(<<NT>>) = <<>> /\ Tail(<<RESP>>) = <<>> /\ Tail(<<NT, RESP>>) = <<RESP>>
      /\ <<>> \o <<RESP>> = <<RESP>> /\ <<NT>> \o <<RESP>> = <<NT, RESP>>
      /\ Len(<<NT>>) = 1 /\ Len(<<RESP>>) = 1 /\ Len(<<NT, RESP>>) = 2
    BY <1>1
<1>4. <<NT>> # <<RESP>> /\ <<NT>> # <<NT, RESP>> /\ <<RESP>> # <<NT, RESP>>
    BY <1>2, <1>3
<1> QED
    BY <1>2, <1>3, <1>4

\* A request for another stream is read.
LEMMA ChangeChecked ==
    ASSUME LinkAssumption, TypeOK, StreamOn, Mail, Change, CheckPending,
           toLib[1].type = "SPEECH_CONFIG_REQ"
    PROVE  Streaming'
<1> DEFINE s == Handled(toLib[1])
           a == modem.asked
<1>1. /\ s \in LibStates /\ Steps(s) /\ Len(toLib') = Len(toLib) - 1
      /\ \A k \in 1 .. Len(toLib') : toLib'[k] = toLib[k + 1]
      /\ UNCHANGED <<status, modem, call>> /\ Len(toLib) \in Nat \ {0}
    BY Checked
<1>2. AskedInLink /\ 1 \in 1 .. Len(toLib)
    BY <1>1 DEF AskedInLink
<1>3. a \in StreamRates /\ a # "none" /\ a # "off" /\ a \in Streams
    BY <1>2, LinkAssumption DEF StreamOn, Change, LinkAssumption, Streams
<1>4. ~ReplyInLink /\ ~lib.speech_config_resp_pend
    BY <1>2, <1>3 DEF Change
<1>5. toLib[1] = SpeechConfig(a)
    BY <1>2, MessageIs DEF Mail
<1>6. ASSUME NEW k \in 1 .. Len(toLib')
      PROVE  toLib'[k].type # "SPEECH_CONFIG_REQ" /\ toLib'[k] \in {UP, TM, SpeechConfig(a)}
    <2>1. k + 1 \in 1 .. Len(toLib) /\ k + 1 # 1 /\ toLib'[k] = toLib[k + 1]
        BY <1>1
    <2>2. toLib[k + 1].type # "SPEECH_CONFIG_REQ"
        BY <1>2, <2>1 DEF Mail, OneRequest
    <2> QED
        BY <2>1, <2>2 DEF Mail
<1>7. ~AskedInLink' /\ OneRequest'
    BY <1>6 DEF AskedInLink, OneRequest
<1>8. toModem \in {<<>>, <<NT>>}
    BY <1>4 DEF Mail, ReplyInLink
<1>9. /\ lib.proto_state \in Active /\ lib.io_errors = FALSE /\ call
      /\ lib.priv_state \in {"IN_SYNC", "TIMING", "CONFIG_ACT_PEND"}
    BY Fields DEF StreamOn, Running, TypeOK
<1>10. IF Unlocked(lib)
       THEN Replied(s, lib.proto_state, "CONFIG_ACT_PEND", lib.call_server_active,
                    SlotSize(a))
       ELSE Waits(s, lib, "CONFIG_ACT_PEND", SlotSize(a))
    BY <1>3, <1>5, CheckedStream
<1> HIDE DEF s
<1>11. CASE Unlocked(lib)
    <2>1. /\ Fresh(s, SlotSize(a)) /\ Running(s) /\ s.sent = <<RESP>>
          /\ s.call_server_active = lib.call_server_active /\ s.io_errors = FALSE
        BY <1>9, <1>10, <1>11, RepliedOn
    <2>2. toModem' \in {<<RESP>>, <<NT, RESP>>}
        <3>1. toModem' = toModem \o <<RESP>>
            BY <1>1, <2>1, Returned
        <3> QED
            BY <1>8, <3>1, MailToModem
    <2>3. /\ Running(lib') /\ lib'.call_server_active = status' /\ ~lib'.io_errors
          /\ Owed(lib') /\ ~lib'.speech_config_resp_pend /\ Sized(lib', a)
        BY <1>1, <2>1, Returned DEF Running, Fresh, Owed, Sized, StreamOn
    <2>4. StreamOn'
        BY <1>1, <2>3 DEF StreamOn, Running, Owed, Unlocked
    <2>5. Mail'
        BY <1>1, <1>6, <1>7, <2>2 DEF Mail
    <2>6. Change'
        BY <1>1, <1>3, <1>7, <2>2, <2>3 DEF Change, ReplyInLink, Sized
    <2> QED
        BY <2>4, <2>5, <2>6, StreamingIs
<1>12. CASE ~Unlocked(lib)
    <2>1. Waits(s, lib, "CONFIG_ACT_PEND", SlotSize(a))
        BY <1>10, <1>12
    <2>2. toModem' = toModem
        BY <1>1, <2>1, Unwritten DEF Waits
    <2>3. /\ Running(lib') /\ lib'.call_server_active = status' /\ ~lib'.io_errors
          /\ Owed(lib') /\ lib'.speech_config_resp_pend /\ lib'.slot_size = SlotSize(a)
        BY <1>1, <1>9, <1>12, <2>1, Returned
           DEF Running, Waits, Control, Owed, Unlocked, StreamOn
    <2>4. StreamOn'
        BY <1>1, <2>3 DEF StreamOn, Running, Owed, Unlocked
    <2>5. Mail'
        BY <1>1, <1>6, <1>7, <1>8, <2>2 DEF Mail
    <2>6. Change'
        BY <1>1, <1>3, <1>4, <1>7, <2>2, <2>3 DEF Change, ReplyInLink
    <2> QED
        BY <2>4, <2>5, <2>6, StreamingIs
<1> QED
    BY <1>11, <1>12

\* The modem reads what the library has to say about the stream.
LEMMA ChangeRead ==
    ASSUME LinkAssumption, TypeOK, StreamOn, Mail, Change, ModemReads
    PROVE  Streaming'
<1>1. /\ UNCHANGED <<lib, call, status>> /\ toModem' = Tail(toModem) /\ toModem # <<>>
    BY Read DEF ModemReads
<1>2. /\ NT.type = "NEW_TIMING_CONFIG_REQ" /\ RESP.type = "SPEECH_CONFIG_RESP" /\ RESP.on
      /\ UP.type # "SPEECH_CONFIG_REQ" /\ TM.type # "SPEECH_CONFIG_REQ"
      /\ SpeechConfig(modem.asked).type = "SPEECH_CONFIG_REQ"
    BY MessageIs
<1>3. modem.ssi /\ ~modem.resetting /\ modem.stream # "off" /\ modem.stream # "none"
      /\ modem.asked # "off"
    BY LinkAssumption DEF StreamOn, LinkAssumption
<1>4. ASSUME toLib' = toLib \o <<UP, TM>>,
             modem'.asked = modem.asked \/ ~AskedInLink
      PROVE  /\ AskedInLink' <=> AskedInLink
             /\ \A k \in 1 .. Len(toLib') :
                    toLib'[k] \in {UP, TM, SpeechConfig(modem'.asked)}
             /\ OneRequest'
    <2>1. /\ Len(toLib') = Len(toLib) + 2 /\ Len(toLib) \in Nat
          /\ \A k \in 1 .. Len(toLib) : toLib'[k] = toLib[k]
          /\ \A k \in 1 .. Len(toLib') : k \notin 1 .. Len(toLib) => toLib'[k] \in {UP, TM}
        BY <1>4, UplinkStarts
    <2>2. ASSUME NEW k \in 1 .. Len(toLib'), toLib'[k].type = "SPEECH_CONFIG_REQ"
          PROVE  k \in 1 .. Len(toLib) /\ toLib[k].type = "SPEECH_CONFIG_REQ"
        BY <1>2, <2>1, <2>2
    <2>3. ASSUME NEW k \in 1 .. Len(toLib), toLib[k].type = "SPEECH_CONFIG_REQ"
          PROVE  k \in 1 .. Len(toLib') /\ toLib'[k].type = "SPEECH_CONFIG_REQ"
        BY <2>1, <2>3
    <2>4. AskedInLink' <=> AskedInLink
        BY <2>2, <2>3 DEF AskedInLink
    <2>5. OneRequest'
        BY <2>2 DEF OneRequest, Mail
    <2>6. ASSUME NEW k \in 1 .. Len(toLib')
          PROVE  toLib'[k] \in {UP, TM, SpeechConfig(modem'.asked)}
        <3>1. CASE k \in 1 .. Len(toLib)
            <4>1. toLib'[k] = toLib[k] /\ toLib[k] \in {UP, TM, SpeechConfig(modem.asked)}
                BY <2>1, <3>1 DEF Mail
            <4>2. CASE modem'.asked = modem.asked
                BY <4>1, <4>2
            <4>3. CASE ~AskedInLink
                BY <1>2, <3>1, <4>1, <4>3 DEF AskedInLink
            <4> QED
                BY <1>4, <4>2, <4>3
        <3>2. CASE k \notin 1 .. Len(toLib)
            BY <2>1, <3>2
        <3> QED
            BY <3>1, <3>2
    <2> QED
        BY <2>4, <2>5, <2>6
<1>5. CASE toModem \in {<<NT>>, <<NT, RESP>>}
    <2>1. toModem[1].type = "NEW_TIMING_CONFIG_REQ"
        BY <1>2, <1>5, MailToModem
    <2>2. UNCHANGED modem /\ toLib' = toLib \o <<UP, TM>>
        BY <1>3, <2>1, ReadAnswers
    <2>3. toModem' \in {<<>>, <<RESP>>} /\ (ReplyInLink' <=> ReplyInLink)
        BY <1>1, <1>5, MailToModem DEF ReplyInLink
    <2>4. Mail'
        BY <1>4, <2>2, <2>3 DEF Mail
    <2>5. StreamOn'
        BY <1>1, <2>2 DEF StreamOn, Running, Owed, Unlocked
    <2>6. Change'
        BY <1>1, <1>4, <2>2, <2>3 DEF Change, Sized
    <2> QED
        BY <2>4, <2>5, <2>6, StreamingIs
<1>6. CASE toModem = <<RESP>>
    <2>1. toModem[1].type = "SPEECH_CONFIG_RESP" /\ toModem[1].on /\ ReplyInLink
        BY <1>2, <1>6, MailToModem DEF ReplyInLink
    <2>2. /\ modem.asked # "none" /\ modem.asked \in StreamRates
          /\ ~AskedInLink /\ ~lib.speech_config_resp_pend /\ Sized(lib, modem.asked)
        BY <2>1 DEF Change, StreamOn
    <2>3. /\ modem'.ssi = modem.ssi /\ modem'.asked = "none" /\ ~modem'.resetting
          /\ modem'.stream = modem.asked
          /\ toLib' = toLib \o IF "off" \in {modem.stream, modem'.stream} THEN <<>>
                               ELSE <<UP, TM>>
        BY <1>3, <2>1, <2>2, ReadAnswers
    <2>4. toLib' = toLib \o <<UP, TM>>
        BY <1>3, <2>3
    <2>5. toModem' = <<>> /\ ~ReplyInLink'
        BY <1>1, <1>6, MailToModem DEF ReplyInLink
    <2>6. Mail'
        BY <1>4, <2>2, <2>4, <2>5 DEF Mail
    <2>7. StreamOn'
        BY <1>1, <1>3, <2>2, <2>3 DEF StreamOn, Running, Owed, Unlocked
    <2>8. Change'
        BY <1>1, <1>4, <2>2, <2>3, <2>4, <2>5 DEF Change, Sized
    <2> QED
        BY <2>6, <2>7, <2>8, StreamingIs
<1> QED
    BY <1>1, <1>5, <1>6 DEF Mail

\* Nothing but the end of the call or an error takes the stream down.
LEMMA FromStreaming ==
    ASSUME LinkAssumption, TypeOK, Patient, Streaming, Ordinary
    PROVE  (Streaming \/ Ending \/ Failed)'
<1>1. StreamOn /\ Mail /\ Change
    BY StreamingIs
<1>2. /\ lib \in LibStates /\ call = TRUE /\ status \in BOOLEAN
      /\ lib.proto_state \in Active /\ lib.io_errors = FALSE /\ Owed(lib)
      /\ lib.call_server_active = status
    BY <1>1, Fields DEF TypeOK, StreamOn, Running
<1>3. /\ modem.ssi /\ modem.stream \in StreamRates /\ modem.stream # "off"
      /\ modem.stream # "none" /\ "none" \notin StreamRates /\ "off" \notin StreamRates
    BY <1>1, LinkAssumption DEF StreamOn, LinkAssumption
<1>4. ASSUME Running(lib'), lib'.call_server_active = status', ~lib'.io_errors,
             Owed(lib'), lib'.speech_config_resp_pend = lib.speech_config_resp_pend,
             lib'.slot_size = lib.slot_size, lib'.drv_size = lib.drv_size,
             UNCHANGED <<modem, toModem, toLib, call>>
      PROVE  Streaming'
    <2>1. StreamOn'
        BY <1>1, <1>4 DEF StreamOn, Running, Owed, Unlocked
    <2>2. Mail' /\ (AskedInLink' <=> AskedInLink) /\ (ReplyInLink' <=> ReplyInLink)
        BY <1>1, <1>4 DEF Mail, OneRequest, AskedInLink, ReplyInLink
    <2>3. Change'
        BY <1>1, <1>4, <2>2 DEF Change, Sized
    <2> QED
        BY <2>1, <2>2, <2>3, StreamingIs
<1>5. CASE CheckPending
    <2>1. /\ Len(toLib) \in Nat \ {0} /\ Len(toLib') = Len(toLib) - 1
          /\ \A k \in 1 .. Len(toLib') : toLib'[k] = toLib[k + 1]
          /\ UNCHANGED <<status, modem, call>>
        BY <1>5, Checked
    <2>2. toLib[1] \in {UP, TM, SpeechConfig(modem.asked)}
        BY <1>1, <2>1 DEF Mail
    <2>3. CASE toLib[1] \notin {UP, TM}
        <3>1. toLib[1].type = "SPEECH_CONFIG_REQ"
            BY <2>2, <2>3, MessageIs
        <3> QED
            BY <1>1, <1>5, <3>1, ChangeChecked
    <2>4. CASE toLib[1] \in {UP, TM}
        <3>1. Running(lib) /\ toLib[1].type # "SPEECH_CONFIG_REQ"
            BY <1>1, <2>4, MessageIs DEF StreamOn
        <3>2. /\ SameSlots(lib', lib) /\ Running(lib')
              /\ lib'.call_server_active = lib.call_server_active
              /\ lib'.io_errors = lib.io_errors
              /\ toModem' = toModem
            BY <1>5, <2>4, <3>1, CheckedUplink
        <3>3. Owed(lib')
            BY <1>2, <3>2 DEF SameSlots, Owed, Unlocked
        <3>4. StreamOn'
            BY <1>1, <2>1, <3>2, <3>3 DEF StreamOn, Running, Owed, Unlocked
        <3>5. ASSUME NEW k \in 1 .. Len(toLib')
              PROVE  k + 1 \in 1 .. Len(toLib) /\ toLib'[k] = toLib[k + 1]
            BY <2>1
        <3>6. ASSUME NEW k \in 1 .. Len(toLib), toLib[k].type = "SPEECH_CONFIG_REQ"
              PROVE  k - 1 \in 1 .. Len(toLib') /\ toLib'[k - 1] = toLib[k]
            <4>1. k # 1
                BY <3>1, <3>6
            <4>2. k - 1 \in 1 .. Len(toLib')
                BY <2>1, <4>1
            <4>3. toLib'[k - 1] = toLib[(k - 1) + 1] /\ (k - 1) + 1 = k
                BY <2>1, <4>2
            <4> QED
                BY <4>2, <4>3
        <3>7. AskedInLink' <=> AskedInLink
            BY <3>5, <3>6 DEF AskedInLink
        <3>8. OneRequest'
            <4> SUFFICES ASSUME NEW j \in 1 .. Len(toLib'), NEW k \in 1 .. Len(toLib'),
                                toLib'[j].type = "SPEECH_CONFIG_REQ",
                                toLib'[k].type = "SPEECH_CONFIG_REQ"
                         PROVE  j = k
                BY DEF OneRequest
            <4>1. j + 1 = k + 1
                BY <1>1, <3>5 DEF Mail, OneRequest
            <4> QED
                BY <4>1
        <3>9. Mail'
            BY <1>1, <2>1, <3>2, <3>5, <3>8 DEF Mail
        <3>10. Change'
            BY <1>1, <2>1, <3>2, <3>7 DEF Change, SameSlots, ReplyInLink, Sized
        <3> QED
            BY <3>4, <3>9, <3>10, StreamingIs
    <2> QED
        BY <2>3, <2>4
<1>6. CASE DataReceived
    <2>1. /\ SameControl(lib', lib) /\ SameSlots(lib', lib)
          /\ UNCHANGED <<status, modem, toModem, toLib, call>>
        BY <1>6, DataArrives
    <2>2. /\ Running(lib') /\ lib'.call_server_active = status' /\ ~lib'.io_errors
          /\ Owed(lib')
        BY <1>1, <2>1 DEF StreamOn, SameControl, Control, SameSlots, Running,
                          Owed, Unlocked
    <2> QED
        BY <1>4, <2>1, <2>2 DEF SameSlots
<1>7. CASE Relay
    <2> DEFINE s == cmtspeech_state_change_call_status(lib, TRUE, {})
    <2>1. /\ s \in LibStates /\ Steps(s) /\ UNCHANGED <<modem, toLib, call>>
          /\ status' = TRUE
        BY <1>2, <1>7, Relayed
    <2>2. /\ Control(s, lib.proto_state, lib.priv_state, TRUE, FALSE)
          /\ SameSlots(s, lib) /\ s.sent = <<>>
        BY <1>2, StatusEffects
    <2> HIDE DEF s
    <2>3. toModem' = toModem
        BY <2>1, <2>2, Unwritten
    <2>4. /\ Running(lib') /\ lib'.call_server_active = status' /\ ~lib'.io_errors
          /\ Owed(lib') /\ lib'.speech_config_resp_pend = lib.speech_config_resp_pend
          /\ lib'.slot_size = lib.slot_size /\ lib'.drv_size = lib.drv_size
        BY <1>1, <2>1, <2>2, Returned, ZenonT(30)
           DEF StreamOn, Control, SameSlots, Running, Owed, Unlocked
    <2> QED
        BY <1>4, <2>1, <2>3, <2>4
<1>8. CASE Acquire
    <2>1. /\ Relocked(lib', lib) /\ (Owed(lib) => Owed(lib'))
          /\ UNCHANGED <<status, modem, toModem, toLib, call>>
        BY <1>2, <1>8, Acquired DEF Active
    <2>2. /\ Running(lib') /\ lib'.call_server_active = status' /\ ~lib'.io_errors
          /\ Owed(lib')
        BY <1>1, <1>2, <2>1 DEF StreamOn, Relocked, SameControl, Control, Running
    <2> QED
        BY <1>4, <2>1, <2>2 DEF Relocked
<1>9. CASE Release
    <2>1. UNCHANGED <<status, modem, toLib, call>>
        BY <1>2, <1>9, GivenBack
    <2>2. PICK s \in LibStates : Steps(s) /\ Released(s, lib)
        BY <1>2, <1>9, GivenBack
    <2>3. CASE Relocked(s, lib) /\ (lib.speech_config_resp_pend => ~Unlocked(s))
        <3>1. toModem' = toModem
            BY <2>2, <2>3, Unwritten DEF Relocked
        <3>2. /\ Running(lib') /\ lib'.call_server_active = status' /\ ~lib'.io_errors
              /\ Owed(lib') /\ lib'.speech_config_resp_pend = lib.speech_config_resp_pend
              /\ lib'.slot_size = lib.slot_size /\ lib'.drv_size = lib.drv_size
            <4>1. /\ lib'.proto_state = lib.proto_state /\ lib'.priv_state = lib.priv_state
                  /\ lib'.call_server_active = lib.call_server_active
                  /\ lib'.io_errors = lib.io_errors
                BY <2>2, <2>3, Returned DEF Relocked, SameControl, Control
            <4>2. /\ lib'.speech_config_resp_pend = lib.speech_config_resp_pend
                  /\ lib'.slot_size = lib.slot_size /\ lib'.drv_size = lib.drv_size
                BY <2>2, <2>3, Returned DEF Relocked
            <4>3. Owed(lib')
                BY <2>2, <2>3, Returned DEF Relocked, Owed, Unlocked
            <4> QED
                BY <1>1, <2>1, <4>1, <4>2, <4>3 DEF StreamOn, Running
        <3> QED
            BY <1>4, <2>1, <3>1, <3>2
    <2>4. CASE /\ lib.speech_config_resp_pend
               /\ Replied(s, lib.proto_state, lib.priv_state, lib.call_server_active,
                          lib.slot_size)
        <3> DEFINE a == modem.asked
        <3>1. /\ a # "none" /\ a \in StreamRates /\ ~AskedInLink /\ ~ReplyInLink
              /\ lib.slot_size = SlotSize(a)
            BY <1>1, <2>4 DEF Change, StreamOn
        <3>2. toModem \in {<<>>, <<NT>>}
            BY <1>1, <3>1 DEF Mail, ReplyInLink
        <3>3. lib.priv_state \in {"IN_SYNC", "TIMING", "CONFIG_ACT_PEND"}
            BY <1>1 DEF StreamOn, Running
        <3>4. /\ Fresh(s, SlotSize(a)) /\ Running(s) /\ s.sent = <<RESP>>
              /\ s.call_server_active = lib.call_server_active /\ s.io_errors = FALSE
            <4>1. Replied(s, lib.proto_state, lib.priv_state, lib.call_server_active,
                          SlotSize(a))
                BY <2>4, <3>1
            <4> QED
                BY <1>2, <3>3, <4>1, RepliedOn
        <3>5. toModem' \in {<<RESP>>, <<NT, RESP>>}
            <4>1. toModem' = toModem \o <<RESP>>
                BY <2>2, <3>4, Returned
            <4> QED
                BY <3>2, <4>1, MailToModem
        <3>6. /\ Running(lib') /\ lib'.call_server_active = status' /\ ~lib'.io_errors
              /\ Owed(lib') /\ ~lib'.speech_config_resp_pend /\ Sized(lib', a)
            BY <1>2, <2>1, <2>2, <3>4, Returned DEF Running, Fresh, Owed, Sized
        <3>7. StreamOn'
            BY <1>1, <2>1, <3>6 DEF StreamOn, Running, Owed, Unlocked
        <3>8. Mail' /\ ~AskedInLink'
            BY <1>1, <2>1, <3>1, <3>5 DEF Mail, OneRequest, AskedInLink
        <3>9. Change'
            BY <2>1, <3>1, <3>5, <3>6, <3>8 DEF Change, ReplyInLink, Sized
        <3> QED
            BY <3>7, <3>8, <3>9, StreamingIs
    <2> QED
        BY <2>2, <2>3, <2>4 DEF Released
<1>10. CASE ModemReads
    BY <1>1, <1>10, ChangeRead
<1>11. CASE StartStream \/ ChangeStream \/ StopStream
    <2>1. modem.asked = "none" /\ ~StopStream
        BY <1>2, <1>11, Asked
    <2>2. PICK r \in StreamRates :
            /\ modem'.ssi /\ modem'.stream = modem.stream
            /\ modem'.asked = r /\ ~modem'.resetting
            /\ toLib' = toLib \o <<SpeechConfig(r)>>
        BY <1>11, <2>1, Asked
    <2>3. UNCHANGED <<lib, status, toModem, call>>
        BY <1>11, Asked
    <2>4. /\ ~AskedInLink /\ ~ReplyInLink /\ ~lib.speech_config_resp_pend
          /\ Sized(lib, modem.stream)
        BY <1>1, <2>1 DEF Change
    <2> DEFINE m == SpeechConfig(r)
    <2>5. m \in ModemMsgs /\ m.type = "SPEECH_CONFIG_REQ"
        BY MessageTyped, MessageIs
    <2> HIDE DEF m
    <2>6. /\ Len(toLib) \in Nat /\ Len(toLib') = Len(toLib) + 1
          /\ \A k \in 1 .. Len(toLib) : toLib'[k] = toLib[k]
          /\ toLib'[Len(toLib) + 1] = m
        BY <2>2, <2>5, OneSent DEF m
    <2>7. ASSUME NEW k \in 1 .. Len(toLib')
          PROVE  /\ toLib'[k] \in {UP, TM, m}
                 /\ toLib'[k].type = "SPEECH_CONFIG_REQ" => k = Len(toLib) + 1
        <3>1. CASE k \in 1 .. Len(toLib)
            <4>1. toLib'[k] = toLib[k] /\ toLib[k].type # "SPEECH_CONFIG_REQ"
                BY <2>4, <2>6, <3>1 DEF AskedInLink
            <4>2. toLib[k] \in {UP, TM, SpeechConfig(modem.asked)}
                BY <1>1, <3>1 DEF Mail
            <4> QED
                BY <4>1, <4>2, MessageIs
        <3>2. CASE k \notin 1 .. Len(toLib)
            BY <2>6, <3>2
        <3> QED
            BY <3>1, <3>2
    <2>8. OneRequest' /\ AskedInLink' /\ ~ReplyInLink'
        BY <2>3, <2>4, <2>5, <2>6, <2>7 DEF OneRequest, AskedInLink, ReplyInLink
    <2>9. Mail'
        BY <1>1, <2>2, <2>3, <2>7, <2>8 DEF Mail, m
    <2>10. StreamOn'
        BY <1>1, <2>2, <2>3 DEF StreamOn, Running, Owed, Unlocked
    <2>11. Change'
        BY <1>3, <2>2, <2>3, <2>4, <2>8 DEF Change, Sized
    <2> QED
        BY <2>9, <2>10, <2>11, StreamingIs
<1>12. CASE CallChanges
    <2>1. Settled /\ call' = FALSE /\ UNCHANGED <<lib, status, modem, toModem, toLib>>
        BY <1>2, <1>12 DEF CallChanges, application
    <2>2. toModem' = <<>> /\ toLib' = <<>> /\ modem.asked = "none" /\ ~modem.resetting
        BY <2>1 DEF Settled, Quiet
    <2>3. PICK r \in StreamRates : r = modem.stream
        BY <1>3
    <2>4. ModemIs(TRUE, r, "none")' /\ Queues(<<>>, <<>>)'
        BY <1>3, <2>1, <2>2, <2>3 DEF ModemIs, Queues
    <2>5. /\ Running(lib') /\ ~lib'.io_errors /\ ~lib'.speech_config_resp_pend
          /\ Sized(lib', r) /\ Owed(lib') /\ lib'.proto_state \in Active
          /\ lib'.call_server_active = status'
        BY <1>1, <1>2, <2>1, <2>2, <2>3
           DEF StreamOn, Change, Running, Sized, Owed, Unlocked
    <2> QED
        BY <2>1, <2>4, <2>5 DEF Ending, Running, Sized, Owed, Unlocked
<1>13. CASE Error
    BY <1>13, ErrorFails
<1> QED
    BY <1>5, <1>6, <1>7, <1>8, <1>9, <1>10, <1>11, <1>12, <1>13 DEF Ordinary

-----------------------------------------------------------------------------
(* What the phases say of a quiet link and of the messages to the modem    *)

\* The link is quiet before and after a call, and while nothing changes.
LEMMA WhenQuiet ==
    ASSUME LinkAssumption, Phases, Quiet
    PROVE  /\ modem.asked # "none" <=> lib.speech_config_resp_pend
           /\ modem.asked = "none" =>
                /\ modem.ssi <=> lib.proto_state \in Enabled
                /\ modem.stream # "off" <=> lib.proto_state \in Active
                /\ lib.drv_size = IF modem.stream = "off" THEN 0
                                  ELSE SlotSize(modem.stream)
<1>1. toModem = <<>> /\ toLib = <<>> /\ ~modem.resetting /\ status = call
    BY DEF Quiet
<1>2. \A a, b : <<a>> # <<>> /\ <<a, b>> # <<>>
    BY OneMessage, TwoMessages
<1>3. "off" \notin StreamRates /\ "none" \notin StreamRates
    BY LinkAssumption DEF LinkAssumption
<1>4. ~Resetting /\ ~Failed /\ ~Starting
    BY <1>1, <1>2 DEF Resetting, Failed, Starting, Queues
<1>5. ~Closing
    BY <1>1, <1>2 DEF Closing, Queues
<1>6. CASE Down \/ Calling
    <2>1. Idling /\ In(lib, "DISCONNECTED", "IN_SYNC") /\ Fresh(lib, 0)
        BY <1>1, <1>6 DEF Down, Calling, Reborn
    <2> QED
        BY <2>1 DEF Idling, ModemIs, In, Fresh, Enabled, Active
<1>7. CASE Connecting
    <2>1. ModemIs(TRUE, "off", "none") /\ In(lib, "CONNECTED", "IN_SYNC") /\ Fresh(lib, 0)
        BY <1>1, <1>2, <1>7 DEF Connecting, Queues
    <2> QED
        BY <2>1 DEF ModemIs, In, Fresh, Enabled, Active
<1>8. CASE Streaming
    <2>1. ~AskedInLink /\ ~ReplyInLink
        BY <1>1, <1>2 DEF AskedInLink, ReplyInLink
    <2>2. /\ modem.ssi /\ modem.stream # "off" /\ lib.proto_state \in Active
        BY <1>3, <1>8 DEF Streaming, Running
    <2>3. modem.asked # "none" => lib.speech_config_resp_pend
        BY <1>8, <2>1 DEF Streaming
    <2>4. modem.asked = "none" =>
            ~lib.speech_config_resp_pend /\ Sized(lib, modem.stream)
        BY <1>8 DEF Streaming
    <2> QED
        BY <2>2, <2>3, <2>4 DEF Enabled, Sized
<1>9. CASE Ending
    <2>1. lib.proto_state \in Active
        BY <1>9 DEF Ending
    <2>2. PICK r \in StreamRates :
            \/ ModemIs(TRUE, r, "none") /\ ~lib.speech_config_resp_pend /\ Sized(lib, r)
            \/ ModemIs(TRUE, r, "off") /\ lib.speech_config_resp_pend
        BY <1>1, <1>2, <1>9 DEF Ending, Queues
    <2> QED
        BY <1>3, <2>1, <2>2 DEF ModemIs, Enabled, Sized
<1> QED
    BY <1>4, <1>5, <1>6, <1>7, <1>8, <1>9 DEF Phases

\* The library has a user of the wakeline while it waits for an answer.
LEMMA WhileAsking ==
    ASSUME TypeOK, Phases, ~modem.resetting,
           NEW k \in 1 .. Len(toModem), toModem[k].type \in Requests
    PROVE  Engaged(lib) \/ lib.proto_state = "INVALID"
<1>1. toModem # <<>>
    BY DEF TypeOK
<1>2. ~Resetting /\ ~Calling /\ ~Ending
    BY <1>1 DEF Resetting, Reborn, Calling, Ending, Queues
<1>3. ~Down
    BY DEF Down, Harmless, Requests
<1>4. CASE Failed
    BY <1>4 DEF Failed
<1>5. CASE Connecting
    BY <1>1, <1>5 DEF Connecting, Queues, In, Engaged
<1>6. CASE Starting \/ Streaming
    BY <1>6 DEF Starting, Streaming, Running, In, Engaged, Enabled, Active
<1>7. CASE Closing
    BY <1>7 DEF Closing, Engaged, Enabled
<1> QED
    BY <1>2, <1>3, <1>4, <1>5, <1>6, <1>7 DEF Phases

-----------------------------------------------------------------------------
(* The theorems about the link                                             *)

LinkInv == Agrees(lib) /\ Recorded(lib) /\ Phases

\* While calls and streams change on a quiet link only, the connection is
\* always in one of its phases, and the library knows who needs the wakeline.
THEOREM LinkInvariant == ASSUME Patient PROVE Spec => []LinkInv
<1>1. Init => LinkInv
    <2> SUFFICES ASSUME Init PROVE LinkInv
        OBVIOUS
    <2>1. /\ lib = Opened /\ toModem = <<>> /\ toLib = <<>> /\ call = FALSE
          /\ modem = Idle
        BY DEF Init
    <2>2. Idling
        BY <2>1 DEF Idling, ModemIs, Idle
    <2>3. In(lib, "DISCONNECTED", "IN_SYNC") /\ Fresh(lib, 0)
        BY <2>1 DEF Opened, In, Fresh
    <2>4. Down
        BY <2>1, <2>2, <2>3 DEF Down
    <2>5. Agrees(lib) /\ Recorded(lib)
        BY <2>1 DEF Opened, Agrees, Recorded, Engaged, Enabled, Active, LineFollowsUsers
    <2> QED
        BY <2>4, <2>5 DEF LinkInv, Phases
<1>2. TypeOK /\ LinkInv /\ [Next]_vars => LinkInv'
    <2> SUFFICES ASSUME TypeOK, LinkInv, [Next]_vars PROVE LinkInv'
        OBVIOUS
    <2>1. LinkAssumption /\ Patient /\ Phases /\ Agrees(lib) /\ Recorded(lib)
        BY LinkAssumption DEF LinkInv
    <2>2. CASE UNCHANGED vars
        <3>1. lib' = lib /\ UNCHANGED <<status, modem, toModem, toLib, call>>
            BY <2>2 DEF vars
        <3>2. (Resetting => Resetting') /\ (Down => Down') /\ (Failed => Failed')
            BY <3>1 DEF Resetting, Down, Failed, Tidy, Reborn, Idling, ModemIs
        <3>3. (Calling => Calling') /\ (Connecting => Connecting')
              /\ (Starting => Starting')
            BY <3>1 DEF Calling, Connecting, Starting, Idling, ModemIs, Queues
        <3>4. Streaming => Streaming'
            BY <3>1 DEF Streaming, AskedInLink, ReplyInLink
        <3>5. (Ending => Ending') /\ (Closing => Closing')
            BY <3>1 DEF Ending, Closing, Idling, ModemIs, Queues
        <3> QED
            BY <2>1, <3>1, <3>2, <3>3, <3>4, <3>5 DEF LinkInv, Phases
    <2>3. CASE Next
        <3>1. Phases'
            <4>1. CASE ModemReset
                BY <2>1, <4>1, ModemResets DEF Phases
            <4>2. CASE Ordinary
                <5>1. CASE Resetting \/ Down \/ Failed
                    BY <2>1, <4>2, <5>1, FromResetting, FromDown, FromFailed DEF Phases
                <5>2. CASE Calling \/ Connecting \/ Starting
                    BY <2>1, <4>2, <5>2, FromCalling, FromConnecting, FromStarting
                       DEF Phases
                <5>3. CASE Streaming \/ Ending \/ Closing
                    BY <2>1, <4>2, <5>3, FromStreaming, FromEnding, FromClosing
                       DEF Phases
                <5> QED
                    BY <2>1, <5>1, <5>2, <5>3 DEF Phases
            <4> QED
                BY <2>3, <4>1, <4>2 DEF Next, Ordinary
        <3>2. CASE CheckPending \/ DataReceived \/ Relay \/ Acquire \/ Release \/ Error
            <4>1. PICK s \in LibStates : Steps(s) /\ Keeps(s, lib, {})
                BY <3>2, LibrarySteps
            <4>2. Agrees(s) /\ Recorded(s)
                BY <2>1, <4>1 DEF Keeps, Dependable
            <4>3. Same(lib', s)
                BY <4>1, Returned
            <4>4. Agrees(lib') /\ Recorded(lib')
                BY <4>2, <4>3 DEF Same, Agrees, Recorded, Engaged, LineFollowsUsers
            <4> QED
                BY <3>1, <4>4 DEF LinkInv, Agrees, Recorded, Engaged, LineFollowsUsers
        <3>3. CASE ~(CheckPending \/ DataReceived \/ Relay \/ Acquire \/ Release \/ Error)
            <4>1. lib' = lib
                BY <2>3, <3>3 DEF Next, ModemReads, StartStream, ChangeStream, StopStream,
                                  Asks, ModemReset, CallChanges
            <4> QED
                BY <2>1, <3>1, <4>1
                   DEF LinkInv, Agrees, Recorded, Engaged, LineFollowsUsers
        <3> QED
            BY <3>2, <3>3
    <2> QED
        BY <2>2, <2>3
<1> QED
    BY <1>1, <1>2, LinkTypeCorrect, PTL DEF Spec

\* The two ends agree on the connection and on the stream when the link is
\* quiet, whatever was lost to resets of either side before.
THEOREM EndsAlwaysAgree == ASSUME Patient PROVE Spec => []EndsAgree
<1>1. LinkInv => EndsAgree
    BY LinkAssumption, WhenQuiet DEF LinkInv, EndsAgree, Settled
<1> QED
    BY <1>1, LinkInvariant, PTL

\* The modem can answer whatever it is asked.
THEOREM AnswersGetThrough == ASSUME Patient PROVE Spec => []AnswerGetsThrough
<1>1. TypeOK /\ LinkInv => AnswerGetsThrough
    <2> SUFFICES ASSUME TypeOK, LinkInv, NEW k \in 1 .. Len(toModem),
                        toModem[k].type \in Requests, ~modem.resetting
                 PROVE  lib.line
        BY DEF AnswerGetsThrough
    <2>1. Engaged(lib) \/ lib.proto_state = "INVALID"
        BY WhileAsking DEF LinkInv
    <2> QED
        BY <2>1 DEF LinkInv, Recorded, LineFollowsUsers
<1> QED
    BY <1>1, LinkInvariant, LinkTypeCorrect, PTL

\* A reply that had to wait for buffers is neither forgotten nor sent twice.
THEOREM RepliesAreOwed == ASSUME Patient PROVE Spec => []ReplyOwed
<1>1. LinkInv => ReplyOwed
    BY LinkAssumption, RepliesOwed, WhenQuiet DEF LinkInv, ReplyOwed, Owed
<1> QED
    BY <1>1, LinkInvariant, PTL

\* The driver's slots have the size of the stream both sides agreed on.
THEOREM DriverAlwaysMatches == ASSUME Patient PROVE Spec => []DriverMatchesStream
<1>1. LinkInv => DriverMatchesStream
    BY LinkAssumption, WhenQuiet DEF LinkInv, DriverMatchesStream, Settled
<1> QED
    BY <1>1, LinkInvariant, PTL
=============================================================================
