----------------------------- MODULE DummyProofs -----------------------------
(***************************************************************************)
(* The dummy backend, for every number of slots, calls and frames the      *)
(* application may be late.  Two inductive invariants: FrameInv is about   *)
(* the downlink slots and the buffer the application holds, Phases about   *)
(* what is on its way between the two threads in each phase of a call.     *)
(***************************************************************************)
EXTENDS DummyBackend, SpeechLemmas, SequenceTheorems, TLAPS

-----------------------------------------------------------------------------
(* Types                                                                   *)

\* What the library makes of a message from the worker is a state.
LEMMA HandledTyped ==
    ASSUME NEW s \in LibStates, NEW m \in ControlMsgs
    PROVE  Handled(s, m) \in LibStates
<1> DEFINE e == Entered(s)
<1>1. /\ {"speech_config_req", "ssi_config_resp"} \subseteq Assertions
      /\ {"CONFIG_ACT_PEND", "CONFIG_DEACT_PEND"} \subseteq Privs
      /\ "INVALID" \in Protos /\ "inorder" \in SampleLayouts
    BY DEF Assertions, Privs, Protos, SampleLayouts
<1>2. e \in LibStates
    BY ProtocolTyped
<1> HIDE DEF e
<1>3. ASSUME NEW on \in BOOLEAN PROVE SpeechConfigured(s, on) \in LibStates
    <2> DEFINE a == Assert(e, "speech_config_req", s.proto_state \in Enabled)
               priv == IF on THEN "CONFIG_ACT_PEND" ELSE "CONFIG_DEACT_PEND"
    <2>1. a \in LibStates
        BY <1>1, <1>2, AssertTyped
    <2>2. priv \in Privs
        BY <1>1
    <2> HIDE DEF a, priv
    <2>3. PrivChangeTo(a, priv) \in LibStates
        BY <1>1, <2>1, <2>2, ProtocolTyped
    <2>4. PostSpeechConfigResp(PrivChangeTo(a, priv), TRUE, {}) \in LibStates
        BY <2>3, PostCommandTyped
    <2> QED
        BY <2>4 DEF SpeechConfigured, a, priv, e
<1>4. /\ HandleUplinkConfigNtf(s) \in LibStates
      /\ HandleTimingConfigNtf(s) \in LibStates
    BY HandlersTyped
<1>5. SsiConfigAnswered(Assert(e, "ssi_config_resp",
                            s.proto_state \in {"CONNECTED", "DISCONNECTED"}),
                        TRUE, "inorder", {}) \in LibStates
    <2>1. Assert(e, "ssi_config_resp",
                 s.proto_state \in {"CONNECTED", "DISCONNECTED"}) \in LibStates
        BY <1>1, <1>2, AssertTyped
    <2> QED
        BY <1>1, <2>1, SsiConfigTyped
<1>6. /\ m.on \in BOOLEAN
      /\ m.type \in {"SPEECH_CONFIG_REQ", "UPLINK_CONFIG_NTF",
                     "TIMING_CONFIG_NTF", "SSI_CONFIG_RESP"}
    BY DEF ControlMsgs
<1>7. SpeechConfigured(s, m.on) \in LibStates
    BY <1>3, <1>6
<1> QED
    BY <1>4, <1>5, <1>6, <1>7 DEF Handled, e

\* What a call writes and changes has the types of the state.
LEMMA UpdatesTyped ==
    ASSUME TypeOK, NEW t \in LibStates, Updates(t)
    PROVE  lib' \in LibStates /\ toWorker' \in Seq(WorkerMsgs)
<1>1. /\ <<>> \in Seq(OutMsgs) /\ {} \in SUBSET WakelineUsers
      /\ NoEvent \in [type : EventTypes, prev : Protos, state : Protos]
    BY DEF NoEvent, EventTypes, Protos
<1>2. [t EXCEPT !.sent = <<>>, !.event = NoEvent,
                !.wakeline_users = {}, !.line = FALSE] \in LibStates
    BY <1>1, Zenon DEF LibStates
<1>3. t.sent \in Seq(WorkerMsgs)
    <2>1. t.sent \in Seq(OutMsgs)
        BY Fields
    <2>2. ASSUME NEW m \in OutMsgs PROVE m \in WorkerMsgs
        BY DEF OutMsgs, WorkerMsgs
    <2> QED
        BY <2>1, <2>2
<1> QED
    BY <1>2, <1>3 DEF Updates, TypeOK

\* What the application's calls leave to do.
LEMMA RestTyped ==
    /\ \A s, t, m : AfterEvent(s, t, m) \in Seq(Statements)
    /\ \A s, on : AfterCallStatus(s, on) \in Seq(Statements)
    /\ CloseSteps \in Seq(Statements)
<1>1. ASSUME NEW x \in Statements, NEW y \in Statements, NEW z \in Statements
      PROVE  /\ <<x>> \in Seq(Statements) /\ <<x, y>> \in Seq(Statements)
             /\ <<x, y, z>> \in Seq(Statements)
    OBVIOUS
<1>2. /\ {"emit(0)", "emit(1)", "dl_active = true", "dl_active = false",
          "MEDIA_FLOWING", "INITIALIZED", "TERMINATING", "THREAD_EXIT_REQ",
          "exit message", "join"} \subseteq Statements
      /\ <<>> \in Seq(Statements)
    BY DEF Statements, States
<1>3. ASSUME NEW s, NEW t, NEW m PROVE AfterEvent(s, t, m) \in Seq(Statements)
    <2> DEFINE first == CASE m.type = "SSI_CONFIG_RESP" /\ t.proto_state = "CONNECTED"
                                -> <<"emit(1)">>
                          [] m.type = "SPEECH_CONFIG_REQ" -> <<"dl_active = true">>
                          [] OTHER -> <<>>
               then == IF s.proto_state = "DISCONNECTED" /\ t.proto_state = "CONNECTED"
                       THEN <<"MEDIA_FLOWING">> ELSE <<>>
    <2>1. first \in Seq(Statements) /\ then \in Seq(Statements)
        <3>1. /\ <<"emit(1)">> \in Seq(Statements)
              /\ <<"dl_active = true">> \in Seq(Statements)
              /\ <<"MEDIA_FLOWING">> \in Seq(Statements)
            BY <1>1, <1>2
        <3> QED
            BY <1>2, <3>1, Zenon
    <2> HIDE DEF first, then
    <2>2. first \o then \in Seq(Statements)
        BY <2>1
    <2> QED
        BY <2>2 DEF AfterEvent, first, then
<1>4. ASSUME NEW s, NEW on PROVE AfterCallStatus(s, on) \in Seq(Statements)
    <2> DEFINE first == <<"dl_active = false", "TERMINATING">>
               then == IF s.proto_state \in Active THEN <<"emit(0)">> ELSE <<>>
    <2>1. /\ first \in Seq(Statements) /\ then \in Seq(Statements)
          /\ <<"INITIALIZED">> \in Seq(Statements)
        <3>1. /\ first \in Seq(Statements) /\ <<"emit(0)">> \in Seq(Statements)
              /\ <<"INITIALIZED">> \in Seq(Statements)
            BY <1>1, <1>2
        <3> QED
            BY <1>2, <3>1, Zenon
    <2> HIDE DEF first, then
    <2>2. first \o then \in Seq(Statements)
        BY <2>1
    <2> QED
        BY <2>1, <2>2 DEF AfterCallStatus, first, then
<1>5. CloseSteps \in Seq(Statements)
    BY <1>1, <1>2, Zenon DEF CloseSteps
<1> QED
    BY <1>3, <1>4, <1>5

\* The state cmtspeech_open and the start of the worker leave.
LEMMA TypeInit == Init => TypeOK
<1> SUFFICES ASSUME Init PROVE TypeOK
    OBVIOUS
<1>1. lib \in LibStates
    BY OpenedTyped DEF Init
<1>2. worker \in Workers
    BY DEF Init, Workers, States
<1>3. /\ dl_buf_idx \in DLIndices /\ frames \in [DLIndices -> BOOLEAN]
      /\ held \in [slot : DLIndices \cup {-1}, whole : BOOLEAN,
                   age : 0 .. BufferSlots]
      /\ calls \in 0 .. MaxCalls
    BY DummyAssumption DEF Init, DLIndices, NoBuffer
<1>4. /\ toWorker \in Seq(WorkerMsgs) /\ rest \in Seq(Statements)
      /\ toApp \in Seq(ControlMsgs \cup {Announcement})
      /\ pubbuf \in Seq(ControlMsgs) /\ Len(pubbuf) < MsgSlots
    BY DummyAssumption DEF Init
<1> QED
    BY <1>1, <1>2, <1>3, <1>4 DEF Init, TypeOK, States

\* The next slot: the one after the current one, round the ring.
LEMMA NextSlot ==
    ASSUME NEW i \in DLIndices
    PROVE  /\ NextIndex(i) \in DLIndices
           /\ NextIndex(i) = IF i = BufferSlots - 1 THEN 0 ELSE i + 1
<1>1. CASE i = BufferSlots - 1
    <2>1. NextIndex(i) = BufferSlots % BufferSlots
        BY <1>1, DummyAssumption DEF NextIndex, DLIndices
    <2> QED
        BY <1>1, <2>1, DummyAssumption DEF DLIndices
<1>2. CASE i # BufferSlots - 1
    <2>1. i + 1 \in 0 .. BufferSlots - 1
        BY <1>2, DummyAssumption DEF DLIndices
    <2>2. (i + 1) % BufferSlots = i + 1
        BY <2>1, DummyAssumption
    <2> QED
        BY <1>2, <2>1, <2>2 DEF NextIndex, DLIndices
<1> QED
    BY <1>1, <1>2

\* The statements and replies the worker's answer to a message consists of.
ReplySteps == {"SSI_CONFIG_RESP", "UPLINK_CONFIG_NTF", "TIMING_CONFIG_NTF",
               "IDLE"}

\* handle_inbound_control_message does nothing else.
LEMMA RepliesTyped ==
    ASSUME NEW m
    PROVE  Replies(m) \in Seq(ReplySteps)
<1>1. ASSUME NEW x \in ReplySteps, NEW y \in ReplySteps
      PROVE  /\ <<x>> \in Seq(ReplySteps) /\ <<x, y>> \in Seq(ReplySteps)
    OBVIOUS
<1>2. /\ "SSI_CONFIG_RESP" \in ReplySteps /\ "UPLINK_CONFIG_NTF" \in ReplySteps
      /\ "TIMING_CONFIG_NTF" \in ReplySteps /\ "IDLE" \in ReplySteps
      /\ <<>> \in Seq(ReplySteps)
    BY DEF ReplySteps
<1> DEFINE idle == IF m.on THEN <<>> ELSE <<"IDLE">>
           ntf == IF state = "MEDIA_FLOWING" THEN <<"UPLINK_CONFIG_NTF">> ELSE <<>>
           resp == <<"SSI_CONFIG_RESP">>
           timing == <<"TIMING_CONFIG_NTF">>
<1>3. <<"IDLE">> \in Seq(ReplySteps) /\ <<"UPLINK_CONFIG_NTF">> \in Seq(ReplySteps)
      /\ resp \in Seq(ReplySteps) /\ timing \in Seq(ReplySteps)
    BY <1>1, <1>2
<1>4. idle \in Seq(ReplySteps) /\ ntf \in Seq(ReplySteps)
    BY <1>2, <1>3, Zenon
<1> HIDE DEF idle, ntf, resp, timing
<1>5. resp \o idle \in Seq(ReplySteps) /\ ntf \o timing \in Seq(ReplySteps)
    BY <1>3, <1>4
<1> QED
    BY <1>2, <1>5, Zenon DEF Replies, idle, ntf, resp, timing

\* A pipe that gets another message is still one of messages.
LEMMA Appended ==
    ASSUME NEW S, NEW q \in Seq(S), NEW m \in S
    PROVE  Append(q, m) \in Seq(S)
OBVIOUS

\* Every step of one of the two threads keeps the types.
LEMMA TypeNext == TypeOK /\ [Next]_vars => TypeOK'
<1> SUFFICES ASSUME TypeOK, [Next]_vars PROVE TypeOK'
    OBVIOUS
<1> USE DEF app, shared, frame
<1>1. CASE CheckPending
    <2> DEFINE m == Head(toApp)
    <2>1. /\ m \in ControlMsgs \cup {Announcement}
          /\ toApp' \in Seq(ControlMsgs \cup {Announcement})
        BY <1>1 DEF CheckPending, TypeOK
    <2>2. pubbuf' \in Seq(ControlMsgs) /\ Len(pubbuf') < MsgSlots /\ told' \in BOOLEAN
        <3>1. CASE m = Announcement
            BY <1>1, <3>1 DEF CheckPending, TypeOK
        <3>2. CASE m # Announcement
            <4>1. m \in ControlMsgs
                BY <2>1, <3>2
            <4>2. pubbuf' = Append(pubbuf, m) /\ told' = told
                BY <1>1, <3>2 DEF CheckPending
            <4> QED
                BY <1>1, <4>1, <4>2, DummyAssumption DEF CheckPending, TypeOK
        <3> QED
            BY <3>1, <3>2
    <2> QED
        BY <1>1, <2>1, <2>2 DEF CheckPending, TypeOK
<1>2. CASE ReadEvent
    <2> DEFINE t == Handled(lib, Head(pubbuf))
    <2>1. Head(pubbuf) \in ControlMsgs /\ pubbuf' \in Seq(ControlMsgs)
          /\ Len(pubbuf') < MsgSlots
        BY <1>2, DummyAssumption DEF ReadEvent, TypeOK
    <2>2. t \in LibStates
        BY <2>1, HandledTyped DEF TypeOK
    <2>3. Updates(t) /\ rest' = AfterEvent(lib, t, Head(pubbuf))
        BY <1>2 DEF ReadEvent
    <2> HIDE DEF t
    <2>4. lib' \in LibStates /\ toWorker' \in Seq(WorkerMsgs)
        BY <2>2, <2>3, UpdatesTyped
    <2>5. rest' \in Seq(Statements)
        BY <2>3, RestTyped
    <2> QED
        BY <1>2, <2>1, <2>4, <2>5 DEF ReadEvent, TypeOK
<1>3. CASE CallStatus
    <2> DEFINE on == ~call_server_status
               t == cmtspeech_state_change_call_status(lib, on, {})
    <2>1. on \in BOOLEAN /\ call_server_status' = on
        BY <1>3 DEF CallStatus
    <2>2. t \in LibStates
        BY <2>1, CallsTyped DEF TypeOK
    <2>3. Updates(t) /\ rest' = AfterCallStatus(t, on)
        BY <1>3 DEF CallStatus
    <2>4. calls' \in 0 .. MaxCalls
        BY <1>3, DummyAssumption DEF CallStatus, TypeOK
    <2> HIDE DEF t, on
    <2>5. lib' \in LibStates /\ toWorker' \in Seq(WorkerMsgs)
        BY <2>2, <2>3, UpdatesTyped
    <2>6. rest' \in Seq(Statements)
        BY <2>3, RestTyped
    <2> QED
        BY <1>3, <2>1, <2>4, <2>5, <2>6 DEF CallStatus, TypeOK
<1>4. CASE Acquire
    <2>1. held' \in [slot : DLIndices \cup {-1}, whole : BOOLEAN,
                     age : 0 .. BufferSlots]
        BY <1>4, DummyAssumption DEF Acquire, TypeOK
    <2> QED
        BY <1>4, <2>1 DEF Acquire, TypeOK
<1>5. CASE Release \/ Ignore
    <2>1. NoBuffer \in [slot : DLIndices \cup {-1}, whole : BOOLEAN,
                        age : 0 .. BufferSlots]
        BY DummyAssumption DEF NoBuffer
    <2> QED
        BY <1>5, <2>1 DEF Release, Ignore, TypeOK
<1>6. CASE Close
    BY <1>6, RestTyped DEF Close, TypeOK
<1>7. CASE AppStep
    <2>1. /\ rest' \in Seq(Statements)
          /\ worker' = worker /\ lib' = lib /\ pubbuf' = pubbuf
        <3>1. ASSUME NEW x, Executes(x)
              PROVE  /\ rest' \in Seq(Statements)
                     /\ worker' = worker /\ lib' = lib /\ pubbuf' = pubbuf
            BY <3>1 DEF Executes, TypeOK
        <3>2. CASE Join
            <4>1. "freed" \in Statements
                BY DEF Statements
            <4> QED
                BY <3>2, <4>1 DEF Join, TypeOK
        <3> QED
            BY <1>7, <3>1, <3>2 DEF AppStep, StoreState, StoreDlActive, Emit,
                    RequestExit, WriteExitMessage
    <2>2. UNCHANGED <<app, frame>>
        BY <1>7 DEF AppStep, StoreState, StoreDlActive, Emit, RequestExit,
                WriteExitMessage, Executes, Join
    <2>3. /\ state' \in States /\ dl_active' \in BOOLEAN
          /\ thread_running' \in {"STARTED", "RUNNING", "EXIT_REQ", "TERMINATED"}
        BY <1>7 DEF AppStep, StoreState, StoreDlActive, Emit, RequestExit,
                WriteExitMessage, Join, TypeOK
    <2>4. toWorker' \in Seq(WorkerMsgs)
        <3>1. OutMsg("EXIT_REQUEST") \in WorkerMsgs
            BY DEF OutMsg, WorkerMsgs
        <3>2. Append(toWorker, OutMsg("EXIT_REQUEST")) \in Seq(WorkerMsgs)
            BY <3>1 DEF TypeOK
        <3>3. \/ toWorker' = toWorker
              \/ toWorker' = Append(toWorker, OutMsg("EXIT_REQUEST"))
            BY <1>7, Zenon DEF AppStep, StoreState, StoreDlActive, Emit,
                    RequestExit, WriteExitMessage, Join
        <3> QED
            BY <3>2, <3>3 DEF TypeOK
    <2>5. toApp' \in Seq(ControlMsgs \cup {Announcement})
        <3>1. \A on \in BOOLEAN : SpeechConfigReq(on) \in ControlMsgs
            BY DEF SpeechConfigReq, ControlMsgs
        <3>2. \/ toApp' = toApp
              \/ toApp' = Append(toApp, SpeechConfigReq(TRUE))
              \/ toApp' = Append(toApp, SpeechConfigReq(FALSE))
            BY <1>7, Zenon DEF AppStep, StoreState, StoreDlActive, Emit,
                    RequestExit, WriteExitMessage, Join
        <3>3. /\ SpeechConfigReq(TRUE) \in ControlMsgs \cup {Announcement}
              /\ SpeechConfigReq(FALSE) \in ControlMsgs \cup {Announcement}
            BY <3>1
        <3>4. toApp \in Seq(ControlMsgs \cup {Announcement})
            BY DEF TypeOK
        <3>5. /\ Append(toApp, SpeechConfigReq(TRUE))
                    \in Seq(ControlMsgs \cup {Announcement})
              /\ Append(toApp, SpeechConfigReq(FALSE))
                    \in Seq(ControlMsgs \cup {Announcement})
            BY <3>3, <3>4, Appended
        <3> QED
            BY <3>2, <3>4, <3>5, Zenon
    <2> QED
        BY <2>1, <2>2, <2>3, <2>4, <2>5 DEF TypeOK
<1>8. CASE WorkerStarts \/ WorkerRuns \/ WorkerLooks \/ WorkerExits
           \/ WorkerReplied \/ PollTimeout \/ LongTimeout
    <2>1. worker' \in Workers
        BY <1>8, Zenon DEF WorkerStarts, WorkerRuns, WorkerLooks, WorkerExits,
                WorkerReplied, PollTimeout, LongTimeout, TypeOK, Workers
    <2>2. thread_running' \in {"STARTED", "RUNNING", "EXIT_REQ", "TERMINATED"}
        BY <1>8 DEF WorkerStarts, WorkerRuns, WorkerLooks, WorkerExits,
                WorkerReplied, PollTimeout, LongTimeout, TypeOK
    <2>3. UNCHANGED <<app, frame, state, dl_active, toWorker, toApp, rest>>
        BY <1>8 DEF WorkerStarts, WorkerRuns, WorkerLooks, WorkerExits,
                WorkerReplied, PollTimeout, LongTimeout
    <2> QED
        BY <2>1, <2>2, <2>3 DEF TypeOK
<1>9. CASE WorkerReads
    <2>1. Replies(Head(toWorker)) \in Seq(ReplySteps)
        BY RepliesTyped
    <2>2. worker' \in Workers
        BY <1>9, <2>1, Zenon DEF WorkerReads, TypeOK, Workers, ReplySteps
    <2>3. toWorker' \in Seq(WorkerMsgs)
        BY <1>9 DEF WorkerReads, TypeOK
    <2> QED
        BY <1>9, <2>2, <2>3 DEF WorkerReads, TypeOK
<1>10. CASE WorkerReplies
    <2> DEFINE r == Head(worker.todo)
    <2>1. r \in ReplySteps /\ Tail(worker.todo) \in Seq(ReplySteps)
        <3>1. worker.todo \in Seq(ReplySteps)
            BY DEF TypeOK, Workers, ReplySteps
        <3>2. worker.todo # <<>>
            BY <1>10 DEF WorkerReplies
        <3> QED
            BY <3>1, <3>2
    <2>2. worker' \in Workers
        BY <1>10, <2>1, Zenon DEF WorkerReplies, TypeOK, Workers, ReplySteps
    <2>3. r # "IDLE" => Msg(r) \in ControlMsgs
        BY <2>1 DEF Msg, ControlMsgs, ReplySteps
    <2>4. \/ r = "IDLE" /\ state' = "IDLE" /\ toApp' = toApp
          \/ r # "IDLE" /\ toApp' = Append(toApp, Msg(r)) /\ state' = state
        BY <1>10, Zenon DEF WorkerReplies
    <2> HIDE DEF r
    <2>5. toApp' \in Seq(ControlMsgs \cup {Announcement})
        <3>1. toApp \in Seq(ControlMsgs \cup {Announcement})
            BY DEF TypeOK
        <3>2. CASE r = "IDLE"
            BY <2>4, <3>1, <3>2, Zenon
        <3>3. CASE r # "IDLE"
            <4>1. Msg(r) \in ControlMsgs \cup {Announcement}
                BY <2>3, <3>3
            <4>2. Append(toApp, Msg(r)) \in Seq(ControlMsgs \cup {Announcement})
                BY <3>1, <4>1, Appended
            <4> QED
                BY <2>4, <3>3, <4>2, Zenon
        <3> QED
            BY <3>2, <3>3
    <2>6. state' \in States
        BY <2>4 DEF TypeOK, States
    <2> QED
        BY <1>10, <2>2, <2>5, <2>6 DEF WorkerReplies, TypeOK
<1>11. ASSUME NEW step \in {"advance", "fill", "announce"}, Makes(step)
       PROVE  worker' \in Workers
    BY <1>11 DEF Makes, After, TypeOK, Workers
<1>12. CASE Advance
    <2>1. /\ dl_buf_idx' \in DLIndices /\ frames' \in [DLIndices -> BOOLEAN]
        BY <1>12, NextSlot DEF Advance, TypeOK
    <2>2. held' \in [slot : DLIndices \cup {-1}, whole : BOOLEAN,
                     age : 0 .. BufferSlots]
        <3>1. CASE held = NoBuffer \/ held.age = BufferSlots
            BY <1>12, <3>1 DEF Advance, TypeOK
        <3>2. CASE ~(held = NoBuffer \/ held.age = BufferSlots)
            <4>1. held' = [held EXCEPT !.age = held.age + 1]
                BY <1>12, <3>2, Zenon DEF Advance
            <4>2. held.age + 1 \in 0 .. BufferSlots
                BY <3>2, DummyAssumption DEF TypeOK
            <4> QED
                BY <4>1, <4>2, Zenon DEF TypeOK
        <3> QED
            BY <3>1, <3>2
    <2>3. worker' \in Workers /\ unannounced' = TRUE
        BY <1>11, <1>12 DEF Advance
    <2> QED
        BY <1>12, <2>1, <2>2, <2>3 DEF Advance, Makes, TypeOK
<1>13. CASE Fill
    <2>1. worker' \in Workers
        BY <1>11, <1>13 DEF Fill
    <2> QED
        BY <1>13, <2>1 DEF Fill, Makes, TypeOK
<1>14. CASE Announce
    <2>1. worker' \in Workers
        BY <1>11, <1>14 DEF Announce
    <2>2. toApp' \in Seq(ControlMsgs \cup {Announcement})
        <3>1. Announcement \in ControlMsgs \cup {Announcement}
            OBVIOUS
        <3>2. toApp' = Append(toApp, Announcement)
            BY <1>14 DEF Announce
        <3> HIDE DEF Announcement
        <3> QED
            BY <3>1, <3>2 DEF TypeOK
    <2> QED
        BY <1>14, <2>1, <2>2 DEF Announce, Makes, TypeOK
<1>15. CASE UNCHANGED vars
    BY <1>15 DEF vars, TypeOK
<1> QED
    BY <1>1, <1>2, <1>3, <1>4, <1>5, <1>6, <1>7, <1>8, <1>9, <1>10, <1>12,
       <1>13, <1>14, <1>15 DEF Next, WorkerStep

\* The variables keep their types.
THEOREM DummyTypeCorrect == Spec => []TypeOK
<1>1. Init => TypeOK
    BY TypeInit
<1>2. TypeOK /\ [Next]_vars => TypeOK'
    BY TypeNext
<1> QED
    BY <1>1, <1>2, PTL DEF Spec

-----------------------------------------------------------------------------
(* The frames                                                              *)

\* The slot the application holds is "age" slots behind the current one.
Behind ==
    \/ dl_buf_idx = held.slot + held.age
    \/ dl_buf_idx = held.slot + held.age - BufferSlots

\* The current frame is not whole only between the two steps that make it,
\* and it has not been announced then; the buffer of the application is whole
\* until the worker comes round to it.
FrameInv ==
    /\ worker.at # "fill" => frames[dl_buf_idx]
    /\ worker.at = "fill" => unannounced
    /\ held # NoBuffer /\ held.age < BufferSlots =>
        /\ held.slot \in DLIndices
        /\ Behind
        /\ held.whole => frames[held.slot]

\* Only the three steps that make a frame and the calls that take a buffer or
\* give it back matter; no other step of the worker leads to "fill".
LEMMA FrameNext == TypeOK /\ FrameInv /\ [Next]_vars => FrameInv'
<1> SUFFICES ASSUME TypeOK, FrameInv, [Next]_vars PROVE FrameInv'
    OBVIOUS
<1>1. CASE Acquire
    <2>1. held' = [slot |-> dl_buf_idx, whole |-> frames[dl_buf_idx], age |-> 0]
          /\ UNCHANGED <<worker, dl_buf_idx, frames, unannounced>>
        BY <1>1 DEF Acquire, frame
    <2>2. /\ held'.slot = dl_buf_idx /\ held'.age = 0
          /\ held'.whole <=> frames[dl_buf_idx]
        BY <2>1, Zenon
    <2> QED
        BY <2>1, <2>2 DEF FrameInv, Behind, TypeOK, DLIndices
<1>2. CASE Release
    BY <1>2 DEF Release, FrameInv, frame
<1>3. CASE Advance
    <2>1. /\ worker.at = "advance" /\ worker'.at = "fill"
          /\ unannounced' = TRUE
        BY <1>3 DEF Advance, Makes, After, TypeOK, Workers
    <2>2. /\ dl_buf_idx \in DLIndices /\ dl_buf_idx' \in DLIndices
          /\ \/ dl_buf_idx' = dl_buf_idx + 1
             \/ dl_buf_idx' = dl_buf_idx + 1 - BufferSlots
        BY <1>3, NextSlot, DummyAssumption DEF Advance, TypeOK, DLIndices
    <2>3. \A i \in DLIndices : i # dl_buf_idx' => frames'[i] = frames[i]
        BY <1>3 DEF Advance, TypeOK
    <2>4. ASSUME held' # NoBuffer, held'.age < BufferSlots
          PROVE  /\ held # NoBuffer /\ held.age < BufferSlots
                 /\ held'.slot = held.slot /\ held'.whole = held.whole
                 /\ held'.age = held.age + 1
        <3>1. held # NoBuffer /\ held.age # BufferSlots
            <4>1. SUFFICES ASSUME held = NoBuffer \/ held.age = BufferSlots
                           PROVE  FALSE
                OBVIOUS
            <4>2. held' = held
                BY <1>3, <4>1, Zenon DEF Advance
            <4> QED
                BY <2>4, <4>1, <4>2, DummyAssumption
        <3>2. held' = [held EXCEPT !.age = held.age + 1]
            BY <1>3, <3>1, Zenon DEF Advance
        <3>3. /\ held'.slot = held.slot /\ held'.whole = held.whole
              /\ held'.age = held.age + 1
            BY <3>2, Zenon DEF TypeOK
        <3>4. held.age \in 0 .. BufferSlots
            BY DEF TypeOK
        <3> QED
            BY <3>1, <3>3, <3>4, DummyAssumption
    <2>5. ASSUME held' # NoBuffer, held'.age < BufferSlots
          PROVE  /\ held'.slot \in DLIndices
                 /\ Behind'
                 /\ held'.whole => frames'[held'.slot]
        <3>1. /\ held.slot \in DLIndices /\ Behind
              /\ held.whole => frames[held.slot]
              /\ held'.slot = held.slot /\ held'.whole = held.whole
              /\ held'.age = held.age + 1 /\ held.age \in Nat
            BY <2>4, <2>5 DEF FrameInv, TypeOK
        <3>2. Behind'
            <4>1. /\ held'.slot + held'.age = held.slot + held.age + 1
                  /\ held.slot \in 0 .. BufferSlots - 1
                  /\ dl_buf_idx' \in 0 .. BufferSlots - 1
                  /\ held'.age < BufferSlots
                BY <2>2, <2>5, <3>1, DummyAssumption DEF DLIndices
            <4> QED
                BY <2>2, <3>1, <4>1, DummyAssumption DEF Behind, DLIndices
        <3>3. held'.slot # dl_buf_idx'
            BY <2>2, <2>5, <3>1, <3>2, DummyAssumption DEF Behind, DLIndices
        <3> QED
            BY <2>3, <3>1, <3>2, <3>3
    <2> QED
        BY <2>1, <2>5 DEF FrameInv
<1>4. CASE Fill
    <2>1. worker'.at = "announce"
        BY <1>4 DEF Fill, Makes, After, TypeOK, Workers
    <2>2. /\ UNCHANGED <<held, dl_buf_idx>>
          /\ frames' = [frames EXCEPT ![dl_buf_idx] = TRUE]
        BY <1>4 DEF Fill, app
    <2>3. \A i \in DLIndices : frames[i] => frames'[i]
        BY <2>2 DEF TypeOK
    <2>4. frames'[dl_buf_idx]
        BY <2>2 DEF TypeOK
    <2> QED
        BY <2>1, <2>2, <2>3, <2>4 DEF FrameInv, Behind
<1>5. CASE Announce
    <2>1. worker.at = "announce" /\ worker'.at = "loop"
        BY <1>5 DEF Announce, Makes, After, TypeOK, Workers
    <2> QED
        BY <1>5, <2>1 DEF Announce, app, FrameInv, Behind
<1>6. ASSUME UNCHANGED <<frame, held>>, worker.at # "fill", worker'.at # "fill"
      PROVE  FrameInv'
    BY <1>6 DEF FrameInv, Behind, frame
<1>7. ASSUME UNCHANGED <<frame, held, worker>>
      PROVE  FrameInv'
    BY <1>7 DEF FrameInv, Behind, frame
<1>8. CASE CheckPending \/ ReadEvent \/ CallStatus \/ Ignore \/ Close \/ AppStep
           \/ UNCHANGED vars
    BY <1>7, <1>8 DEF CheckPending, ReadEvent, CallStatus, Ignore, Close, AppStep,
            StoreState, StoreDlActive, Emit, RequestExit, WriteExitMessage, Join,
            Executes, vars, app
<1>9. CASE WorkerStarts \/ WorkerRuns \/ WorkerLooks \/ WorkerExits \/ WorkerReads
           \/ WorkerReplies \/ WorkerReplied \/ PollTimeout \/ LongTimeout
    <2>1. UNCHANGED <<frame, held>>
        BY <1>9 DEF WorkerStarts, WorkerRuns, WorkerLooks, WorkerExits, WorkerReads,
                WorkerReplies, WorkerReplied, PollTimeout, LongTimeout, app
    <2>2. worker.at # "fill" /\ worker'.at # "fill"
        BY <1>9 DEF WorkerStarts, WorkerRuns, WorkerLooks, WorkerExits, WorkerReads,
                WorkerReplies, WorkerReplied, PollTimeout, LongTimeout, TypeOK,
                Workers
    <2> QED
        BY <1>6, <2>1, <2>2
<1> QED
    BY <1>1, <1>2, <1>3, <1>4, <1>5, <1>8, <1>9 DEF Next, WorkerStep

\* The downlink slots are in order in every state.
THEOREM FramesInOrder == Spec => []FrameInv
<1>1. Init => TypeOK /\ FrameInv
    <2>1. Init => FrameInv
        BY DummyAssumption DEF Init, FrameInv, DLIndices
    <2> QED
        BY <2>1, TypeInit
<1>2. (TypeOK /\ FrameInv) /\ [Next]_vars => (TypeOK /\ FrameInv)'
    BY TypeNext, FrameNext
<1> QED
    BY <1>1, <1>2, PTL DEF Spec

\* What the application holds stays whole until as many frames as there are
\* slots have been started: dummy-backend/cmtspeech_dummy.c fills the slots in
\* turn.
THEOREM HeldFramesAreKept == Spec => []HeldFrameIsKept
<1>1. FrameInv => HeldFrameIsKept
    BY DEF FrameInv, HeldFrameIsKept
<1> QED
    BY <1>1, FramesInOrder, PTL

\* A buffer acquired after every announcement was read, and before the next
\* frame was started, holds a whole frame: a frame is announced when it is
\* filled, not before.
THEOREM AnnouncedFramesAreWhole == Spec => AnnouncedFrameIsWhole
<1>1. FrameInv /\ [Next]_vars =>
        [Acquire /\ Backlog = 0 /\ ~unannounced => held'.whole]_vars
    <2> SUFFICES ASSUME FrameInv, Acquire, ~unannounced PROVE held'.whole
        OBVIOUS
    <2>1. held'.whole <=> frames[dl_buf_idx]
        BY Zenon DEF Acquire
    <2> QED
        BY <2>1 DEF FrameInv
<1> QED
    BY <1>1, FramesInOrder, PTL DEF Spec, AnnouncedFrameIsWhole

-----------------------------------------------------------------------------
(* What a call does to the protocol state and what it writes               *)

\* A state of the library, as far as the dummy backend uses it.
Has(s, proto, priv, active, sent) ==
    /\ s \in LibStates
    /\ s.proto_state = proto /\ s.priv_state = priv
    /\ s.call_server_active = active /\ s.sent = sent

\* The state changes of cmtspeech_backend_common.c when every write succeeds.
LEMMA Primitives ==
    ASSUME NEW s, NEW proto, NEW priv, NEW active, NEW sent,
           Has(s, proto, priv, active, sent)
    PROVE  /\ Has(Entered(s), proto, priv, active, <<>>)
           /\ \A name \in Assertions : \A holds :
                    Has(Assert(s, name, holds), proto, priv, active, sent)
           /\ \A p \in Protos, v \in Privs :
                    Has(StateChangeTo(s, p, v), p, v, active, sent)
           /\ \A v \in Privs :
                    Has(PrivChangeTo(s, v), proto, v, active, sent)
           /\ \A m \in OutMsgs :
                    Has(Write(s, m, {}), proto, priv, active, Append(sent, m))
           /\ Has(priv_reset_state_to_disconnected(s), "DISCONNECTED",
                  "IN_SYNC", FALSE, sent)
           /\ Has(priv_acquire_wakeline(s, "CALL", {}),
                  proto, priv, active, sent)
           /\ \A on \in BOOLEAN :
                    Has([s EXCEPT !.call_server_active = on],
                        proto, priv, on, sent)
<1>1. /\ s \in LibStates /\ "CALL" \in WakelineUsers
      /\ s.proto_state = proto /\ s.priv_state = priv
      /\ s.call_server_active = active /\ s.sent = sent
    BY DEF Has, WakelineUsers
<1>2. Has(Entered(s), proto, priv, active, <<>>)
    <2>1. Entered(s) \in LibStates
        BY <1>1, ProtocolTyped
    <2> QED
        BY <1>1, <2>1 DEF Has, Entered, LibStates
<1>3. ASSUME NEW name \in Assertions, NEW holds
      PROVE  Has(Assert(s, name, holds), proto, priv, active, sent)
    <2>1. Assert(s, name, holds) \in LibStates
        BY <1>1, AssertTyped
    <2> QED
        BY <1>1, <2>1 DEF Has, Assert, LibStates
<1>4. ASSUME NEW p \in Protos, NEW v \in Privs
      PROVE  Has(StateChangeTo(s, p, v), p, v, active, sent)
    <2>1. StateChangeTo(s, p, v) \in LibStates
        BY <1>1, ProtocolTyped
    <2> QED
        BY <1>1, <2>1 DEF Has, StateChangeTo, LibStates
<1>9. ASSUME NEW v \in Privs
      PROVE  Has(PrivChangeTo(s, v), proto, v, active, sent)
    <2>1. "INVALID" \in Protos
        BY DEF Protos
    <2>2. PrivChangeTo(s, v) \in LibStates
        BY <1>1, <2>1, ProtocolTyped
    <2> QED
        BY <1>1, <2>2 DEF Has, PrivChangeTo, LibStates
<1>5. ASSUME NEW m \in OutMsgs
      PROVE  Has(Write(s, m, {}), proto, priv, active, Append(sent, m))
    <2>1. Write(s, m, {}) \in LibStates
        BY <1>1, ProtocolTyped
    <2> QED
        BY <1>1, <2>1 DEF Has, Write, LibStates
<1>6. Has(priv_reset_state_to_disconnected(s), "DISCONNECTED", "IN_SYNC", FALSE,
          sent)
    <2>1. priv_reset_state_to_disconnected(s) \in LibStates
        BY <1>1, ProtocolTyped
    <2> QED
        BY <1>1, <2>1 DEF Has, priv_reset_state_to_disconnected, LibStates
<1>7. Has(priv_acquire_wakeline(s, "CALL", {}), proto, priv, active, sent)
    <2>1. priv_acquire_wakeline(s, "CALL", {}) \in LibStates
        BY <1>1, WakelineTyped
    <2> QED
        BY <1>1, <2>1 DEF Has, priv_acquire_wakeline, LibStates
<1>8. ASSUME NEW on \in BOOLEAN
      PROVE  Has([s EXCEPT !.call_server_active = on], proto, priv, on, sent)
    <2>1. [s EXCEPT !.call_server_active = on] \in LibStates
        BY <1>1, Zenon DEF LibStates
    <2> QED
        BY <1>1, <2>1 DEF Has, LibStates
<1> QED
    BY <1>2, <1>3, <1>4, <1>5, <1>6, <1>7, <1>8, <1>9

\* The request for the timing, written when the stream starts.
LEMMA TimingRequest ==
    ASSUME NEW s, NEW proto, NEW priv, NEW active, NEW sent,
           Has(s, proto, priv, active, sent)
    PROVE  Has(cmtspeech_bc_send_timing_request(s, {}), proto, "TIMING",
               active, Append(sent, OutMsg("NEW_TIMING_CONFIG_REQ")))
<1> DEFINE m == OutMsg("NEW_TIMING_CONFIG_REQ")
           w == Write(s, m, {})
<1>1. "TIMING" \in Privs /\ m \in OutMsgs
    BY Messages DEF OutTypes, Privs
<1>2. Has(w, proto, priv, active, Append(sent, m))
    BY <1>1, Primitives
<1> HIDE DEF m, w
<1>3. Has(PrivChangeTo(w, "TIMING"), proto, "TIMING", active, Append(sent, m))
    BY <1>1, <1>2, Primitives
<1> QED
    BY <1>3 DEF cmtspeech_bc_send_timing_request, w, m

\* The request m to open the connection or to close it.
LEMMA SsiRequest ==
    ASSUME NEW s, NEW proto, NEW priv, NEW active, NEW sent,
           Has(s, proto, priv, active, sent), priv # "DISCONNECTING",
           NEW on \in BOOLEAN, NEW m, m = SsiConfigReq(on, s.conf_proto_version)
    PROVE  Has(cmtspeech_send_ssi_config_request(s, on, {}), proto,
               IF on THEN "CONNECTING" ELSE "DISCONNECTING", active,
               Append(sent, m))
<1>1. /\ {"CONNECTING", "DISCONNECTING"} \subseteq Privs
      /\ {"send_ssi_config_request(0)", "send_ssi_config_request(1)"}
            \subseteq Assertions
    BY DEF Privs, Assertions
<1>2. ASSUME NEW u, Has(u, proto, priv, active, sent),
             u.conf_proto_version = s.conf_proto_version
      PROVE  Has(SsiConfigWritten(u, on, {}), proto,
                 IF on THEN "CONNECTING" ELSE "DISCONNECTING", active,
                 Append(sent, m))
    <2> DEFINE v == IF on THEN "CONNECTING" ELSE "DISCONNECTING"
               p == PrivChangeTo(u, v)
    <2>1. v \in Privs
        BY <1>1
    <2>2. m \in OutMsgs
        BY Fields, Messages DEF Has
    <2> HIDE DEF v
    <2>3. Has(p, proto, v, active, sent)
        BY <1>2, <2>1, Primitives
    <2> HIDE DEF p
    <2>4. Has(Write(p, m, {}), proto, v, active, Append(sent, m))
        BY <2>2, <2>3, Primitives
    <2> QED
        BY <1>2, <2>4 DEF SsiConfigWritten, p, v
<1> DEFINE b == IF on THEN priv_acquire_wakeline(s, "CALL", {}) ELSE s
<1>3. Has(b, proto, priv, active, sent)
    BY Primitives
<1>4. b.conf_proto_version = s.conf_proto_version
    BY DEF priv_acquire_wakeline, Has, LibStates
<1> HIDE DEF b
<1>5. ASSUME NEW name \in Assertions, NEW holds
      PROVE  /\ Has(Assert(b, name, holds), proto, priv, active, sent)
             /\ Assert(b, name, holds).conf_proto_version
                    = s.conf_proto_version
    <2>1. Has(Assert(b, name, holds), proto, priv, active, sent)
        BY <1>3, Primitives
    <2>2. Assert(b, name, holds).conf_proto_version = b.conf_proto_version
        BY <1>3 DEF Assert, Has, LibStates
    <2> QED
        BY <1>4, <2>1, <2>2
<1> DEFINE up == Assert(b, "send_ssi_config_request(1)",
                        \/ b.proto_state = "DISCONNECTED"
                        \/ b.priv_state = "SSI_CONFIG_PEND")
           down == Assert(b, "send_ssi_config_request(0)",
                          \/ b.proto_state = "CONNECTED"
                          \/ b.priv_state = "SSI_CONFIG_PEND")
<1>6. /\ Has(up, proto, priv, active, sent)
      /\ up.conf_proto_version = s.conf_proto_version
      /\ Has(down, proto, priv, active, sent)
      /\ down.conf_proto_version = s.conf_proto_version
    BY <1>1, <1>5
<1> HIDE DEF up, down
<1>7. b.priv_state # "DISCONNECTING"
    BY <1>3 DEF Has
<1>8. CASE on
    <2>1. cmtspeech_send_ssi_config_request(s, on, {})
            = SsiConfigWritten(up, TRUE, {})
        BY <1>8 DEF cmtspeech_send_ssi_config_request,
                cmtspeech_bc_send_ssi_config_request, b, up
    <2> QED
        BY <1>2, <1>6, <1>8, <2>1
<1>9. CASE ~on
    <2>1. cmtspeech_send_ssi_config_request(s, on, {})
            = SsiConfigWritten(down, FALSE, {})
        BY <1>7, <1>9 DEF cmtspeech_send_ssi_config_request,
                cmtspeech_bc_send_ssi_config_request, b, down
    <2> QED
        BY <1>2, <1>6, <1>9, <2>1
<1> QED
    BY <1>8, <1>9

\* The calls that start and end a call, in the states the application makes
\* them in.
LEMMA CallStatusDoes ==
    ASSUME NEW s, NEW proto, NEW active, NEW sent,
           Has(s, proto, "IN_SYNC", active, sent)
    PROVE  /\ proto = "DISCONNECTED" =>
                Has(cmtspeech_state_change_call_status(s, TRUE, {}), proto,
                    "CONNECTING", TRUE,
                    <<SsiConfigReq(TRUE, s.conf_proto_version)>>)
           /\ proto = "ACTIVE_DLUL" =>
                Has(cmtspeech_state_change_call_status(s, FALSE, {}), proto,
                    "IN_SYNC", FALSE, <<>>)
<1> DEFINE e == Entered(s)
<1>1. Has(e, proto, "IN_SYNC", active, <<>>)
    BY Primitives
<1>2. e.conf_proto_version = s.conf_proto_version
    BY DEF Entered, Has, LibStates
<1> HIDE DEF e
<1>3. ASSUME proto = "DISCONNECTED"
      PROVE  Has(cmtspeech_state_change_call_status(s, TRUE, {}), proto,
                 "CONNECTING", TRUE, <<SsiConfigReq(TRUE, s.conf_proto_version)>>)
    <2> DEFINE m == SsiConfigReq(TRUE, s.conf_proto_version)
               w == cmtspeech_send_ssi_config_request(e, TRUE, {})
    <2>1. Has(w, proto, "CONNECTING", active, Append(<<>>, m))
        BY <1>1, <1>2, SsiRequest
    <2>2. Append(<<>>, m) = <<m>>
        OBVIOUS
    <2>3. CallActive(e, {}) = w
        BY <1>1, <1>3 DEF CallActive, Has, Active
    <2> HIDE DEF m, w
    <2>4. Has([w EXCEPT !.call_server_active = TRUE], proto, "CONNECTING", TRUE,
              <<m>>)
        BY <2>1, <2>2, Primitives
    <2> QED
        BY <2>3, <2>4 DEF cmtspeech_state_change_call_status, e, m
<1>4. ASSUME proto = "ACTIVE_DLUL"
      PROVE  Has(cmtspeech_state_change_call_status(s, FALSE, {}), proto,
                 "IN_SYNC", FALSE, <<>>)
    <2>1. CallInactive(e, {}) = e
        BY <1>1, <1>4 DEF CallInactive, Has
    <2>2. Has([e EXCEPT !.call_server_active = FALSE], proto, "IN_SYNC", FALSE,
              <<>>)
        BY <1>1, Primitives
    <2> QED
        BY <2>1, <2>2 DEF cmtspeech_state_change_call_status, e
<1> QED
    BY <1>3, <1>4

\* A SPEECH_CONFIG_REQ starts the stream of a connection, and stops it; the
\* connection is closed with it when the call is over.
LEMMA SpeechConfiguredDoes ==
    ASSUME NEW s, NEW proto, NEW priv, NEW active, NEW sent,
           Has(s, proto, priv, active, sent)
    PROVE  /\ proto = "CONNECTED" =>
                Has(SpeechConfigured(s, TRUE), "ACTIVE_DL", "TIMING", active,
                    <<OutMsg("NEW_TIMING_CONFIG_REQ")>>)
           /\ proto \in Active /\ ~active =>
                Has(SpeechConfigured(s, FALSE), "CONNECTED", "DISCONNECTING",
                    active, <<SsiConfigReq(FALSE, s.conf_proto_version)>>)
<1> DEFINE e == Entered(s)
           a == Assert(e, "speech_config_req", s.proto_state \in Enabled)
<1>1. /\ {"speech_config_req", "post_command"} \subseteq Assertions
      /\ {"CONFIG_ACT_PEND", "CONFIG_DEACT_PEND", "IN_SYNC"} \subseteq Privs
      /\ {"ACTIVE_DL", "CONNECTED"} \subseteq Protos
    BY DEF Assertions, Privs, Protos
<1>2. /\ Has(a, proto, priv, active, <<>>)
      /\ a.conf_proto_version = s.conf_proto_version
    <2>1. Has(e, proto, priv, active, <<>>)
        BY Primitives
    <2>2. e.conf_proto_version = s.conf_proto_version
        BY DEF Entered, Has, LibStates
    <2> HIDE DEF e
    <2>3. Has(a, proto, priv, active, <<>>)
        BY <1>1, <2>1, Primitives
    <2>4. a.conf_proto_version = e.conf_proto_version
        BY <2>1 DEF Assert, Has, LibStates
    <2> QED
        BY <2>2, <2>3, <2>4
<1> HIDE DEF a
<1>3. ASSUME proto = "CONNECTED"
      PROVE  Has(SpeechConfigured(s, TRUE), "ACTIVE_DL", "TIMING", active,
                 <<OutMsg("NEW_TIMING_CONFIG_REQ")>>)
    <2> DEFINE p == PrivChangeTo(a, "CONFIG_ACT_PEND")
               b == Assert(p, "post_command", p.priv_state \in ConfigPending)
               c == StateChangeTo(b, "ACTIVE_DL", "IN_SYNC")
               m == OutMsg("NEW_TIMING_CONFIG_REQ")
    <2>1. Has(p, proto, "CONFIG_ACT_PEND", active, <<>>)
        BY <1>1, <1>2, Primitives
    <2> HIDE DEF p
    <2>2. Has(b, proto, "CONFIG_ACT_PEND", active, <<>>)
        BY <1>1, <2>1, Primitives
    <2> HIDE DEF b
    <2>3. Has(c, "ACTIVE_DL", "IN_SYNC", active, <<>>)
        BY <1>1, <2>2, Primitives
    <2> HIDE DEF c
    <2>4. Has(cmtspeech_bc_send_timing_request(c, {}), "ACTIVE_DL", "TIMING",
              active, Append(<<>>, m))
        BY <2>3, TimingRequest
    <2>5. Append(<<>>, m) = <<m>>
        OBVIOUS
    <2>6. p.priv_state = "CONFIG_ACT_PEND" /\ p.proto_state = "CONNECTED"
        BY <1>3, <2>1 DEF Has
    <2>7. PostSpeechConfigResp(p, TRUE, {})
            = cmtspeech_bc_send_timing_request(c, {})
        BY <2>6 DEF PostSpeechConfigResp, StreamStarted, b, c
    <2>8. SpeechConfigured(s, TRUE) = PostSpeechConfigResp(p, TRUE, {})
        BY DEF SpeechConfigured, p, a
    <2> QED
        BY <2>4, <2>5, <2>7, <2>8
<1>4. ASSUME proto \in Active, ~active
      PROVE  Has(SpeechConfigured(s, FALSE), "CONNECTED", "DISCONNECTING",
                 active, <<SsiConfigReq(FALSE, s.conf_proto_version)>>)
    <2> DEFINE p == PrivChangeTo(a, "CONFIG_DEACT_PEND")
               b == Assert(p, "post_command", p.priv_state \in ConfigPending)
               c == StateChangeTo(b, "CONNECTED", "IN_SYNC")
               m == SsiConfigReq(FALSE, s.conf_proto_version)
    <2>1. Has(p, proto, "CONFIG_DEACT_PEND", active, <<>>)
        BY <1>1, <1>2, Primitives
    <2>2. p.conf_proto_version = s.conf_proto_version
        BY <1>2 DEF PrivChangeTo, Has, LibStates
    <2> HIDE DEF p
    <2>3. Has(b, proto, "CONFIG_DEACT_PEND", active, <<>>)
        BY <1>1, <2>1, Primitives
    <2>4. b.conf_proto_version = s.conf_proto_version
        BY <2>1, <2>2 DEF Assert, Has, LibStates
    <2> HIDE DEF b
    <2>5. Has(c, "CONNECTED", "IN_SYNC", active, <<>>)
        BY <1>1, <2>3, Primitives
    <2>6. c.conf_proto_version = s.conf_proto_version
        BY <2>3, <2>4 DEF StateChangeTo, Has, LibStates
    <2> HIDE DEF c
    <2>7. Has(cmtspeech_send_ssi_config_request(c, FALSE, {}), "CONNECTED",
              "DISCONNECTING", active, Append(<<>>, m))
        BY <2>5, <2>6, SsiRequest
    <2>8. Append(<<>>, m) = <<m>>
        OBVIOUS
    <2>9. /\ p.priv_state = "CONFIG_DEACT_PEND" /\ p.proto_state \in Active
          /\ ~b.call_server_active
        BY <1>4, <2>1, <2>3 DEF Has
    <2>10. StreamStopped(b, {}) = cmtspeech_send_ssi_config_request(c, FALSE, {})
        BY <2>9 DEF StreamStopped, c
    <2>11. PostSpeechConfigResp(p, TRUE, {}) = StreamStopped(b, {})
        BY <2>9 DEF PostSpeechConfigResp, b
    <2>12. SpeechConfigured(s, FALSE) = PostSpeechConfigResp(p, TRUE, {})
        BY DEF SpeechConfigured, p, a
    <2> QED
        BY <2>7, <2>8, <2>10, <2>11, <2>12
<1> QED
    BY <1>3, <1>4

\* The notifications about the uplink and the timing start the uplink of a
\* stream and change nothing else.
LEMMA NotifiedDoes ==
    ASSUME NEW s, NEW proto, NEW priv, NEW active, NEW sent,
           Has(s, proto, priv, active, sent),
           NEW t, t = HandleUplinkConfigNtf(s) \/ t = HandleTimingConfigNtf(s)
    PROVE  /\ t \in LibStates /\ t.sent = <<>> /\ t.call_server_active = active
           /\ proto \in Active => t.proto_state \in Active
           /\ proto \notin Active => t.proto_state = proto
           /\ priv # "TIMING" /\ proto \notin Active => t.priv_state = priv
           /\ priv \in {"IN_SYNC", "TIMING"} =>
                t.priv_state \in {"IN_SYNC", priv}
<1>1. /\ {"uplink_config_ntf", "timing_config_ntf"} \subseteq Assertions
      /\ "ACTIVE_DLUL" \in Protos /\ "IN_SYNC" \in Privs
      /\ {"UPLINK_CONFIG_NTF", "TIMING_CONFIG_NTF"} \subseteq EventTypes
    BY DEF Assertions, Protos, Privs, EventTypes
<1>2. Has(Entered(s), proto, priv, active, <<>>)
    BY Primitives
<1>3. ASSUME NEW a, Has(a, proto, priv, active, <<>>)
      PROVE  \/ UplinkStarted(a) = a /\ proto # "ACTIVE_DL"
             \/ /\ proto = "ACTIVE_DL"
                /\ Has(UplinkStarted(a), "ACTIVE_DLUL", "IN_SYNC", active, <<>>)
    <2>1. Has(StateChangeTo(a, "ACTIVE_DLUL", "IN_SYNC"), "ACTIVE_DLUL",
              "IN_SYNC", active, <<>>)
        BY <1>1, <1>3, Primitives
    <2> QED
        BY <1>3, <2>1 DEF UplinkStarted, Has
<1>4. ASSUME NEW u, NEW p, NEW v, Has(u, p, v, active, <<>>), NEW type \in EventTypes
      PROVE  Has(Reported(s, u, type), p, v, active, <<>>)
    <2>1. Reported(s, u, type) \in LibStates
        BY <1>4, ReportedTyped DEF Has
    <2> QED
        BY <1>4, <2>1 DEF Has, Reported, LibStates
<1>5. CASE t = HandleUplinkConfigNtf(s)
    <2> DEFINE a == Assert(Entered(s), "uplink_config_ntf",
                           s.proto_state = "ACTIVE_DL")
    <2>1. Has(a, proto, priv, active, <<>>)
        BY <1>1, <1>2, Primitives
    <2>2. t = Reported(s, UplinkStarted(a), "UPLINK_CONFIG_NTF")
        BY <1>5 DEF HandleUplinkConfigNtf
    <2> HIDE DEF a
    <2>3. \/ Has(t, proto, priv, active, <<>>)
          \/ /\ proto = "ACTIVE_DL"
             /\ Has(t, "ACTIVE_DLUL", "IN_SYNC", active, <<>>)
        BY <1>1, <1>3, <1>4, <2>1, <2>2
    <2> QED
        BY <2>3 DEF Has, Active
<1>6. CASE t = HandleTimingConfigNtf(s)
    <2> DEFINE a == Assert(Entered(s), "timing_config_ntf",
                           s.proto_state \in Active)
               u == UplinkStarted(a)
               w == IF u.priv_state = "TIMING" THEN PrivChangeTo(u, "IN_SYNC")
                    ELSE u
    <2>1. Has(a, proto, priv, active, <<>>)
        BY <1>1, <1>2, Primitives
    <2>2. t = Reported(s, w, "TIMING_CONFIG_NTF")
        BY <1>6 DEF HandleTimingConfigNtf
    <2> HIDE DEF a
    <2>3. \/ Has(u, proto, priv, active, <<>>)
          \/ /\ proto = "ACTIVE_DL"
             /\ Has(u, "ACTIVE_DLUL", "IN_SYNC", active, <<>>)
        BY <1>3, <2>1
    <2> HIDE DEF u
    <2>4. \/ Has(w, proto, priv, active, <<>>)
          \/ priv = "TIMING" /\ Has(w, proto, "IN_SYNC", active, <<>>)
          \/ /\ proto = "ACTIVE_DL"
             /\ Has(w, "ACTIVE_DLUL", "IN_SYNC", active, <<>>)
        <3>1. CASE Has(u, proto, priv, active, <<>>) /\ priv = "TIMING"
            <4>1. Has(PrivChangeTo(u, "IN_SYNC"), proto, "IN_SYNC", active, <<>>)
                BY <1>1, <3>1, Primitives
            <4> QED
                BY <3>1, <4>1 DEF Has
        <3>2. CASE Has(u, proto, priv, active, <<>>) /\ priv # "TIMING"
            BY <3>2 DEF Has
        <3>3. CASE Has(u, "ACTIVE_DLUL", "IN_SYNC", active, <<>>)
                   /\ proto = "ACTIVE_DL"
            BY <3>3 DEF Has
        <3> QED
            BY <2>3, <3>1, <3>2, <3>3
    <2> HIDE DEF w
    <2>5. \/ Has(t, proto, priv, active, <<>>)
          \/ priv = "TIMING" /\ Has(t, proto, "IN_SYNC", active, <<>>)
          \/ /\ proto = "ACTIVE_DL"
             /\ Has(t, "ACTIVE_DLUL", "IN_SYNC", active, <<>>)
        BY <1>1, <1>4, <2>2, <2>4
    <2> QED
        BY <2>5 DEF Has, Active
<1> QED
    BY <1>5, <1>6

\* The answer to an SSI_CONFIG_REQ completes what was asked for.
LEMMA AnsweredDoes ==
    ASSUME NEW s, NEW proto, NEW priv, NEW active, NEW sent,
           Has(s, proto, priv, active, sent),
           NEW m, m.type = "SSI_CONFIG_RESP", NEW t, t = Handled(s, m)
    PROVE  /\ priv = "CONNECTING" =>
                Has(t, "CONNECTED", "IN_SYNC", active, <<>>)
           /\ priv = "DISCONNECTING" =>
                Has(t, "DISCONNECTED", "IN_SYNC", FALSE, <<>>)
<1> DEFINE a == Assert(Entered(s), "ssi_config_resp",
                       s.proto_state \in {"CONNECTED", "DISCONNECTED"})
           c == StateChangeTo(a, "CONNECTED", "IN_SYNC")
<1>1. /\ "ssi_config_resp" \in Assertions /\ "inorder" \in SampleLayouts
      /\ "CONNECTED" \in Protos /\ "IN_SYNC" \in Privs
    BY DEF Assertions, SampleLayouts, Protos, Privs
<1>2. Has(a, proto, priv, active, <<>>)
    <2>1. Has(Entered(s), proto, priv, active, <<>>)
        BY Primitives
    <2> QED
        BY <1>1, <2>1, Primitives
<1>3. t = SsiConfigAnswered(a, TRUE, "inorder", {})
    BY DEF Handled
<1> HIDE DEF a
<1>4. t \in LibStates
    BY <1>1, <1>2, <1>3, SsiConfigTyped DEF Has
<1>5. ASSUME priv = "CONNECTING"
      PROVE  Has(t, "CONNECTED", "IN_SYNC", active, <<>>)
    <2>1. Has(c, "CONNECTED", "IN_SYNC", active, <<>>)
        BY <1>1, <1>2, Primitives
    <2>2. t = [c EXCEPT !.sample_layout = "inorder"]
        BY <1>2, <1>3, <1>5 DEF SsiConfigAnswered, Has
    <2> HIDE DEF c
    <2> QED
        BY <1>4, <2>1, <2>2 DEF Has, LibStates
<1>6. ASSUME priv = "DISCONNECTING"
      PROVE  Has(t, "DISCONNECTED", "IN_SYNC", FALSE, <<>>)
    <2>1. t = priv_reset_state_to_disconnected(a)
        BY <1>2, <1>3, <1>6 DEF SsiConfigAnswered, Has
    <2> QED
        BY <1>2, <2>1, Primitives
<1> QED
    BY <1>5, <1>6

-----------------------------------------------------------------------------
(* What is on its way                                                      *)

\* No message of this type is in a pipe; exactly one is.
NoneOf(q, type) == \A j \in 1 .. Len(q) : q[j].type # type

OneOf(q, type) ==
    \E k \in 1 .. Len(q) : \A j \in 1 .. Len(q) : q[j].type = type <=> j = k

\* All messages of this type in a pipe say the same.
AllSay(q, type, on) == \A j \in 1 .. Len(q) : q[j].type = type => q[j].on = on

\* A message joins a pipe.
LEMMA Joins ==
    ASSUME NEW S, NEW q \in Seq(S), NEW m, NEW type, NEW on
    PROVE  /\ NoneOf(q, type) /\ m.type # type => NoneOf(Append(q, m), type)
           /\ NoneOf(q, type) /\ m.type = type => OneOf(Append(q, m), type)
           /\ OneOf(q, type) /\ m.type # type => OneOf(Append(q, m), type)
           /\ /\ AllSay(q, type, on) /\ (m.type # type \/ m.on = on)
              => AllSay(Append(q, m), type, on)
<1> DEFINE r == Append(q, m)
<1>1. /\ Len(q) \in Nat /\ Len(r) = Len(q) + 1 /\ r[Len(q) + 1] = m
      /\ \A j \in 1 .. Len(q) : r[j] = q[j]
    OBVIOUS
<1> HIDE DEF r
<1>2. \A j \in 1 .. Len(r) : j = Len(q) + 1 \/ (j \in 1 .. Len(q) /\ r[j] = q[j])
    BY <1>1
<1>3. NoneOf(q, type) /\ m.type # type => NoneOf(r, type)
    BY <1>1, <1>2 DEF NoneOf
<1>4. ASSUME NoneOf(q, type), m.type = type PROVE OneOf(r, type)
    <2>1. /\ Len(q) + 1 \in 1 .. Len(r)
          /\ \A j \in 1 .. Len(r) : r[j].type = type <=> j = Len(q) + 1
        BY <1>1, <1>2, <1>4 DEF NoneOf
    <2> QED
        BY <2>1 DEF OneOf
<1>5. ASSUME OneOf(q, type), m.type # type PROVE OneOf(r, type)
    <2>1. PICK k \in 1 .. Len(q) :
                \A j \in 1 .. Len(q) : q[j].type = type <=> j = k
        BY <1>5 DEF OneOf
    <2>2. /\ k \in 1 .. Len(r)
          /\ \A j \in 1 .. Len(r) : r[j].type = type <=> j = k
        BY <1>1, <1>2, <1>5, <2>1
    <2> QED
        BY <2>2 DEF OneOf
<1>6. AllSay(q, type, on) /\ (m.type # type \/ m.on = on) => AllSay(r, type, on)
    BY <1>1, <1>2 DEF AllSay
<1> QED
    BY <1>3, <1>4, <1>5, <1>6 DEF r

\* The first message leaves a pipe.
LEMMA Leaves ==
    ASSUME NEW S, NEW q \in Seq(S), q # <<>>, NEW type, NEW on
    PROVE  /\ NoneOf(q, type) => NoneOf(Tail(q), type) /\ Head(q).type # type
           /\ OneOf(q, type) /\ Head(q).type = type => NoneOf(Tail(q), type)
           /\ OneOf(q, type) /\ Head(q).type # type => OneOf(Tail(q), type)
           /\ AllSay(q, type, on) =>
                /\ AllSay(Tail(q), type, on)
                /\ Head(q).type = type => Head(q).on = on
<1> DEFINE r == Tail(q)
<1>1. /\ Len(q) \in Nat \ {0} /\ Len(r) = Len(q) - 1 /\ Head(q) = q[1]
      /\ \A j \in 1 .. Len(r) : r[j] = q[j + 1] /\ j + 1 \in 1 .. Len(q)
    OBVIOUS
<1> HIDE DEF r
<1>2. 1 \in 1 .. Len(q)
    BY <1>1
<1>3. NoneOf(q, type) => NoneOf(r, type) /\ Head(q).type # type
    BY <1>1, <1>2 DEF NoneOf
<1>4. ASSUME OneOf(q, type), Head(q).type = type PROVE NoneOf(r, type)
    <2>1. PICK k \in 1 .. Len(q) :
                \A j \in 1 .. Len(q) : q[j].type = type <=> j = k
        BY <1>4 DEF OneOf
    <2>2. k = 1
        BY <1>1, <1>2, <1>4, <2>1
    <2> QED
        BY <1>1, <2>1, <2>2 DEF NoneOf
<1>5. ASSUME OneOf(q, type), Head(q).type # type PROVE OneOf(r, type)
    <2>1. PICK k \in 1 .. Len(q) :
                \A j \in 1 .. Len(q) : q[j].type = type <=> j = k
        BY <1>5 DEF OneOf
    <2>2. k # 1
        BY <1>1, <1>2, <1>5, <2>1
    <2>3. /\ k - 1 \in 1 .. Len(r)
          /\ \A j \in 1 .. Len(r) : r[j].type = type <=> j = k - 1
        BY <1>1, <2>1, <2>2
    <2> QED
        BY <2>3 DEF OneOf
<1>6. AllSay(q, type, on) =>
            /\ AllSay(r, type, on)
            /\ Head(q).type = type => Head(q).on = on
    BY <1>1, <1>2 DEF AllSay
<1> QED
    BY <1>3, <1>4, <1>5, <1>6 DEF r

\* A message for the application is not on its way; it is.
Absent(type) == NoneOf(toApp, type) /\ NoneOf(pubbuf, type)

Transit(type) ==
    \/ OneOf(toApp, type) /\ NoneOf(pubbuf, type)
    \/ NoneOf(toApp, type) /\ OneOf(pubbuf, type)

\* The worker still has to write or to store this.
Owes(step) == \E j \in 1 .. Len(worker.todo) : worker.todo[j] = step

\* Nobody asks for a connection or its end, or the question is on its way to
\* the worker, with the worker, or answered.
Unasked ==
    /\ NoneOf(toWorker, "SSI_CONFIG_REQ") /\ ~Owes("SSI_CONFIG_RESP")
    /\ Absent("SSI_CONFIG_RESP")

Asked ==
    /\ OneOf(toWorker, "SSI_CONFIG_REQ") /\ ~Owes("SSI_CONFIG_RESP")
    /\ Absent("SSI_CONFIG_RESP")

Answering ==
    /\ NoneOf(toWorker, "SSI_CONFIG_REQ")
    /\ worker.todo = <<"SSI_CONFIG_RESP">>
                        \o (IF call_server_status THEN <<>> ELSE <<"IDLE">>)
    /\ Absent("SSI_CONFIG_RESP")

Answered ==
    /\ NoneOf(toWorker, "SSI_CONFIG_REQ") /\ ~Owes("SSI_CONFIG_RESP")
    /\ Transit("SSI_CONFIG_RESP")

Plain == Statements \ (States \cup {"emit(0)", "emit(1)"})

\* What is left of the application's call is among these statements.
Left(S) == \A k \in 1 .. Len(rest) : rest[k] \in S

In(on, protos, privs) ==
    /\ call_server_status = on
    /\ lib.proto_state \in protos /\ lib.priv_state \in privs

-----------------------------------------------------------------------------
(* The phases of a call                                                    *)

Idle ==
    /\ In(FALSE, {"DISCONNECTED"}, {"IN_SYNC"})
    /\ Unasked /\ Absent("SPEECH_CONFIG_REQ")
    /\ Left(Plain)

\* Only before the worker gets to the request it may still be about to become
\* idle because of the call before.
Connecting ==
    /\ In(TRUE, {"DISCONNECTED"}, {"CONNECTING"})
    /\ Asked \/ ((Answering \/ Answered) /\ ~Owes("IDLE"))
    /\ Absent("SPEECH_CONFIG_REQ")
    /\ Left(Plain \cup {"INITIALIZED"})

\* The state is MEDIA_FLOWING before the application's own SPEECH_CONFIG_REQ
\* is read.
Connected ==
    /\ In(TRUE, {"CONNECTED"}, {"IN_SYNC"})
    /\ Unasked /\ ~Owes("IDLE")
    /\ \/ rest = <<"emit(1)", "MEDIA_FLOWING">> /\ Absent("SPEECH_CONFIG_REQ")
       \/ rest = <<"MEDIA_FLOWING">> /\ Transit("SPEECH_CONFIG_REQ")
       \/ /\ Left(Plain) /\ state = "MEDIA_FLOWING"
          /\ Transit("SPEECH_CONFIG_REQ")

Flowing ==
    /\ In(TRUE, Active, {"IN_SYNC", "TIMING"})
    /\ Unasked /\ ~Owes("IDLE") /\ Absent("SPEECH_CONFIG_REQ")
    /\ Left(Plain) /\ state = "MEDIA_FLOWING"

\* What the call that ends a stream still has to do.
EndSteps == {<<"dl_active = false", "TERMINATING", "emit(0)">>,
             <<"TERMINATING", "emit(0)">>, <<"emit(0)">>}

Ending ==
    /\ In(FALSE, Active, {"IN_SYNC"})
    /\ Unasked
    /\ \/ rest \in EndSteps /\ Absent("SPEECH_CONFIG_REQ")
       \/ Left(Plain) /\ Transit("SPEECH_CONFIG_REQ")

Closing ==
    /\ In(FALSE, {"CONNECTED"}, {"DISCONNECTING"})
    /\ Asked \/ Answering \/ Answered
    /\ Absent("SPEECH_CONFIG_REQ")
    /\ Left(Plain)

\* What is on its way is about the call as it is.
SameCall ==
    /\ lib.call_server_active = call_server_status
    /\ AllSay(toWorker, "SSI_CONFIG_REQ", call_server_status)
    /\ AllSay(toApp, "SPEECH_CONFIG_REQ", call_server_status)
    /\ AllSay(pubbuf, "SPEECH_CONFIG_REQ", call_server_status)
    /\ worker.at # "reply" => worker.todo = <<>>

Phases ==
    /\ SameCall
    /\ Idle \/ Connecting \/ Connected \/ Flowing \/ Ending \/ Closing

-----------------------------------------------------------------------------
(* Steps that carry what is on its way further                             *)

\* The question to the worker, in the part of a call it is asked in.
Asking ==
    /\ ~call_server_status => Asked \/ Answering \/ Answered
    /\ call_server_status => Asked \/ ((Answering \/ Answered) /\ ~Owes("IDLE"))

\* The protocol state, but for the start of the uplink.
LibKept ==
    /\ call_server_status' = call_server_status
    /\ lib.proto_state \in Active => lib'.proto_state \in Active
    /\ lib.proto_state \notin Active => lib'.proto_state = lib.proto_state
    /\ lib.proto_state \notin Active /\ lib.priv_state # "TIMING" =>
            lib'.priv_state = lib.priv_state
    /\ lib.priv_state \in {"IN_SYNC", "TIMING"} =>
            lib'.priv_state \in {"IN_SYNC", lib.priv_state}

Carries ==
    /\ LibKept
    /\ SameCall'
    /\ Unasked => Unasked'
    /\ Unasked /\ ~Owes("IDLE") => ~Owes("IDLE")' /\ state' = state
    /\ Asking => Asking'
    /\ Absent("SPEECH_CONFIG_REQ") => Absent("SPEECH_CONFIG_REQ")'
    /\ Transit("SPEECH_CONFIG_REQ") => Transit("SPEECH_CONFIG_REQ")'

Shapes == {<<"emit(1)", "MEDIA_FLOWING">>, <<"MEDIA_FLOWING">>}

KeepsRest ==
    /\ Left(Plain) => Left(Plain)'
    /\ Left(Plain \cup {"INITIALIZED"}) => Left(Plain \cup {"INITIALIZED"})'
    /\ rest \in Shapes => rest' = rest
    /\ rest \in EndSteps => rest' \in EndSteps

\* Such a step stays in the phase.
LEMMA StaysInPhase ==
    ASSUME Phases, Carries, KeepsRest
    PROVE  Phases'
<1>1. /\ LibKept /\ call_server_status' = call_server_status
      /\ "DISCONNECTED" \notin Active /\ "CONNECTED" \notin Active
    BY DEF Carries, LibKept, Active
<1> HIDE DEF Active
<1>2. CASE Idle
    <2>1. In(FALSE, {"DISCONNECTED"}, {"IN_SYNC"})'
        BY <1>1, <1>2 DEF Idle, In, LibKept
    <2> QED
        BY <1>2, <2>1 DEF Idle, Carries, KeepsRest, Phases
<1>3. CASE Connecting
    <2>1. Asking /\ call_server_status = TRUE
        BY <1>3 DEF Connecting, Asking, In
    <2>2. Asking' /\ call_server_status' = TRUE
        BY <1>1, <2>1 DEF Carries
    <2>3. Asked' \/ ((Answering' \/ Answered') /\ ~Owes("IDLE")')
        BY <2>2 DEF Asking
    <2>4. In(TRUE, {"DISCONNECTED"}, {"CONNECTING"})'
        BY <1>1, <1>3 DEF Connecting, In, LibKept
    <2>5. Connecting'
        BY <1>3, <2>3, <2>4 DEF Connecting, Carries, KeepsRest
    <2> QED
        BY <2>5 DEF Phases, Carries
<1>4. CASE Connected
    <2>1. Unasked' /\ ~Owes("IDLE")' /\ state' = state
        BY <1>4 DEF Connected, Carries
    <2>2. In(TRUE, {"CONNECTED"}, {"IN_SYNC"})'
        BY <1>1, <1>4 DEF Connected, In, LibKept
    <2>3. Connected'
        BY <1>4, <2>1, <2>2 DEF Connected, Carries, KeepsRest, Shapes
    <2> QED
        BY <2>3 DEF Phases, Carries
<1>5. CASE Flowing
    <2>1. Unasked' /\ ~Owes("IDLE")' /\ state' = state
        BY <1>5 DEF Flowing, Carries
    <2>2. In(TRUE, Active, {"IN_SYNC", "TIMING"})'
        BY <1>1, <1>5 DEF Flowing, In, LibKept
    <2>3. Flowing'
        BY <1>5, <2>1, <2>2 DEF Flowing, Carries, KeepsRest
    <2> QED
        BY <2>3 DEF Phases, Carries
<1>6. CASE Ending
    <2>1. In(FALSE, Active, {"IN_SYNC"})'
        BY <1>1, <1>6 DEF Ending, In, LibKept
    <2>2. Ending'
        BY <1>6, <2>1 DEF Ending, Carries, KeepsRest
    <2> QED
        BY <2>2 DEF Phases, Carries
<1>7. CASE Closing
    <2>1. Asking /\ call_server_status = FALSE
        BY <1>7 DEF Closing, Asking, In
    <2>2. Asking' /\ call_server_status' = FALSE
        BY <1>1, <2>1 DEF Carries
    <2>3. Asked' \/ Answering' \/ Answered'
        BY <2>2 DEF Asking
    <2>4. In(FALSE, {"CONNECTED"}, {"DISCONNECTING"})'
        BY <1>1, <1>7 DEF Closing, In, LibKept
    <2>5. Closing'
        BY <1>7, <2>3, <2>4 DEF Closing, Carries, KeepsRest
    <2> QED
        BY <2>5 DEF Phases, Carries
<1> QED
    BY <1>2, <1>3, <1>4, <1>5, <1>6, <1>7 DEF Phases

\* How the statements about the stream begin.
LEMMA Beginnings ==
    ASSUME NEW r
    PROVE  /\ r \in Shapes =>
                r # <<>> /\ Head(r) \in {"emit(1)", "MEDIA_FLOWING"}
           /\ r \in EndSteps =>
                /\ r # <<>>
                /\ \/ /\ Head(r) = "dl_active = false"
                      /\ Tail(r) = <<"TERMINATING", "emit(0)">>
                   \/ Head(r) = "TERMINATING" /\ Tail(r) = <<"emit(0)">>
                   \/ Head(r) = "emit(0)" /\ Tail(r) = <<>>
<1> DEFINE a == <<"emit(1)", "MEDIA_FLOWING">>
           b == <<"MEDIA_FLOWING">>
           c == <<"dl_active = false", "TERMINATING", "emit(0)">>
           d == <<"TERMINATING", "emit(0)">>
           e == <<"emit(0)">>
<1>1. /\ a # <<>> /\ Head(a) = "emit(1)"
      /\ b # <<>> /\ Head(b) = "MEDIA_FLOWING"
    OBVIOUS
<1>2. c # <<>> /\ Head(c) = "dl_active = false" /\ Tail(c) = d
    OBVIOUS
<1>3. d # <<>> /\ Head(d) = "TERMINATING" /\ Tail(d) = e
    OBVIOUS
<1>4. e # <<>> /\ Head(e) = "emit(0)" /\ Tail(e) = <<>>
    OBVIOUS
<1>5. Shapes = {a, b} /\ EndSteps = {c, d, e}
    BY DEF Shapes, EndSteps
<1> HIDE DEF a, b, c, d, e
<1>6. r \in Shapes => r # <<>> /\ Head(r) \in {"emit(1)", "MEDIA_FLOWING"}
    BY <1>1, <1>5, Zenon
<1>7. r \in EndSteps =>
        /\ r # <<>>
        /\ \/ Head(r) = "dl_active = false" /\ Tail(r) = d
           \/ Head(r) = "TERMINATING" /\ Tail(r) = e
           \/ Head(r) = "emit(0)" /\ Tail(r) = <<>>
    BY <1>2, <1>3, <1>4, <1>5, Zenon
<1> QED
    BY <1>6, <1>7 DEF d, e

RestMoves ==
    \/ rest' = rest
    \/ \E x \in Plain : Executes(x)
    \/ rest = <<>> /\ rest' = CloseSteps
    \/ rest = <<"join">> /\ rest' = <<"freed">>

\* The statements of a call that has no more to say about the stream.
LEMMA RestKept ==
    ASSUME TypeOK, RestMoves
    PROVE  KeepsRest
<1>1. rest \in Seq(Statements)
    BY DEF TypeOK
<1>2. CASE rest' = rest
    BY <1>2 DEF KeepsRest, Left
<1>3. ASSUME NEW x \in Plain, Executes(x) PROVE KeepsRest
    <2>1. rest # <<>> /\ Head(rest) = x /\ rest' = Tail(rest)
        BY <1>3 DEF Executes
    <2>2. /\ x # "emit(1)" /\ x # "MEDIA_FLOWING" /\ x # "TERMINATING"
          /\ x # "emit(0)"
        BY DEF Plain, States
    <2>3. rest \notin Shapes
        BY <2>1, <2>2, Beginnings
    <2>4. rest \in EndSteps => rest' = <<"TERMINATING", "emit(0)">>
        BY <2>1, <2>2, Beginnings, Zenon
    <2>5. ASSUME NEW S, Left(S) PROVE Left(S)'
        <3>1. \A k \in 1 .. Len(Tail(rest)) :
                    k + 1 \in 1 .. Len(rest) /\ Tail(rest)[k] = rest[k + 1]
            BY <1>1, <2>1
        <3> QED
            BY <2>1, <2>5, <3>1 DEF Left
    <2> QED
        BY <2>3, <2>4, <2>5 DEF KeepsRest, EndSteps
<1>4. ASSUME NEW S, S = Plain \/ S = Plain \cup {"INITIALIZED"},
             \/ rest = <<>> /\ rest' = CloseSteps
             \/ rest = <<"join">> /\ rest' = <<"freed">>
      PROVE  Left(S)'
    <2>1. {"THREAD_EXIT_REQ", "exit message", "join", "freed"} \subseteq S
        BY <1>4 DEF Plain, Statements, States
    <2>2. ASSUME NEW x \in S, NEW y \in S, NEW z \in S
          PROVE  <<x, y, z>> \in Seq(S) /\ <<x>> \in Seq(S)
        OBVIOUS
    <2>3. CloseSteps \in Seq(S) /\ <<"freed">> \in Seq(S)
        BY <2>1, <2>2, Zenon DEF CloseSteps
    <2>4. rest' \in Seq(S)
        BY <1>4, <2>3, Zenon
    <2> QED
        BY <2>4 DEF Left
<1>5. ASSUME \/ rest = <<>> /\ rest' = CloseSteps
             \/ rest = <<"join">> /\ rest' = <<"freed">>
      PROVE  KeepsRest
    <2>1. \/ rest = <<>>
          \/ rest # <<>> /\ Head(rest) = "join"
        <3>1. <<"join">> # <<>> /\ Head(<<"join">>) = "join"
            OBVIOUS
        <3> QED
            BY <1>5, <3>1, Zenon
    <2>2. rest \notin Shapes /\ rest \notin EndSteps
        BY <2>1, Beginnings
    <2> QED
        BY <1>4, <1>5, <2>2 DEF KeepsRest
<1> QED
    BY <1>2, <1>3, <1>5, Zenon DEF RestMoves

\* A step that does not touch the protocol state keeps it.
LEMMA LibUnchanged ==
    ASSUME UNCHANGED <<lib, call_server_status>>
    PROVE  LibKept
BY DEF LibKept

\* Steps that leave the pipes and the worker's replies alone.
LEMMA NothingCarried ==
    ASSUME Phases, UNCHANGED <<lib, call_server_status, state, toWorker, toApp,
                               pubbuf, worker>>
    PROVE  Carries
BY LibUnchanged DEF Carries, Phases, SameCall, AllSay, Unasked, Asking, Asked,
       Answering, Answered, Absent, Transit, Owes, NoneOf, OneOf

\* The worker goes on with its loop.
LEMMA WorkerGoesOn ==
    ASSUME Phases, UNCHANGED <<lib, call_server_status, state, toWorker, toApp,
                               pubbuf>>,
           worker'.todo = worker.todo,
           worker'.at # "reply" => worker.at # "reply" \/ worker.todo = <<>>
    PROVE  Carries
<1>1. SameCall'
    BY DEF Phases, SameCall, AllSay
<1> QED
    BY <1>1, LibUnchanged DEF Carries, Unasked, Asking, Asked, Answering, Answered,
       Absent, Transit, Owes, NoneOf, OneOf

\* The worker announces a frame.
LEMMA AnnouncementCarried ==
    ASSUME TypeOK, Phases,
           UNCHANGED <<lib, call_server_status, state, toWorker, pubbuf>>,
           worker'.todo = worker.todo, worker.at # "reply",
           toApp' = Append(toApp, Announcement)
    PROVE  Carries
<1>1. toApp \in Seq(ControlMsgs \cup {Announcement})
    BY DEF TypeOK
<1>2. ASSUME NEW type, type # "DL_DATA_AVAIL"
      PROVE  /\ NoneOf(toApp, type) => NoneOf(toApp', type)
             /\ OneOf(toApp, type) => OneOf(toApp', type)
             /\ \A on : AllSay(toApp, type, on) => AllSay(toApp', type, on)
    BY <1>1, <1>2, Joins DEF Announcement, Msg
<1>3. ASSUME NEW type, type # "DL_DATA_AVAIL"
      PROVE  /\ Absent(type) => Absent(type)'
             /\ Transit(type) => Transit(type)'
    BY <1>2, <1>3 DEF Absent, Transit
<1>4. SameCall'
    BY <1>2 DEF Phases, SameCall
<1>5. /\ Owes("IDLE")' <=> Owes("IDLE")
      /\ Owes("SSI_CONFIG_RESP")' <=> Owes("SSI_CONFIG_RESP")
    BY DEF Owes
<1>6. /\ Unasked => Unasked'
      /\ Asked => Asked'
      /\ Answering => Answering'
      /\ Answered => Answered'
    BY <1>3, <1>5 DEF Unasked, Asked, Answering, Answered
<1>7. Asking => Asking'
    BY <1>5, <1>6 DEF Asking
<1>8. Unasked /\ ~Owes("IDLE") => ~Owes("IDLE")' /\ state' = state
    BY <1>5
<1> QED
    BY <1>3, <1>4, <1>6, <1>7, <1>8, LibUnchanged DEF Carries

\* cmtspeech_check_pending moves a message from the pipe to pubbuf.
LEMMA MessageFetched ==
    ASSUME TypeOK, Phases, CheckPending
    PROVE  Carries
<1> DEFINE m == Head(toApp)
<1>1. /\ toApp \in Seq(ControlMsgs \cup {Announcement})
      /\ pubbuf \in Seq(ControlMsgs)
      /\ toApp # <<>> /\ toApp' = Tail(toApp)
    BY DEF TypeOK, CheckPending
<1>2. /\ m = Announcement /\ pubbuf' = pubbuf
      \/ pubbuf' = Append(pubbuf, m)
    BY DEF CheckPending
<1> HIDE DEF m
<1>3. ASSUME NEW type, type # "DL_DATA_AVAIL"
      PROVE  /\ Absent(type) => Absent(type)'
             /\ Transit(type) => Transit(type)'
             /\ \A on : AllSay(toApp, type, on) /\ AllSay(pubbuf, type, on) =>
                    AllSay(toApp', type, on) /\ AllSay(pubbuf', type, on)
    <2>1. /\ NoneOf(toApp, type) => NoneOf(toApp', type) /\ m.type # type
          /\ OneOf(toApp, type) /\ m.type = type => NoneOf(toApp', type)
          /\ OneOf(toApp, type) /\ m.type # type => OneOf(toApp', type)
          /\ \A on : AllSay(toApp, type, on) =>
                /\ AllSay(toApp', type, on)
                /\ m.type = type => m.on = on
        BY <1>1, Leaves DEF m
    <2>2. CASE m = Announcement /\ pubbuf' = pubbuf
        <3>1. m.type # type
            BY <1>3, <2>2 DEF Announcement, Msg
        <3> QED
            BY <2>1, <2>2, <3>1 DEF Absent, Transit
    <2>3. CASE pubbuf' = Append(pubbuf, m)
        <3>1. /\ NoneOf(pubbuf, type) /\ m.type # type => NoneOf(pubbuf', type)
              /\ NoneOf(pubbuf, type) /\ m.type = type => OneOf(pubbuf', type)
              /\ OneOf(pubbuf, type) /\ m.type # type => OneOf(pubbuf', type)
              /\ \A on : AllSay(pubbuf, type, on) /\ (m.type # type \/ m.on = on)
                            => AllSay(pubbuf', type, on)
            BY <1>1, <2>3, Joins
        <3> QED
            BY <2>1, <3>1 DEF Absent, Transit
    <2> QED
        BY <1>2, <2>2, <2>3
<1>4. UNCHANGED <<lib, call_server_status, state, toWorker, worker>>
    BY DEF CheckPending, shared
<1>5. SameCall'
    BY <1>3, <1>4 DEF Phases, SameCall
<1>6. /\ Owes("IDLE")' <=> Owes("IDLE")
      /\ Owes("SSI_CONFIG_RESP")' <=> Owes("SSI_CONFIG_RESP")
    BY <1>4 DEF Owes
<1>7. /\ Unasked => Unasked'
      /\ Asked => Asked'
      /\ Answering => Answering'
      /\ Answered => Answered'
    BY <1>3, <1>4, <1>6 DEF Unasked, Asked, Answering, Answered
<1>8. Asking => Asking'
    BY <1>4, <1>6, <1>7 DEF Asking
<1>9. Unasked /\ ~Owes("IDLE") => ~Owes("IDLE")' /\ state' = state
    BY <1>4, <1>6
<1> QED
    BY <1>3, <1>4, <1>5, <1>7, <1>8, <1>9, LibUnchanged DEF Carries

\* What handle_inbound_control_message replies.
LEMMA RepliesAre ==
    ASSUME NEW m
    PROVE  /\ m.type # "SSI_CONFIG_REQ" =>
                Replies(m) \in Seq({"UPLINK_CONFIG_NTF", "TIMING_CONFIG_NTF"})
           /\ m.type = "SSI_CONFIG_REQ" =>
                Replies(m) = <<"SSI_CONFIG_RESP">>
                                \o (IF m.on THEN <<>> ELSE <<"IDLE">>)
<1> DEFINE K == {"UPLINK_CONFIG_NTF", "TIMING_CONFIG_NTF"}
           ntf == IF state = "MEDIA_FLOWING" THEN <<"UPLINK_CONFIG_NTF">> ELSE <<>>
           timing == <<"TIMING_CONFIG_NTF">>
<1>1. ASSUME NEW x \in K PROVE <<x>> \in Seq(K)
    OBVIOUS
<1>2. <<"UPLINK_CONFIG_NTF">> \in Seq(K) /\ timing \in Seq(K) /\ <<>> \in Seq(K)
    BY <1>1
<1>3. ntf \in Seq(K)
    BY <1>2, Zenon
<1> HIDE DEF ntf, timing, K
<1>4. ntf \o timing \in Seq(K)
    BY <1>2, <1>3
<1> QED
    BY <1>2, <1>4, Zenon DEF Replies, ntf, timing, K

\* priv_read_control_message: the worker takes up what it is asked for.
LEMMA QuestionRead ==
    ASSUME TypeOK, Phases, WorkerReads
    PROVE  Carries
<1> DEFINE m == Head(toWorker)
           todo == Replies(m)
<1>1. /\ toWorker \in Seq(WorkerMsgs) /\ toWorker # <<>>
      /\ toWorker' = Tail(toWorker)
      /\ call_server_status \in BOOLEAN /\ worker \in Workers
    BY DEF TypeOK, WorkerReads
<1>2. UNCHANGED <<lib, call_server_status, state, toApp, pubbuf>>
    BY DEF WorkerReads, shared, app
<1>3. worker.todo = <<>>
    BY DEF Phases, SameCall, WorkerReads
<1>4. worker'.todo = todo /\ worker'.at = "reply"
    BY <1>1 DEF WorkerReads, Workers
<1>5. /\ NoneOf(toWorker, "SSI_CONFIG_REQ") =>
            NoneOf(toWorker', "SSI_CONFIG_REQ") /\ m.type # "SSI_CONFIG_REQ"
      /\ OneOf(toWorker, "SSI_CONFIG_REQ") /\ m.type = "SSI_CONFIG_REQ" =>
            NoneOf(toWorker', "SSI_CONFIG_REQ")
      /\ OneOf(toWorker, "SSI_CONFIG_REQ") /\ m.type # "SSI_CONFIG_REQ" =>
            OneOf(toWorker', "SSI_CONFIG_REQ")
      /\ AllSay(toWorker, "SSI_CONFIG_REQ", call_server_status) =>
            /\ AllSay(toWorker', "SSI_CONFIG_REQ", call_server_status)
            /\ m.type = "SSI_CONFIG_REQ" => m.on = call_server_status
    BY <1>1, Leaves
<1>6. SameCall' /\ (m.type = "SSI_CONFIG_REQ" => m.on = call_server_status)
    BY <1>2, <1>4, <1>5 DEF Phases, SameCall
<1>7. /\ ~Owes("IDLE") /\ ~Owes("SSI_CONFIG_RESP") /\ ~Answering
    <2>1. Len(worker.todo) = 0
        BY <1>3
    <2>2. <<"SSI_CONFIG_RESP">> \o (IF call_server_status THEN <<>> ELSE <<"IDLE">>)
            # <<>>
        <3>1. ASSUME NEW b \in {<<>>, <<"IDLE">>}
              PROVE  <<"SSI_CONFIG_RESP">> \o b # <<>>
            OBVIOUS
        <3> QED
            BY <3>1, Zenon
    <2> QED
        BY <1>3, <2>1, <2>2 DEF Owes, Answering
<1>8. /\ Absent("SSI_CONFIG_RESP")' <=> Absent("SSI_CONFIG_RESP")
      /\ Transit("SSI_CONFIG_RESP")' <=> Transit("SSI_CONFIG_RESP")
      /\ Absent("SPEECH_CONFIG_REQ")' <=> Absent("SPEECH_CONFIG_REQ")
      /\ Transit("SPEECH_CONFIG_REQ")' <=> Transit("SPEECH_CONFIG_REQ")
    BY <1>2 DEF Absent, Transit
<1> HIDE DEF m, todo
<1>9. CASE m.type # "SSI_CONFIG_REQ"
    <2>1. todo \in Seq({"UPLINK_CONFIG_NTF", "TIMING_CONFIG_NTF"})
        BY <1>9, RepliesAre DEF todo
    <2>2. ~Owes("IDLE")' /\ ~Owes("SSI_CONFIG_RESP")'
        BY <1>4, <2>1 DEF Owes
    <2>3. (Unasked => Unasked') /\ (Asked => Asked') /\ (Answered => Answered')
        BY <1>5, <1>8, <1>9, <2>2 DEF Unasked, Asked, Answered
    <2>4. Asking => Asking'
        BY <1>2, <1>7, <2>2, <2>3 DEF Asking
    <2> QED
        BY <1>2, <1>6, <1>8, <2>2, <2>3, <2>4, LibUnchanged DEF Carries
<1>10. CASE m.type = "SSI_CONFIG_REQ"
    <2>1. ~Unasked /\ ~Answered
        BY <1>5, <1>10 DEF Unasked, Answered
    <2>2. todo = <<"SSI_CONFIG_RESP">>
                    \o (IF call_server_status THEN <<>> ELSE <<"IDLE">>)
        BY <1>6, <1>10, RepliesAre DEF todo
    <2>3. Asked => Answering'
        BY <1>2, <1>4, <1>5, <1>8, <1>10, <2>2 DEF Asked, Answering
    <2>4. call_server_status => ~Owes("IDLE")'
        <3>1. <<"SSI_CONFIG_RESP">> \o <<>> = <<"SSI_CONFIG_RESP">>
            OBVIOUS
        <3>2. /\ Len(<<"SSI_CONFIG_RESP">>) = 1
              /\ <<"SSI_CONFIG_RESP">>[1] = "SSI_CONFIG_RESP"
            OBVIOUS
        <3> QED
            BY <1>4, <2>2, <3>1, <3>2 DEF Owes
    <2>5. Asking => Asking'
        BY <1>2, <1>7, <2>1, <2>3, <2>4 DEF Asking
    <2> QED
        BY <1>2, <1>6, <1>8, <2>1, <2>5, LibUnchanged DEF Carries
<1> QED
    BY <1>9, <1>10

\* Two replies in a row.
LEMMA Pair ==
    ASSUME NEW x, NEW y
    PROVE  <<x>> \o <<y>> = <<x, y>>
<1> DEFINE S == {x, y}
           c == <<x>> \o <<y>>
           d == <<x, y>>
<1>1. <<x>> \in Seq(S) /\ <<y>> \in Seq(S) /\ d \in Seq(S)
    OBVIOUS
<1>2. Len(<<x>>) = 1 /\ Len(<<y>>) = 1 /\ Len(d) = 2
    OBVIOUS
<1>3. c \in Seq(S) /\ Len(c) = 2
    BY <1>1, <1>2, ConcatProperties
<1>4. d[1] = x /\ d[2] = y /\ <<x>>[1] = x /\ <<y>>[1] = y
    OBVIOUS
<1>5. c[1] = x /\ c[2] = y
    BY <1>1, <1>2, <1>4, ConcatProperties
<1> HIDE DEF c, d, S
<1> QED
    <2>1. \A i \in 1 .. Len(c) : i = 1 \/ i = 2
        BY <1>3
    <2> SUFFICES c = d
        BY DEF c, d
    <2>2. \A i \in 1 .. Len(c) : c[i] = d[i]
        BY <2>1, <1>4, <1>5
    <2> QED
        BY <1>1, <1>2, <1>3, <2>2, SeqEqual

\* The three statements that end a stream.
LEMMA Triple ==
    ASSUME NEW x, NEW y, NEW z
    PROVE  <<x, y>> \o <<z>> = <<x, y, z>>
<1> DEFINE S == {x, y, z}
           c == <<x, y>> \o <<z>>
           d == <<x, y, z>>
<1>1. <<x, y>> \in Seq(S) /\ <<z>> \in Seq(S) /\ d \in Seq(S)
    OBVIOUS
<1>2. Len(<<x, y>>) = 2 /\ Len(<<z>>) = 1 /\ Len(d) = 3
    OBVIOUS
<1>3. c \in Seq(S) /\ Len(c) = 3
    BY <1>1, <1>2, ConcatProperties
<1>4. /\ d[1] = x /\ d[2] = y /\ d[3] = z
      /\ <<x, y>>[1] = x /\ <<x, y>>[2] = y /\ <<z>>[1] = z
    OBVIOUS
<1>5. c[1] = x /\ c[2] = y /\ c[3] = z
    BY <1>1, <1>2, <1>4, ConcatProperties
<1> HIDE DEF c, d, S
<1>6. \A i \in 1 .. Len(c) : i = 1 \/ i = 2 \/ i = 3
    BY <1>3
<1>7. \A i \in 1 .. Len(c) : c[i] = d[i]
    BY <1>4, <1>5, <1>6
<1>8. c = d
    BY <1>1, <1>2, <1>3, <1>7, SeqEqual
<1> QED
    BY <1>8 DEF c, d

\* The worker writes one of its replies, or becomes idle.
LEMMA ReplyCarried ==
    ASSUME TypeOK, Phases, WorkerReplies
    PROVE  Carries
<1> DEFINE r == Head(worker.todo)
           q == worker.todo
<1>1. /\ toApp \in Seq(ControlMsgs \cup {Announcement})
      /\ call_server_status \in BOOLEAN /\ worker \in Workers
      /\ q \in Seq(ReplySteps) /\ q # <<>>
    BY DEF TypeOK, WorkerReplies, Workers, ReplySteps
<1>2. UNCHANGED <<lib, call_server_status, toWorker, pubbuf>>
    BY DEF WorkerReplies, app
<1>3. worker'.todo = Tail(q) /\ worker'.at = "reply"
    BY <1>1 DEF WorkerReplies, Workers
<1>4. \/ r = "IDLE" /\ state' = "IDLE" /\ toApp' = toApp
      \/ r # "IDLE" /\ toApp' = Append(toApp, Msg(r)) /\ state' = state
    BY DEF WorkerReplies
<1>5. /\ Len(q) \in Nat /\ Len(q) > 0 /\ r = q[1] /\ r \in ReplySteps
      /\ Len(Tail(q)) = Len(q) - 1
      /\ \A j \in 1 .. Len(q) - 1 : Tail(q)[j] = q[j + 1]
    BY <1>1
<1>6. /\ Owes("IDLE")' => Owes("IDLE")
      /\ Owes("SSI_CONFIG_RESP")' => Owes("SSI_CONFIG_RESP")
      /\ r = "IDLE" => Owes("IDLE")
      /\ r = "SSI_CONFIG_RESP" => Owes("SSI_CONFIG_RESP")
    <2>1. ASSUME NEW x, NEW j \in 1 .. Len(worker'.todo), worker'.todo[j] = x
          PROVE  \E k \in 1 .. Len(worker.todo) : worker.todo[k] = x
        BY <1>3, <1>5, <2>1
    <2>2. ASSUME NEW x, r = x
          PROVE  \E k \in 1 .. Len(worker.todo) : worker.todo[k] = x
        BY <1>5, <2>2
    <2> QED
        BY <2>1, <2>2 DEF Owes
<1>7. Answering =>
        /\ r = "SSI_CONFIG_RESP"
        /\ worker'.todo = IF call_server_status THEN <<>> ELSE <<"IDLE">>
    <2>1. ASSUME NEW b \in {<<>>, <<"IDLE">>}
          PROVE  /\ Head(<<"SSI_CONFIG_RESP">> \o b) = "SSI_CONFIG_RESP"
                 /\ Tail(<<"SSI_CONFIG_RESP">> \o b) = b
        <3>1. <<"SSI_CONFIG_RESP">> \o <<>> = <<"SSI_CONFIG_RESP">>
            OBVIOUS
        <3>2. <<"SSI_CONFIG_RESP">> \o <<"IDLE">> = <<"SSI_CONFIG_RESP", "IDLE">>
            BY Pair, Zenon
        <3>3. /\ Head(<<"SSI_CONFIG_RESP">>) = "SSI_CONFIG_RESP"
              /\ Tail(<<"SSI_CONFIG_RESP">>) = <<>>
            OBVIOUS
        <3>4. /\ Head(<<"SSI_CONFIG_RESP", "IDLE">>) = "SSI_CONFIG_RESP"
              /\ Tail(<<"SSI_CONFIG_RESP", "IDLE">>) = <<"IDLE">>
            OBVIOUS
        <3> QED
            BY <2>1, <3>1, <3>2, <3>3, <3>4, Zenon
    <2> QED
        BY <1>3, <2>1, Zenon DEF Answering
<1> HIDE DEF r, q
<1>8. CASE r = "IDLE"
    <2>1. toApp' = toApp /\ Owes("IDLE") /\ ~Answering
        BY <1>4, <1>6, <1>7, <1>8
    <2>2. SameCall'
        BY <1>2, <1>3, <2>1 DEF Phases, SameCall
    <2>3. /\ Absent("SSI_CONFIG_RESP")' <=> Absent("SSI_CONFIG_RESP")
          /\ Transit("SSI_CONFIG_RESP")' <=> Transit("SSI_CONFIG_RESP")
          /\ Absent("SPEECH_CONFIG_REQ")' <=> Absent("SPEECH_CONFIG_REQ")
          /\ Transit("SPEECH_CONFIG_REQ")' <=> Transit("SPEECH_CONFIG_REQ")
        BY <1>2, <2>1 DEF Absent, Transit
    <2>4. (Unasked => Unasked') /\ (Asked => Asked') /\ (Answered => Answered')
        BY <1>2, <1>6, <2>3 DEF Unasked, Asked, Answered
    <2>5. Asking => Asking'
        BY <1>2, <2>1, <2>4 DEF Asking
    <2> QED
        BY <1>2, <2>1, <2>2, <2>3, <2>4, <2>5, LibUnchanged DEF Carries
<1>9. CASE r # "IDLE"
    <2>1. /\ toApp' = Append(toApp, Msg(r)) /\ state' = state
          /\ Msg(r).type = r
        BY <1>4, <1>9 DEF Msg
    <2>2. ASSUME NEW type, NEW on
          PROVE  /\ NoneOf(toApp, type) /\ r # type => NoneOf(toApp', type)
                 /\ NoneOf(toApp, type) /\ r = type => OneOf(toApp', type)
                 /\ OneOf(toApp, type) /\ r # type => OneOf(toApp', type)
                 /\ AllSay(toApp, type, on) /\ r # type => AllSay(toApp', type, on)
        BY <1>1, <2>1, Joins
    <2>3. r # "SPEECH_CONFIG_REQ"
        BY <1>5 DEF ReplySteps
    <2>4. /\ Absent("SPEECH_CONFIG_REQ") => Absent("SPEECH_CONFIG_REQ")'
          /\ Transit("SPEECH_CONFIG_REQ") => Transit("SPEECH_CONFIG_REQ")'
        BY <1>2, <2>2, <2>3 DEF Absent, Transit
    <2>5. SameCall'
        BY <1>2, <1>3, <2>2, <2>3 DEF Phases, SameCall
    <2>6. CASE r = "SSI_CONFIG_RESP"
        <3>1. ~Unasked /\ ~Asked /\ ~Answered
            BY <1>6, <2>6 DEF Unasked, Asked, Answered
        <3>2. Answering => ~Owes("SSI_CONFIG_RESP")'
            <4>1. ASSUME NEW b \in {<<>>, <<"IDLE">>}
                  PROVE  \A j \in 1 .. Len(b) : b[j] # "SSI_CONFIG_RESP"
                OBVIOUS
            <4> QED
                BY <1>7, <4>1, Zenon DEF Owes
        <3>3. Answering => Answered'
            BY <1>2, <2>2, <2>6, <3>2 DEF Answering, Answered, Absent, Transit
        <3>4. Answering /\ call_server_status => ~Owes("IDLE")'
            <4>1. Answering /\ call_server_status => worker'.todo = <<>>
                BY <1>7, Zenon
            <4> QED
                BY <4>1 DEF Owes
        <3>5. Asking => Asking'
            BY <1>2, <3>1, <3>3, <3>4 DEF Asking
        <3> QED
            BY <1>2, <2>4, <2>5, <3>1, <3>5, LibUnchanged DEF Carries
    <2>7. CASE r # "SSI_CONFIG_RESP"
        <3>1. /\ Absent("SSI_CONFIG_RESP") => Absent("SSI_CONFIG_RESP")'
              /\ Transit("SSI_CONFIG_RESP") => Transit("SSI_CONFIG_RESP")'
            BY <1>2, <2>2, <2>7 DEF Absent, Transit
        <3>2. (Unasked => Unasked') /\ (Asked => Asked') /\ (Answered => Answered')
            BY <1>2, <1>6, <3>1 DEF Unasked, Asked, Answered
        <3>3. ~Answering
            BY <1>7, <2>7
        <3>4. Asking => Asking'
            BY <1>2, <1>6, <3>2, <3>3 DEF Asking
        <3> QED
            BY <1>2, <1>6, <2>1, <2>4, <2>5, <3>2, <3>4, LibUnchanged DEF Carries
    <2> QED
        BY <2>6, <2>7
<1> QED
    BY <1>8, <1>9

-----------------------------------------------------------------------------
(* Steps from one phase to the next                                        *)

\* The first of the statements that are left is the next one.
LEMMA ExecutesFirst ==
    ASSUME TypeOK, NEW x, Executes(x)
    PROVE  \A S : Left(S) => x \in S /\ Left(S)'
<1>1. /\ rest \in Seq(Statements) /\ rest # <<>> /\ Head(rest) = x
      /\ rest' = Tail(rest)
    BY DEF TypeOK, Executes
<1>2. /\ 1 \in 1 .. Len(rest) /\ x = rest[1]
      /\ \A k \in 1 .. Len(Tail(rest)) :
            k + 1 \in 1 .. Len(rest) /\ Tail(rest)[k] = rest[k + 1]
    BY <1>1
<1> QED
    BY <1>1, <1>2 DEF Left

\* Which statements about the stream belong to which phase.
LEMMA StatementsOf ==
    ASSUME TypeOK, Phases, NEW x, Executes(x), x \notin Plain
    PROVE  \/ /\ x = "INITIALIZED" /\ Connecting
              /\ Left(Plain \cup {"INITIALIZED"})'
           \/ /\ x = "emit(1)" /\ Connected /\ Absent("SPEECH_CONFIG_REQ")
              /\ rest' = <<"MEDIA_FLOWING">>
           \/ /\ x = "MEDIA_FLOWING" /\ Connected
              /\ Transit("SPEECH_CONFIG_REQ") /\ rest' = <<>>
           \/ /\ x = "TERMINATING" /\ Ending /\ Absent("SPEECH_CONFIG_REQ")
              /\ rest' \in EndSteps
           \/ /\ x = "emit(0)" /\ Ending /\ Absent("SPEECH_CONFIG_REQ")
              /\ rest' = <<>>
<1>1. rest # <<>> /\ Head(rest) = x /\ rest' = Tail(rest)
    BY DEF Executes
<1>2. ~Left(Plain)
    BY ExecutesFirst
<1>3. Connecting \/ Connected \/ Ending
    BY <1>2 DEF Phases, Idle, Flowing, Closing
<1>4. CASE Connecting
    <2>1. x = "INITIALIZED" /\ Left(Plain \cup {"INITIALIZED"})'
        BY <1>4, ExecutesFirst DEF Connecting
    <2> QED
        BY <1>4, <2>1
<1>5. CASE Connected
    <2>1. CASE rest = <<"emit(1)", "MEDIA_FLOWING">> /\ Absent("SPEECH_CONFIG_REQ")
        <3>1. x = "emit(1)" /\ rest' = <<"MEDIA_FLOWING">>
            BY <1>1, <2>1
        <3> QED
            BY <1>5, <2>1, <3>1
    <2>2. CASE rest = <<"MEDIA_FLOWING">> /\ Transit("SPEECH_CONFIG_REQ")
        <3>1. x = "MEDIA_FLOWING" /\ rest' = <<>>
            BY <1>1, <2>2
        <3> QED
            BY <1>5, <2>2, <3>1
    <2> QED
        BY <1>2, <1>5, <2>1, <2>2 DEF Connected
<1>6. CASE Ending
    <2>1. rest \in EndSteps /\ Absent("SPEECH_CONFIG_REQ")
        BY <1>2, <1>6 DEF Ending
    <2>2. \/ x = "dl_active = false"
          \/ x = "TERMINATING" /\ rest' = <<"emit(0)">>
          \/ x = "emit(0)" /\ rest' = <<>>
        BY <1>1, <2>1, Beginnings, Zenon
    <2>3. "dl_active = false" \in Plain
        BY DEF Plain, Statements, States
    <2>4. <<"emit(0)">> \in EndSteps
        BY DEF EndSteps
    <2> QED
        BY <1>6, <2>1, <2>2, <2>3, <2>4
<1> QED
    BY <1>3, <1>4, <1>5, <1>6

\* A step that only the application's statements and the state take part in.
LEMMA OnItsWayKept ==
    ASSUME Phases, UNCHANGED <<lib, call_server_status, toWorker, toApp, pubbuf,
                               worker>>
    PROVE  /\ SameCall'
           /\ Unasked' <=> Unasked
           /\ Asking' <=> Asking
           /\ Owes("IDLE")' <=> Owes("IDLE")
           /\ Absent("SPEECH_CONFIG_REQ")' <=> Absent("SPEECH_CONFIG_REQ")
           /\ Transit("SPEECH_CONFIG_REQ")' <=> Transit("SPEECH_CONFIG_REQ")
BY DEF Phases, SameCall, AllSay, Unasked, Asking, Asked, Answering, Answered,
       Absent, Transit, Owes, NoneOf, OneOf

\* The application stores the state of the call.
LEMMA StateStored ==
    ASSUME TypeOK, Phases, StoreState
    PROVE  Phases'
<1>1. PICK new \in States : Executes(new) /\ state' = new
    BY DEF StoreState
<1>2. UNCHANGED <<lib, call_server_status, toWorker, toApp, pubbuf, worker>>
    BY <1>1 DEF StoreState, Executes, app
<1>3. new \notin Plain /\ new # "emit(1)" /\ new # "emit(0)"
    BY DEF Plain, States
<1>4. In(TRUE, {"DISCONNECTED"}, {"CONNECTING"})
            => In(TRUE, {"DISCONNECTED"}, {"CONNECTING"})'
    BY <1>2 DEF In
<1>5. CASE Connecting /\ Left(Plain \cup {"INITIALIZED"})'
    <2>1. Asking /\ call_server_status = TRUE
        BY <1>5 DEF Connecting, Asking, In
    <2>2. Asking' /\ call_server_status' = TRUE
        BY <1>2, <2>1, OnItsWayKept
    <2>3. Asked' \/ ((Answering' \/ Answered') /\ ~Owes("IDLE")')
        BY <2>2 DEF Asking
    <2> QED
        BY <1>2, <1>4, <1>5, <2>3, OnItsWayKept DEF Connecting, Phases
<1>6. CASE new = "MEDIA_FLOWING" /\ Connected /\ Transit("SPEECH_CONFIG_REQ")
           /\ rest' = <<>>
    <2>1. Left(Plain)'
        BY <1>6 DEF Left
    <2>2. In(TRUE, {"CONNECTED"}, {"IN_SYNC"})'
        BY <1>2, <1>6 DEF Connected, In
    <2> QED
        BY <1>1, <1>2, <1>6, <2>1, <2>2, OnItsWayKept DEF Connected, Phases
<1>7. CASE Ending /\ Absent("SPEECH_CONFIG_REQ") /\ rest' \in EndSteps
    <2>1. In(FALSE, Active, {"IN_SYNC"})'
        BY <1>2, <1>7 DEF Ending, In
    <2> QED
        BY <1>2, <1>7, <2>1, OnItsWayKept DEF Ending, Phases
<1> QED
    BY <1>1, <1>3, <1>5, <1>6, <1>7, StatementsOf

\* priv_emit_speech_config_req: the request to start the stream or to stop it.
LEMMA RequestEmitted ==
    ASSUME TypeOK, Phases, Emit
    PROVE  Phases'
<1> DEFINE type == "SPEECH_CONFIG_REQ"
<1>1. UNCHANGED <<lib, call_server_status, state, toWorker, pubbuf, worker>>
    BY DEF Emit, Executes, app, shared
<1>2. toApp \in Seq(ControlMsgs \cup {Announcement})
    BY DEF TypeOK
<1>3. ASSUME NEW on \in BOOLEAN, NEW m, m = SpeechConfigReq(on),
             toApp' = Append(toApp, m), call_server_status = on,
             Absent(type), Unasked
      PROVE  /\ Transit(type)' /\ Unasked' /\ SameCall'
             /\ Owes("IDLE")' <=> Owes("IDLE")
    <2>1. m.type = type /\ m.on = on
        BY <1>3 DEF SpeechConfigReq
    <2>2. /\ NoneOf(toApp, type) => OneOf(toApp', type)
          /\ NoneOf(toApp, "SSI_CONFIG_RESP") => NoneOf(toApp', "SSI_CONFIG_RESP")
          /\ AllSay(toApp, type, on) => AllSay(toApp', type, on)
        BY <1>2, <1>3, <2>1, Joins
    <2>3. Transit(type)'
        BY <1>1, <1>3, <2>2 DEF Absent, Transit
    <2>4. /\ Owes("IDLE")' <=> Owes("IDLE")
          /\ Owes("SSI_CONFIG_RESP")' <=> Owes("SSI_CONFIG_RESP")
        BY <1>1 DEF Owes
    <2>5. Unasked'
        BY <1>1, <1>3, <2>2, <2>4 DEF Unasked, Absent
    <2>6. SameCall'
        BY <1>1, <1>3, <2>2 DEF Phases, SameCall
    <2> QED
        BY <2>3, <2>4, <2>5, <2>6
<1>4. "emit(1)" \notin Plain /\ "emit(0)" \notin Plain
    BY DEF Plain
<1>5. CASE Executes("emit(1)") /\ toApp' = Append(toApp, SpeechConfigReq(TRUE))
    <2>1. Connected /\ Absent(type) /\ rest' = <<"MEDIA_FLOWING">>
        BY <1>4, <1>5, StatementsOf
    <2>2. call_server_status = TRUE /\ Unasked /\ ~Owes("IDLE")
        BY <2>1 DEF Connected, In
    <2>3. /\ Transit(type)' /\ Unasked' /\ SameCall'
          /\ Owes("IDLE")' <=> Owes("IDLE")
        BY <1>3, <1>5, <2>1, <2>2
    <2>4. In(TRUE, {"CONNECTED"}, {"IN_SYNC"})'
        BY <1>1, <2>1 DEF Connected, In
    <2> QED
        BY <2>1, <2>2, <2>3, <2>4 DEF Connected, Phases
<1>6. CASE Executes("emit(0)") /\ toApp' = Append(toApp, SpeechConfigReq(FALSE))
    <2>1. Ending /\ Absent(type) /\ rest' = <<>>
        BY <1>4, <1>6, StatementsOf
    <2>2. call_server_status = FALSE /\ Unasked
        BY <2>1 DEF Ending, In
    <2>3. Transit(type)' /\ Unasked' /\ SameCall'
        BY <1>3, <1>6, <2>1, <2>2
    <2>4. In(FALSE, Active, {"IN_SYNC"})'
        BY <1>1, <2>1 DEF Ending, In
    <2>5. Left(Plain)'
        BY <2>1 DEF Left
    <2> QED
        BY <2>3, <2>4, <2>5 DEF Ending, Phases
<1> QED
    BY <1>5, <1>6 DEF Emit

\* What a call leaves behind.
LEMMA Updated ==
    ASSUME NEW t, NEW proto, NEW priv, NEW active, NEW sent,
           Has(t, proto, priv, active, sent), Updates(t)
    PROVE  /\ lib'.proto_state = proto /\ lib'.priv_state = priv
           /\ lib'.call_server_active = active
           /\ toWorker' = toWorker \o sent
BY DEF Has, Updates, LibStates

\* One message, or none, for the worker.
LEMMA Written ==
    ASSUME TypeOK, NEW m
    PROVE  /\ toWorker \o <<>> = toWorker
           /\ NoneOf(toWorker, "SSI_CONFIG_REQ") =>
                /\ m.type = "SSI_CONFIG_REQ" =>
                    /\ OneOf(toWorker \o <<m>>, "SSI_CONFIG_REQ")
                    /\ AllSay(toWorker \o <<m>>, "SSI_CONFIG_REQ", m.on)
                /\ m.type # "SSI_CONFIG_REQ" =>
                    NoneOf(toWorker \o <<m>>, "SSI_CONFIG_REQ")
<1> DEFINE S == WorkerMsgs \cup {m}
           type == "SSI_CONFIG_REQ"
<1>1. toWorker \in Seq(S) /\ m \in S
    BY DEF TypeOK
<1>2. toWorker \o <<>> = toWorker
    BY <1>1, ConcatEmptySeq
<1> HIDE DEF S
<1>3. toWorker \o <<m>> = Append(toWorker, m)
    BY <1>1, AppendIsConcat
<1>4. NoneOf(toWorker, type) => AllSay(toWorker, type, m.on)
    BY DEF NoneOf, AllSay
<1>5. NoneOf(toWorker, type) =>
        /\ m.type = type =>
            /\ OneOf(Append(toWorker, m), type)
            /\ AllSay(Append(toWorker, m), type, m.on)
        /\ m.type # type => NoneOf(Append(toWorker, m), type)
    BY <1>1, <1>4, Joins
<1> QED
    BY <1>2, <1>3, <1>5

\* Nothing is said about the connection or the stream.
LEMMA NothingSaid ==
    ASSUME SameCall, Unasked, Absent("SPEECH_CONFIG_REQ")
    PROVE  \A on : /\ AllSay(toWorker, "SSI_CONFIG_REQ", on)
                   /\ AllSay(toApp, "SPEECH_CONFIG_REQ", on)
                   /\ AllSay(pubbuf, "SPEECH_CONFIG_REQ", on)
BY DEF Unasked, Absent, NoneOf, AllSay

\* The state of the library, in the terms of Has.
LEMMA LibHas ==
    ASSUME TypeOK, SameCall
    PROVE  Has(lib, lib.proto_state, lib.priv_state, call_server_status, lib.sent)
BY DEF TypeOK, SameCall, Has

\* The call status changes: between two calls, or while speech flows.
LEMMA CallStatusChanged ==
    ASSUME TypeOK, Phases, CallStatus
    PROVE  Phases'
<1> DEFINE on == call_server_status'
           t == cmtspeech_state_change_call_status(lib, on, {})
           w == SsiConfigReq(TRUE, lib.conf_proto_version)
<1>1. /\ UNCHANGED <<state, toApp, pubbuf, worker>>
      /\ call_server_status' = ~call_server_status
      /\ Settled /\ rest = <<>>
      /\ Updates(t) /\ rest' = AfterCallStatus(t, on)
    BY DEF CallStatus, shared
<1>2. lib.priv_state = "IN_SYNC"
    BY <1>1 DEF Settled
<1>3. Has(lib, lib.proto_state, "IN_SYNC", call_server_status, lib.sent)
    BY <1>2, LibHas DEF Phases
<1>4. NoneOf(toApp, "SPEECH_CONFIG_REQ") /\ NoneOf(pubbuf, "SPEECH_CONFIG_REQ")
    BY <1>1 DEF Settled, Announcement, Msg, NoneOf
<1>5. Absent("SPEECH_CONFIG_REQ") /\ ~Transit("SPEECH_CONFIG_REQ")
    <2>1. ~OneOf(toApp, "SPEECH_CONFIG_REQ") /\ ~OneOf(pubbuf, "SPEECH_CONFIG_REQ")
        BY <1>4 DEF NoneOf, OneOf
    <2> QED
        BY <1>4, <2>1 DEF Absent, Transit
<1>6. rest \notin EndSteps
    BY <1>1, Beginnings
<1>7. Idle \/ Flowing
    <2>1. ~Connecting /\ ~Closing
        BY <1>2 DEF Connecting, Closing, In
    <2>2. ~Connected /\ ~Ending
        <3>1. rest # <<"emit(1)", "MEDIA_FLOWING">>
            <4>1. <<"emit(1)", "MEDIA_FLOWING">> \in Shapes
                BY DEF Shapes
            <4> QED
                BY <1>1, <4>1, Beginnings
        <3> QED
            BY <1>5, <1>6, <3>1 DEF Connected, Ending
    <2> QED
        BY <2>1, <2>2 DEF Phases
<1>8. /\ Owes("IDLE")' <=> Owes("IDLE")
      /\ Owes("SSI_CONFIG_RESP")' <=> Owes("SSI_CONFIG_RESP")
      /\ Absent("SSI_CONFIG_RESP")' <=> Absent("SSI_CONFIG_RESP")
      /\ Absent("SPEECH_CONFIG_REQ")'
      /\ worker'.at # "reply" => worker'.todo = <<>>
    BY <1>1, <1>5 DEF Owes, Absent, Phases, SameCall
<1> HIDE DEF t
<1>9. CASE Idle
    <2>1. on = TRUE /\ lib.proto_state = "DISCONNECTED" /\ Unasked
        BY <1>1, <1>9 DEF Idle, In
    <2>2. Has(t, "DISCONNECTED", "CONNECTING", TRUE, <<w>>)
        BY <1>3, <2>1, CallStatusDoes DEF t
    <2>3. w.type = "SSI_CONFIG_REQ" /\ w.on = TRUE
        BY DEF SsiConfigReq
    <2> HIDE DEF w
    <2>4. /\ lib'.proto_state = "DISCONNECTED" /\ lib'.priv_state = "CONNECTING"
          /\ lib'.call_server_active = TRUE /\ toWorker' = toWorker \o <<w>>
        BY <1>1, <2>2, Updated
    <2>5. /\ OneOf(toWorker', "SSI_CONFIG_REQ")
          /\ AllSay(toWorker', "SSI_CONFIG_REQ", TRUE)
        <3>1. /\ OneOf(toWorker \o <<w>>, "SSI_CONFIG_REQ")
              /\ AllSay(toWorker \o <<w>>, "SSI_CONFIG_REQ", w.on)
            BY <2>1, <2>3, Written DEF Unasked
        <3> QED
            BY <2>3, <2>4, <3>1
    <2>6. Asked'
        BY <1>8, <2>1, <2>5 DEF Unasked, Asked
    <2>7. SameCall'
        <3>1. AllSay(toApp, "SPEECH_CONFIG_REQ", on)
                /\ AllSay(pubbuf, "SPEECH_CONFIG_REQ", on)
            BY <1>5, <2>1, NothingSaid DEF Phases
        <3> QED
            BY <1>1, <1>8, <2>1, <2>4, <2>5, <3>1 DEF SameCall
    <2>8. Left(Plain \cup {"INITIALIZED"})'
        BY <1>1, <2>1 DEF AfterCallStatus, Left
    <2>9. In(TRUE, {"DISCONNECTED"}, {"CONNECTING"})'
        BY <2>1, <2>4 DEF In
    <2> QED
        BY <1>8, <2>6, <2>7, <2>8, <2>9 DEF Connecting, Phases
<1>10. CASE Flowing
    <2>1. /\ on = FALSE /\ lib.proto_state = "ACTIVE_DLUL" /\ Unasked
        BY <1>1, <1>10 DEF Flowing, In, Settled, Active
    <2>2. Has(t, "ACTIVE_DLUL", "IN_SYNC", FALSE, <<>>)
        BY <1>3, <2>1, CallStatusDoes DEF t
    <2>3. /\ lib'.proto_state = "ACTIVE_DLUL" /\ lib'.priv_state = "IN_SYNC"
          /\ lib'.call_server_active = FALSE /\ toWorker' = toWorker \o <<>>
        BY <1>1, <2>2, Updated
    <2>4. toWorker' = toWorker
        BY <2>3, Written
    <2>5. SameCall'
        <3>1. /\ AllSay(toApp, "SPEECH_CONFIG_REQ", on)
              /\ AllSay(pubbuf, "SPEECH_CONFIG_REQ", on)
              /\ AllSay(toWorker, "SSI_CONFIG_REQ", on)
            BY <1>5, <2>1, NothingSaid DEF Phases
        <3> QED
            BY <1>1, <1>8, <2>1, <2>3, <2>4, <3>1 DEF SameCall
    <2>6. Unasked'
        BY <1>8, <2>1, <2>4 DEF Unasked
    <2>7. rest' \in EndSteps
        <3>1. t.proto_state \in Active
            BY <2>2 DEF Has, Active
        <3>2. rest' = <<"dl_active = false", "TERMINATING">> \o <<"emit(0)">>
            BY <1>1, <2>1, <3>1 DEF AfterCallStatus
        <3>3. <<"dl_active = false", "TERMINATING">> \o <<"emit(0)">>
                = <<"dl_active = false", "TERMINATING", "emit(0)">>
            BY Triple
        <3> QED
            BY <3>2, <3>3 DEF EndSteps
    <2>8. In(FALSE, Active, {"IN_SYNC"})'
        BY <2>1, <2>3 DEF In, Active
    <2> QED
        BY <1>8, <2>5, <2>6, <2>7, <2>8 DEF Ending, Phases
<1> QED
    BY <1>7, <1>9, <1>10

\* cmtspeech_read_event takes a message from pubbuf.
LEMMA EventTaken ==
    ASSUME TypeOK, Phases, ReadEvent
    PROVE  /\ \A type :
                /\ NoneOf(pubbuf, type) =>
                    NoneOf(pubbuf', type) /\ Head(pubbuf).type # type
                /\ Absent(type) => Absent(type)' /\ Head(pubbuf).type # type
                /\ Transit(type) /\ Head(pubbuf).type = type => Absent(type)'
                /\ Transit(type) /\ Head(pubbuf).type # type => Transit(type)'
           /\ \A type, on : AllSay(pubbuf, type, on) =>
                /\ AllSay(pubbuf', type, on)
                /\ Head(pubbuf).type = type => Head(pubbuf).on = on
           /\ UNCHANGED <<call_server_status, state, toApp, worker>>
           /\ Owes("IDLE")' <=> Owes("IDLE")
           /\ Owes("SSI_CONFIG_RESP")' <=> Owes("SSI_CONFIG_RESP")
           /\ Head(pubbuf) \in ControlMsgs
           /\ rest = <<>>
<1>1. /\ pubbuf \in Seq(ControlMsgs) /\ pubbuf # <<>> /\ pubbuf' = Tail(pubbuf)
      /\ UNCHANGED <<call_server_status, state, toApp, worker>> /\ rest = <<>>
    BY DEF TypeOK, ReadEvent, shared
<1>2. ASSUME NEW type
      PROVE  /\ NoneOf(pubbuf, type) =>
                    NoneOf(pubbuf', type) /\ Head(pubbuf).type # type
             /\ Absent(type) => Absent(type)' /\ Head(pubbuf).type # type
             /\ Transit(type) /\ Head(pubbuf).type = type => Absent(type)'
             /\ Transit(type) /\ Head(pubbuf).type # type => Transit(type)'
    <2>1. /\ NoneOf(pubbuf, type) =>
                NoneOf(pubbuf', type) /\ Head(pubbuf).type # type
          /\ OneOf(pubbuf, type) /\ Head(pubbuf).type = type => NoneOf(pubbuf', type)
          /\ OneOf(pubbuf, type) /\ Head(pubbuf).type # type => OneOf(pubbuf', type)
        BY <1>1, Leaves
    <2> QED
        BY <1>1, <2>1 DEF Absent, Transit
<1>3. ASSUME NEW type, NEW on, AllSay(pubbuf, type, on)
      PROVE  /\ AllSay(pubbuf', type, on)
             /\ Head(pubbuf).type = type => Head(pubbuf).on = on
    BY <1>1, <1>3, Leaves
<1>4. /\ Owes("IDLE")' <=> Owes("IDLE")
      /\ Owes("SSI_CONFIG_RESP")' <=> Owes("SSI_CONFIG_RESP")
    BY <1>1 DEF Owes
<1> QED
    BY <1>1, <1>2, <1>3, <1>4

\* The connection is there, or is gone.
LEMMA AnswerRead ==
    ASSUME TypeOK, Phases, ReadEvent, Head(pubbuf).type = "SSI_CONFIG_RESP"
    PROVE  Phases'
<1> DEFINE m == Head(pubbuf)
           t == Handled(lib, m)
<1>1. Updates(t) /\ rest' = AfterEvent(lib, t, m)
    BY DEF ReadEvent
<1>2. Has(lib, lib.proto_state, lib.priv_state, call_server_status, lib.sent)
    BY LibHas DEF Phases
<1>3. ~Absent("SSI_CONFIG_RESP")
    BY EventTaken
<1>4. Answered /\ (Connecting \/ Closing)
    BY <1>3 DEF Phases, Idle, Connecting, Connected, Flowing, Ending, Closing,
            Unasked, Asked, Answering, Answered
<1>5. /\ Absent("SSI_CONFIG_RESP")'
      /\ Absent("SPEECH_CONFIG_REQ") /\ Absent("SPEECH_CONFIG_REQ")'
    BY <1>4, EventTaken DEF Answered, Connecting, Closing
<1> HIDE DEF t
<1>6. ASSUME NEW proto, NEW active, active = call_server_status,
             Has(t, proto, "IN_SYNC", active, <<>>)
      PROVE  /\ lib'.proto_state = proto /\ lib'.priv_state = "IN_SYNC"
             /\ Unasked' /\ SameCall'
    <2>1. /\ lib'.proto_state = proto /\ lib'.priv_state = "IN_SYNC"
          /\ lib'.call_server_active = active /\ toWorker' = toWorker
        BY <1>1, <1>6, Updated, Written
    <2>2. Unasked'
        BY <1>4, <1>5, <2>1, EventTaken DEF Answered, Unasked
    <2>3. SameCall'
        BY <1>6, <2>1, EventTaken DEF Phases, SameCall
    <2> QED
        BY <2>1, <2>2, <2>3
<1>7. CASE Connecting
    <2>1. /\ call_server_status = TRUE /\ lib.proto_state = "DISCONNECTED"
          /\ lib.priv_state = "CONNECTING" /\ ~Owes("IDLE")
        BY <1>3, <1>7 DEF Connecting, In, Asked
    <2>2. Has(t, "CONNECTED", "IN_SYNC", TRUE, <<>>)
        BY <1>2, <2>1, AnsweredDoes DEF t
    <2>3. /\ lib'.proto_state = "CONNECTED" /\ lib'.priv_state = "IN_SYNC"
          /\ Unasked' /\ SameCall'
        BY <1>6, <2>1, <2>2
    <2>6. In(TRUE, {"CONNECTED"}, {"IN_SYNC"})'
        BY <2>1, <2>3, EventTaken DEF In
    <2>4. rest' = <<"emit(1)", "MEDIA_FLOWING">>
        <3>1. rest' = <<"emit(1)">> \o <<"MEDIA_FLOWING">>
            BY <1>1, <2>1, <2>2 DEF AfterEvent, Has
        <3> QED
            BY <3>1, Pair
    <2>5. ~Owes("IDLE")'
        BY <2>1, EventTaken
    <2> QED
        BY <1>5, <2>3, <2>4, <2>5, <2>6 DEF Connected, Phases
<1>8. CASE Closing
    <2>1. /\ call_server_status = FALSE /\ lib.proto_state = "CONNECTED"
          /\ lib.priv_state = "DISCONNECTING"
        BY <1>8 DEF Closing, In
    <2>2. Has(t, "DISCONNECTED", "IN_SYNC", FALSE, <<>>)
        BY <1>2, <2>1, AnsweredDoes DEF t
    <2>3. /\ lib'.proto_state = "DISCONNECTED" /\ lib'.priv_state = "IN_SYNC"
          /\ Unasked' /\ SameCall'
        BY <1>6, <2>1, <2>2
    <2>6. In(FALSE, {"DISCONNECTED"}, {"IN_SYNC"})'
        BY <2>1, <2>3, EventTaken DEF In
    <2>4. rest' = <<>>
        <3>1. t.proto_state = "DISCONNECTED"
            BY <2>2 DEF Has
        <3>2. m.type = "SSI_CONFIG_RESP"
            OBVIOUS
        <3> HIDE DEF m
        <3>3. rest' = <<>> \o <<>>
            BY <1>1, <3>1, <3>2 DEF AfterEvent
        <3> QED
            BY <3>3
    <2>5. Left(Plain)'
        BY <2>4 DEF Left
    <2> QED
        BY <1>5, <2>3, <2>5, <2>6 DEF Idle, Phases
<1> QED
    BY <1>4, <1>7, <1>8

\* The stream is started, or stopped and with it the connection.
LEMMA RequestRead ==
    ASSUME TypeOK, Phases, ReadEvent, Head(pubbuf).type = "SPEECH_CONFIG_REQ"
    PROVE  Phases'
<1> DEFINE m == Head(pubbuf)
           t == Handled(lib, m)
           timing == OutMsg("NEW_TIMING_CONFIG_REQ")
           close == SsiConfigReq(FALSE, lib.conf_proto_version)
<1>1. Updates(t) /\ rest' = AfterEvent(lib, t, m)
    BY DEF ReadEvent
<1>2. Has(lib, lib.proto_state, lib.priv_state, call_server_status, lib.sent)
    BY LibHas DEF Phases
<1>3. ~Absent("SPEECH_CONFIG_REQ") /\ rest = <<>>
    BY EventTaken
<1>4. rest \notin EndSteps /\ rest \notin Shapes
    BY <1>3, Beginnings
<1>5. \/ Connected /\ state = "MEDIA_FLOWING"
      \/ Ending
    BY <1>3, <1>4 DEF Phases, Idle, Connecting, Connected, Flowing, Ending, Closing,
            Shapes
<1>6. Transit("SPEECH_CONFIG_REQ") /\ Unasked
    BY <1>3, <1>4, <1>5 DEF Connected, Ending, Shapes
<1>7. /\ Absent("SPEECH_CONFIG_REQ")' /\ Absent("SSI_CONFIG_RESP")'
      /\ ~Owes("SSI_CONFIG_RESP")'
    BY <1>6, EventTaken DEF Unasked
<1>8. m.on = call_server_status
    BY EventTaken DEF Phases, SameCall
<1>9. t = SpeechConfigured(lib, m.on)
    BY DEF Handled
<1> HIDE DEF t
<1>10. ASSUME lib'.call_server_active = call_server_status,
              AllSay(toWorker', "SSI_CONFIG_REQ", call_server_status)
       PROVE  SameCall'
    BY <1>10, EventTaken DEF Phases, SameCall
<1>11. CASE Connected /\ state = "MEDIA_FLOWING"
    <2>1. /\ call_server_status = TRUE /\ lib.proto_state = "CONNECTED"
          /\ ~Owes("IDLE")
        BY <1>11 DEF Connected, In
    <2>2. Has(t, "ACTIVE_DL", "TIMING", TRUE, <<timing>>)
        BY <1>2, <1>8, <1>9, <2>1, SpeechConfiguredDoes
    <2>3. timing.type # "SSI_CONFIG_REQ"
        BY DEF OutMsg
    <2> HIDE DEF timing
    <2>4. /\ lib'.proto_state = "ACTIVE_DL" /\ lib'.priv_state = "TIMING"
          /\ lib'.call_server_active = TRUE /\ toWorker' = toWorker \o <<timing>>
        BY <1>1, <2>2, Updated
    <2>5. NoneOf(toWorker', "SSI_CONFIG_REQ")
        BY <1>6, <2>3, <2>4, Written DEF Unasked
    <2>6. Unasked' /\ SameCall'
        <3>1. AllSay(toWorker', "SSI_CONFIG_REQ", call_server_status)
            BY <2>5 DEF NoneOf, AllSay
        <3> QED
            BY <1>7, <1>10, <2>1, <2>4, <2>5, <3>1 DEF Unasked
    <2>7. Left(Plain)'
        <3>1. rest' = <<"dl_active = true">> \o <<>>
            BY <1>1, <2>1 DEF AfterEvent
        <3>2. "dl_active = true" \in Plain
            BY DEF Plain, Statements, States
        <3>3. ASSUME NEW x \in Plain PROVE <<x>> \in Seq(Plain)
            OBVIOUS
        <3>4. rest' \in Seq(Plain)
            BY <3>1, <3>2, <3>3, ConcatEmptySeq
        <3> QED
            BY <3>4 DEF Left
    <2>8. In(TRUE, Active, {"IN_SYNC", "TIMING"})'
        BY <2>1, <2>4, EventTaken DEF In, Active
    <2> QED
        BY <1>7, <1>11, <2>1, <2>6, <2>7, <2>8, EventTaken DEF Flowing, Phases
<1>12. CASE Ending
    <2>1. /\ call_server_status = FALSE /\ lib.proto_state \in Active
        BY <1>12 DEF Ending, In
    <2>2. Has(t, "CONNECTED", "DISCONNECTING", FALSE, <<close>>)
        BY <1>2, <1>8, <1>9, <2>1, SpeechConfiguredDoes
    <2>3. close.type = "SSI_CONFIG_REQ" /\ close.on = FALSE
        BY DEF SsiConfigReq
    <2> HIDE DEF close
    <2>4. /\ lib'.proto_state = "CONNECTED" /\ lib'.priv_state = "DISCONNECTING"
          /\ lib'.call_server_active = FALSE /\ toWorker' = toWorker \o <<close>>
        BY <1>1, <2>2, Updated
    <2>5. /\ OneOf(toWorker', "SSI_CONFIG_REQ")
          /\ AllSay(toWorker', "SSI_CONFIG_REQ", FALSE)
        <3>1. /\ OneOf(toWorker \o <<close>>, "SSI_CONFIG_REQ")
              /\ AllSay(toWorker \o <<close>>, "SSI_CONFIG_REQ", close.on)
            BY <1>6, <2>3, Written DEF Unasked
        <3> QED
            BY <2>3, <2>4, <3>1
    <2>6. Asked' /\ SameCall'
        BY <1>7, <1>10, <2>1, <2>4, <2>5 DEF Asked
    <2>7. Left(Plain)'
        <3>1. lib.proto_state # "DISCONNECTED"
            BY <2>1 DEF Active
        <3>2. rest' = <<"dl_active = true">> \o <<>>
            BY <1>1, <3>1 DEF AfterEvent
        <3>3. "dl_active = true" \in Plain
            BY DEF Plain, Statements, States
        <3>4. ASSUME NEW x \in Plain PROVE <<x>> \in Seq(Plain)
            OBVIOUS
        <3>5. rest' \in Seq(Plain)
            BY <3>2, <3>3, <3>4, ConcatEmptySeq
        <3> QED
            BY <3>5 DEF Left
    <2>8. In(FALSE, {"CONNECTED"}, {"DISCONNECTING"})'
        BY <2>1, <2>4, EventTaken DEF In
    <2> QED
        BY <1>7, <2>6, <2>7, <2>8 DEF Closing, Phases
<1> QED
    BY <1>5, <1>11, <1>12

\* The notifications keep the phase.
LEMMA NotificationRead ==
    ASSUME TypeOK, Phases, ReadEvent,
           Head(pubbuf).type \in {"UPLINK_CONFIG_NTF", "TIMING_CONFIG_NTF"}
    PROVE  Phases'
<1> DEFINE m == Head(pubbuf)
           t == Handled(lib, m)
<1>1. Updates(t) /\ rest' = AfterEvent(lib, t, m)
    BY DEF ReadEvent
<1>2. Has(lib, lib.proto_state, lib.priv_state, call_server_status, lib.sent)
    BY LibHas DEF Phases
<1>3. t = HandleUplinkConfigNtf(lib) \/ t = HandleTimingConfigNtf(lib)
    BY DEF Handled
<1> HIDE DEF t
<1>4. /\ t \in LibStates /\ t.sent = <<>>
      /\ t.call_server_active = call_server_status
      /\ lib.proto_state \in Active => t.proto_state \in Active
      /\ lib.proto_state \notin Active => t.proto_state = lib.proto_state
      /\ lib.priv_state # "TIMING" /\ lib.proto_state \notin Active =>
            t.priv_state = lib.priv_state
      /\ lib.priv_state \in {"IN_SYNC", "TIMING"} =>
            t.priv_state \in {"IN_SYNC", lib.priv_state}
    BY <1>2, <1>3, NotifiedDoes
<1>5. /\ lib'.proto_state = t.proto_state /\ lib'.priv_state = t.priv_state
      /\ lib'.call_server_active = call_server_status /\ toWorker' = toWorker
    <2>1. Has(t, t.proto_state, t.priv_state, call_server_status, <<>>)
        BY <1>4 DEF Has
    <2> QED
        BY <1>1, <2>1, Updated, Written
<1>6. LibKept
    BY <1>4, <1>5, EventTaken DEF LibKept
<1>7. KeepsRest
    <2>1. ~(lib.proto_state = "DISCONNECTED" /\ t.proto_state = "CONNECTED")
        BY <1>4 DEF Active
    <2>2. rest' = <<>>
        <3>1. m.type # "SSI_CONFIG_RESP" /\ m.type # "SPEECH_CONFIG_REQ"
            OBVIOUS
        <3> HIDE DEF m
        <3>2. rest' = <<>> \o <<>>
            BY <1>1, <2>1, <3>1 DEF AfterEvent
        <3> QED
            BY <3>2
    <2>3. rest' = rest
        BY <2>2, EventTaken
    <2> QED
        BY <2>3, RestKept DEF RestMoves
<1>8. SameCall'
    BY <1>5, EventTaken DEF Phases, SameCall
<1>9. m.type # "SSI_CONFIG_RESP" /\ m.type # "SPEECH_CONFIG_REQ"
    OBVIOUS
<1>10. /\ Unasked => Unasked'
       /\ Asked => Asked'
       /\ Answering => Answering'
       /\ Answered => Answered'
    BY <1>5, <1>9, EventTaken DEF Unasked, Asked, Answering, Answered
<1>11. Asking => Asking'
    BY <1>10, EventTaken DEF Asking
<1>12. Carries
    BY <1>6, <1>8, <1>9, <1>10, <1>11, EventTaken DEF Carries
<1> QED
    BY <1>7, <1>12, StaysInPhase

\* cmtspeech_close wakes the worker up.
LEMMA ExitWritten ==
    ASSUME TypeOK, Phases, WriteExitMessage
    PROVE  Carries
<1> DEFINE m == OutMsg("EXIT_REQUEST")
           type == "SSI_CONFIG_REQ"
<1>1. /\ UNCHANGED <<lib, call_server_status, state, toApp, pubbuf, worker>>
      /\ toWorker' = Append(toWorker, m) /\ toWorker \in Seq(WorkerMsgs)
    BY DEF WriteExitMessage, Executes, app, shared, TypeOK
<1>2. m.type # type
    BY DEF OutMsg
<1> HIDE DEF m
<1>3. /\ NoneOf(toWorker, type) => NoneOf(toWorker', type)
      /\ OneOf(toWorker, type) => OneOf(toWorker', type)
      /\ \A on : AllSay(toWorker, type, on) => AllSay(toWorker', type, on)
    BY <1>1, <1>2, Joins
<1>4. SameCall'
    BY <1>1, <1>3 DEF Phases, SameCall
<1>5. /\ Owes("IDLE")' <=> Owes("IDLE")
      /\ Owes("SSI_CONFIG_RESP")' <=> Owes("SSI_CONFIG_RESP")
      /\ Absent("SSI_CONFIG_RESP")' <=> Absent("SSI_CONFIG_RESP")
      /\ Transit("SSI_CONFIG_RESP")' <=> Transit("SSI_CONFIG_RESP")
      /\ Absent("SPEECH_CONFIG_REQ")' <=> Absent("SPEECH_CONFIG_REQ")
      /\ Transit("SPEECH_CONFIG_REQ")' <=> Transit("SPEECH_CONFIG_REQ")
    BY <1>1 DEF Owes, Absent, Transit
<1>6. /\ Unasked => Unasked'
      /\ Asked => Asked'
      /\ Answering => Answering'
      /\ Answered => Answered'
    BY <1>1, <1>3, <1>5 DEF Unasked, Asked, Answering, Answered
<1>7. Asking => Asking'
    BY <1>1, <1>5, <1>6 DEF Asking
<1> QED
    BY <1>1, <1>4, <1>5, <1>6, <1>7, LibUnchanged DEF Carries

\* Before the first call.
LEMMA PhasesInit == Init => Phases
<1> SUFFICES ASSUME Init PROVE Phases
    OBVIOUS
<1>1. /\ lib.proto_state = "DISCONNECTED" /\ lib.priv_state = "IN_SYNC"
      /\ lib.call_server_active = call_server_status
      /\ call_server_status = FALSE
    BY DEF Init, Opened
<1>2. /\ Len(toWorker) = 0 /\ Len(toApp) = 0 /\ Len(pubbuf) = 0 /\ Len(rest) = 0
      /\ worker.todo = <<>> /\ Len(worker.todo) = 0
    BY DEF Init
<1>3. SameCall
    <2>1. ASSUME NEW q, Len(q) = 0, NEW type, NEW on PROVE AllSay(q, type, on)
        BY <2>1 DEF AllSay
    <2> QED
        BY <1>1, <1>2, <2>1 DEF SameCall
<1>4. Idle
    BY <1>1, <1>2 DEF Idle, In, Unasked, Absent, NoneOf, Owes, Left
<1> QED
    BY <1>3, <1>4 DEF Phases

\* Every step keeps the phase or leads to the next one.
LEMMA PhasesNext == TypeOK /\ Phases /\ [Next]_vars => Phases'
<1> SUFFICES ASSUME TypeOK, Phases, [Next]_vars PROVE Phases'
    OBVIOUS
<1>1. {"dl_active = true", "dl_active = false", "THREAD_EXIT_REQ", "exit message"}
            \subseteq Plain
    BY DEF Plain, Statements, States
<1>2. CASE CheckPending
    BY <1>2, MessageFetched, RestKept, StaysInPhase DEF CheckPending, RestMoves
<1>3. CASE ReadEvent
    <2>1. Head(pubbuf) \in ControlMsgs
        BY <1>3, EventTaken
    <2> QED
        BY <1>3, <2>1, AnswerRead, RequestRead, NotificationRead DEF ControlMsgs
<1>4. CASE CallStatus
    BY <1>4, CallStatusChanged
<1>5. CASE Acquire \/ Release \/ Ignore \/ Close \/ Join \/ UNCHANGED vars
    <2>1. UNCHANGED <<lib, call_server_status, state, toWorker, toApp, pubbuf,
                      worker>>
        BY <1>5 DEF Acquire, Release, Ignore, Close, Join, vars, app, shared
    <2>2. RestMoves
        BY <1>5 DEF Acquire, Release, Ignore, Close, Join, vars, RestMoves
    <2> QED
        BY <2>1, <2>2, NothingCarried, RestKept, StaysInPhase
<1>6. CASE StoreState
    BY <1>6, StateStored
<1>7. CASE StoreDlActive \/ RequestExit
    <2>1. UNCHANGED <<lib, call_server_status, state, toWorker, toApp, pubbuf,
                      worker>>
        BY <1>7 DEF StoreDlActive, RequestExit, Executes, app
    <2>2. RestMoves
        BY <1>1, <1>7 DEF StoreDlActive, RequestExit, RestMoves
    <2> QED
        BY <2>1, <2>2, NothingCarried, RestKept, StaysInPhase
<1>8. CASE Emit
    BY <1>8, RequestEmitted
<1>9. CASE WriteExitMessage
    <2>1. RestMoves
        BY <1>1, <1>9 DEF WriteExitMessage, RestMoves
    <2> QED
        BY <1>9, <2>1, ExitWritten, RestKept, StaysInPhase
<1>10. ASSUME rest' = rest, Carries
       PROVE  Phases'
    BY <1>10, RestKept, StaysInPhase DEF RestMoves
<1>11. CASE WorkerReads
    BY <1>10, <1>11, QuestionRead DEF WorkerReads
<1>12. CASE WorkerReplies
    BY <1>10, <1>12, ReplyCarried DEF WorkerReplies
<1>13. CASE Announce
    <2>1. Carries
        <3>1. /\ UNCHANGED <<lib, call_server_status, state, toWorker, pubbuf>>
              /\ worker.at # "reply" /\ toApp' = Append(toApp, Announcement)
            BY <1>13 DEF Announce, Makes, app, shared
        <3>2. worker'.todo = worker.todo
            BY <1>13 DEF Announce, Makes, TypeOK, Workers
        <3> QED
            BY <3>1, <3>2, AnnouncementCarried
    <2> QED
        BY <1>10, <1>13, <2>1 DEF Announce, Makes
<1>14. CASE WorkerStarts \/ WorkerRuns \/ WorkerLooks \/ WorkerExits
            \/ WorkerReplied \/ PollTimeout \/ LongTimeout \/ Advance \/ Fill
    <2>1. /\ UNCHANGED <<lib, call_server_status, state, toWorker, toApp, pubbuf>>
          /\ rest' = rest
        BY <1>14 DEF WorkerStarts, WorkerRuns, WorkerLooks, WorkerExits,
                WorkerReplied, PollTimeout, LongTimeout, Advance, Fill, Makes, app,
                shared
    <2>2. worker'.todo = worker.todo
        BY <1>14 DEF WorkerStarts, WorkerRuns, WorkerLooks, WorkerExits,
                WorkerReplied, PollTimeout, LongTimeout, Advance, Fill, Makes, TypeOK,
                Workers
    <2>3. worker.at # "reply" \/ worker.todo = <<>>
        BY <1>14 DEF WorkerStarts, WorkerRuns, WorkerLooks, WorkerExits,
                WorkerReplied, PollTimeout, LongTimeout, Advance, Fill, Makes
    <2> QED
        BY <1>10, <2>1, <2>2, <2>3, WorkerGoesOn
<1> QED
    BY <1>2, <1>3, <1>4, <1>5, <1>6, <1>7, <1>8, <1>9, <1>11, <1>12, <1>13, <1>14
       DEF Next, AppStep, WorkerStep

\* A call of the dummy backend is in one of its phases in every state: who asks
\* whom, what is on its way and what is left of the application's call fit
\* together, whatever the threads of dummy-backend/cmtspeech_dummy.c interleave.
THEOREM CallsGoByPhases == Spec => []Phases
<1>1. Init => TypeOK /\ Phases
    BY TypeInit, PhasesInit
<1>2. (TypeOK /\ Phases) /\ [Next]_vars => (TypeOK /\ Phases)'
    BY TypeNext, PhasesNext
<1> QED
    BY <1>1, <1>2, PTL DEF Spec

\* While the stream of a call is active the worker generates frames: the state
\* it looks at is STATE_MEDIA_FLOWING, and no late STATE_IDLE of the call before
\* undoes it.
THEOREM StreamAlwaysFlows == Spec => []StreamKeepsFlowing
<1>1. Phases => StreamKeepsFlowing
    <2> SUFFICES ASSUME Phases, call_server_status, lib.proto_state \in Active
                 PROVE  state = "MEDIA_FLOWING"
        BY DEF StreamKeepsFlowing
    <2>1. Flowing
        BY DEF Phases, Idle, Connecting, Connected, Ending, Closing, In, Active
    <2> QED
        BY <2>1 DEF Flowing
<1> QED
    BY <1>1, CallsGoByPhases, PTL
=============================================================================
