------------------------------ MODULE CallLink ------------------------------
(***************************************************************************)
(* A library instance at work: the application that relays the state of    *)
(* the calls to it and holds speech buffers, and the modem at the other    *)
(* end of the SSI link, with the control messages that are under way in    *)
(* either direction.  Writes do not fail here.                             *)
(*                                                                         *)
(* The modem is not part of the repository.  Its answers are those of the  *)
(* worker thread of the dummy backend; when it starts, changes or stops    *)
(* the speech stream, or resets, is its own choice.                        *)
(***************************************************************************)
EXTENDS SpeechCalls

CONSTANTS StreamRates,    \* sample rates the modem asks for
          Patient,        \* calls and streams only change on a quiet link
          MaxCalls,       \* how often a call starts or ends
          MaxHandovers,   \* how often the parameters of a stream change
          MaxResets,      \* how often the modem resets
          MaxErrors       \* how often the application resets the link

ASSUME LinkAssumption ==
    /\ StreamRates \subseteq {"8kHz", "16kHz"}
    /\ Patient \in BOOLEAN
    /\ MaxCalls \in Nat /\ MaxHandovers \in Nat
    /\ MaxResets \in Nat /\ MaxErrors \in Nat

VARIABLES lib,      \* the library instance
          held,     \* <<direction, slot>> of the buffers the application holds
          status,   \* the call status the application relayed last
          modem,    \* the modem's side of the connection
          toModem,  \* messages written and not yet read by the modem
          toLib,    \* messages sent by the modem and not yet read
          call,     \* there is a call in the network
          used      \* how much of each bound is used up

vars == <<lib, held, status, modem, toModem, toLib, call, used>>

application == <<held, status>>
network == <<call, used>>

Bounds == [calls |-> MaxCalls, handovers |-> MaxHandovers,
           resets |-> MaxResets, errors |-> MaxErrors]

Count(what) ==
    /\ used[what] < Bounds[what]
    /\ used' = [used EXCEPT ![what] = @ + 1]

\* ssi: the connection is enabled.  stream: the sample rate of the speech
\* frames, or "off".  asked: the stream the library has yet to reply about.
\* resetting: the library has yet to acknowledge the modem's reset.
Idle == [ssi |-> FALSE, stream |-> "off", asked |-> "none", resetting |-> FALSE]

ModemMsg(type) == [type |-> type, stream |-> "off"]

SpeechConfig(stream) == [type |-> "SPEECH_CONFIG_REQ", stream |-> stream]

Init ==
    /\ lib = Opened
    /\ held = {}
    /\ status = FALSE
    /\ modem = Idle
    /\ toModem = <<>> /\ toLib = <<>>
    /\ call = FALSE
    /\ used = [what \in DOMAIN Bounds |-> 0]

-----------------------------------------------------------------------------
(* The library: what a call writes goes to the modem at once.              *)

Steps(s) ==
    /\ lib' = [s EXCEPT !.sent = <<>>, !.event = NoEvent]
    /\ toModem' = toModem \o s.sent

\* cmtspeech_check_pending, for the oldest message of the modem
Handled(m) ==
    CASE m.type = "SPEECH_CONFIG_REQ" -> 
                HandleSpeechConfigReq(lib, m.stream # "off", m.stream, {})
      [] m.type = "UPLINK_CONFIG_NTF" -> HandleUplinkConfigNtf(lib)
      [] m.type = "TIMING_CONFIG_NTF" -> HandleTimingConfigNtf(lib)
      [] m.type = "SSI_CONFIG_RESP"   -> HandleSsiConfigResp(lib, TRUE, "inorder", {})
      [] m.type = "RESET_CONN_REQ"    -> HandleResetConnReq(lib, {})
      [] m.type = "RESET_CONN_RESP"   -> HandleResetConnResp(lib, {})

CheckPending ==
    /\ toLib # <<>>
    /\ Steps(Handled(Head(toLib)))
    /\ toLib' = Tail(toLib)
    /\ UNCHANGED <<application, modem, network>>

\* A speech frame arrives.
DataReceived ==
    /\ modem.stream # "off"
    /\ lib.drv_size > 0
    /\ Steps(HandleRxData(lib))
    /\ UNCHANGED <<application, modem, toLib, network>>

-----------------------------------------------------------------------------
(* The application: handle_dbus_ofono and the handlers of speech data      *)

\* Only changes of the call status are passed on.
Relay ==
    /\ status # call
    /\ status' = call
    /\ Steps(cmtspeech_state_change_call_status(lib, call, {}))
    /\ UNCHANGED <<held, modem, toLib, network>>

Acquire ==
    /\ \/ \E i \in ULAvailable(lib) :
            /\ <<"UL", i>> \notin held
            /\ held' = held \cup {<<"UL", i>>}
            /\ Steps(cmtspeech_ul_buffer_acquire(lib, i))
       \/ \E i \in DLAvailable(lib) :
            /\ <<"DL", i>> \notin held
            /\ held' = held \cup {<<"DL", i>>}
            /\ Steps(cmtspeech_dl_buffer_acquire(lib, i))
    /\ UNCHANGED <<status, modem, toLib, network>>

Release ==
    /\ \/ \E i \in ULSlots :
            /\ <<"UL", i>> \in held
            /\ held' = held \ {<<"UL", i>>}
            /\ Steps(cmtspeech_ul_buffer_release(lib, i, {}))
       \/ \E i \in DLSlots :
            /\ <<"DL", i>> \in held
            /\ held' = held \ {<<"DL", i>>}
            /\ Steps(cmtspeech_dl_buffer_release(lib, i, {}))
    /\ UNCHANGED <<status, modem, toLib, network>>

-----------------------------------------------------------------------------
(* The modem                                                               *)

\* The modem's part of a transaction; m is the message it has read.
Sends(messages) == toLib' = toLib \o messages

UplinkStart == <<ModemMsg("UPLINK_CONFIG_NTF"), ModemMsg("TIMING_CONFIG_NTF")>>

\* What the modem is asked; it cannot raise the wakeline to answer.
Requests == {"SSI_CONFIG_REQ", "NEW_TIMING_CONFIG_REQ", "RESET_CONN_REQ"}

Answer(m) ==
    \/ /\ m.type = "SSI_CONFIG_REQ"
       /\ modem' = IF m.on THEN [modem EXCEPT !.ssi = TRUE] ELSE Idle
       /\ Sends(<<ModemMsg("SSI_CONFIG_RESP")>>)
    \/ /\ m.type = "NEW_TIMING_CONFIG_REQ"
       /\ Sends(IF modem.stream # "off" THEN UplinkStart
                ELSE <<ModemMsg("TIMING_CONFIG_NTF")>>)
       /\ UNCHANGED modem
    \/ /\ m.type = "RESET_CONN_REQ"
       /\ modem' = Idle
       /\ Sends(<<ModemMsg("RESET_CONN_RESP")>>)

\* The uplink restarts by itself after a change of the stream's parameters.
Reply(m) ==
    \/ /\ m.type = "SPEECH_CONFIG_RESP"
       /\ modem' = [modem EXCEPT !.asked = "none",
                        !.stream = IF m.on /\ modem.asked # "none"
                                   THEN modem.asked ELSE "off"]
       /\ Sends(IF "off" \in {modem.stream, modem'.stream} THEN <<>>
                ELSE UplinkStart)
    \/ /\ m.type = "RESET_CONN_RESP"
       /\ modem' = [modem EXCEPT !.resetting = FALSE]
       /\ Sends(<<>>)

\* A modem that resets ignores what is not the answer to its reset.
ModemReads ==
    /\ toModem # <<>>
    /\ LET m == Head(toModem)
       IN  /\ m.type \in Requests => lib.line \/ modem.resetting
           /\ IF modem.resetting /\ m.type # "RESET_CONN_RESP"
              THEN UNCHANGED <<modem, toLib>>
              ELSE Answer(m) \/ Reply(m)
    /\ toModem' = Tail(toModem)
    /\ UNCHANGED <<lib, application, network>>

\* Everything sent has been handled and nothing is under way.
Quiet ==
    /\ toModem = <<>> /\ toLib = <<>>
    /\ ~modem.resetting
    /\ status = call

Settled == Quiet /\ modem.asked = "none"

Asks(stream) ==
    /\ modem.ssi /\ ~modem.resetting /\ modem.asked = "none"
    /\ modem' = [modem EXCEPT !.asked = stream]
    /\ Sends(<<SpeechConfig(stream)>>)
    /\ UNCHANGED <<lib, application, toModem>>

StartStream ==
    /\ call /\ modem.stream = "off"
    /\ \E rate \in StreamRates : Asks(rate)
    /\ UNCHANGED network

\* A handover: other parameters for the speech stream.
ChangeStream ==
    /\ call /\ modem.stream # "off"
    /\ Count("handovers")
    /\ \E rate \in StreamRates : Asks(rate)
    /\ UNCHANGED call

StopStream ==
    /\ ~call /\ modem.stream # "off"
    /\ Asks("off")
    /\ UNCHANGED network

\* The modem loses its state, and with it the messages it has not read.
ModemReset ==
    /\ Count("resets")
    /\ modem' = [Idle EXCEPT !.resetting = TRUE]
    /\ toModem' = <<>>
    /\ Sends(<<ModemMsg("RESET_CONN_REQ")>>)
    /\ call' = FALSE
    /\ UNCHANGED <<lib, application>>

\* A call starts or ends in the network.
CallChanges ==
    /\ Patient => Settled
    /\ Count("calls")
    /\ call' = ~call
    /\ UNCHANGED <<lib, application, modem, toModem, toLib>>

\* An error of the application: it resets the connection, and the call is lost.
Error ==
    /\ Patient => Settled
    /\ Count("errors")
    /\ Steps(cmtspeech_state_change_error(lib, {}))
    /\ call' = FALSE
    /\ UNCHANGED <<application, modem, toLib>>

Next ==
    \/ CheckPending \/ DataReceived
    \/ Relay \/ Acquire \/ Release \/ Error
    \/ ModemReads \/ StartStream \/ ChangeStream \/ StopStream \/ ModemReset
    \/ CallChanges

\* The main loop polls the library's descriptor and the call server, the
\* application gives back the buffers it got, and the modem is alive.
Fairness ==
    /\ WF_vars(CheckPending)
    /\ WF_vars(Relay)
    /\ WF_vars(Release)
    /\ WF_vars(ModemReads)
    /\ WF_vars(StartStream)
    /\ WF_vars(StopStream)

Spec == Init /\ [][Next]_vars

FairSpec == Spec /\ Fairness
-----------------------------------------------------------------------------

Streams == StreamRates \cup {"off"}

ModemMsgs ==
    [type : {"SPEECH_CONFIG_REQ", "UPLINK_CONFIG_NTF", "TIMING_CONFIG_NTF",
             "SSI_CONFIG_RESP", "RESET_CONN_REQ", "RESET_CONN_RESP"},
     stream : Streams]

TypeOK ==
    /\ lib \in LibStates
    /\ held \subseteq ({"UL"} \X ULSlots) \cup ({"DL"} \X DLSlots)
    /\ status \in BOOLEAN
    /\ modem \in [ssi : BOOLEAN, stream : Streams, resetting : BOOLEAN,
                  asked : Streams \cup {"none"}]
    /\ toModem \in Seq(OutMsgs)
    /\ toLib \in Seq(ModemMsgs)
    /\ call \in BOOLEAN
    /\ \A what \in DOMAIN Bounds : used[what] \in 0 .. Bounds[what]

\* The two ends of the link agree when it is quiet: the connection is enabled
\* on both sides or on neither, and the same holds for the speech stream.
EndsAgree ==
    Settled =>
        /\ modem.ssi <=> lib.proto_state \in Enabled
        /\ modem.stream # "off" <=> lib.proto_state \in Active

\* priv_send_reset: the modem cannot raise the wakeline, so the library keeps
\* it up while a request of its own waits for the answer.
AnswerGetsThrough ==
    \A k \in 1 .. Len(toModem) :
        toModem[k].type \in Requests /\ ~modem.resetting => lib.line

\* The reply to a SPEECH_CONFIG_REQ is outstanding on both sides or on none:
\* the library owes it exactly while the application holds a buffer the reply
\* waits for.
ReplyOwed ==
    /\ lib.speech_config_resp_pend => ~Unlocked(lib)
    /\ Quiet => (modem.asked # "none" <=> lib.speech_config_resp_pend)

\* The driver's slots have the size of the frames both sides agreed on, also
\* when the change had to wait for the application's buffers.
DriverMatchesStream ==
    Settled => lib.drv_size = IF modem.stream = "off" THEN 0
                              ELSE SlotSize(modem.stream)

\* A call that lasts gets its speech data in both directions.
CallGetsSpeech == <>[]call => <>[](lib.proto_state = "ACTIVE_DLUL")

\* When the calls are over, the connection is closed and the modem may sleep,
\* unless the application has reset the link: priv_handle_reset_response gives
\* up WAKELINE_RESET only.
LinkIsReleased ==
    <>[]~call /\ [](used.errors = 0) =>
        <>[](lib.proto_state = "DISCONNECTED" /\ ~lib.line)
=============================================================================
