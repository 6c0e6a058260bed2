----------------------------- MODULE SpeechMsgs -----------------------------
(***************************************************************************)
(* The messages of the SSI speech protocol on the wire (cmtspeech_msgs.c), *)
(* the notifications of the kernel driver, which share the control         *)
(* channel with them, and the headers of the speech frames: each is four   *)
(* octets, of which a sender and a receiver must have the same view.       *)
(*                                                                         *)
(* An encoder gives the octets <<BYTE0, BYTE1, BYTE2, BYTE3>>, most        *)
(* significant first, and a decoder takes the fields out of them again.    *)
(* Arguments are C integers of eight or sixteen bits that may be wider     *)
(* than the field they go to.  Shifts and masks are written with \div, %   *)
(* and *; "body" has the arguments of a message in the order of the C      *)
(* function.                                                               *)
(***************************************************************************)
EXTENDS Integers, Sequences

CONSTANTS Octets,      \* values of the eight bit arguments
          Words,       \* values of the sixteen bit arguments
          CodecRates   \* codec sample rates of the downlink frames

Byte == 0 .. 255
Word == {high * 256 + low : high, low \in Byte}

WordSize == 256 * 256

ASSUME MsgAssumption ==
    /\ Octets \subseteq Byte
    /\ Words \subseteq Word
    /\ CodecRates \subseteq 0 .. 3

VARIABLES sent,    \* the message under way
          wire,    \* its octets
          got      \* what the receiver took it for

vars == <<sent, wire, got>>

\* domains
INTERNAL == 0
CONTROL  == 1
DATA     == 2

\* types of control messages
RESET_CONN_REQ        == 0
RESET_CONN_RESP       == 1
SSI_CONFIG_REQ        == 2
SPEECH_CONFIG_REQ     == 3
TIMING_CONFIG_NTF     == 4
NEW_TIMING_CONFIG_REQ == 5
SSI_CONFIG_RESP       == 6
SPEECH_CONFIG_RESP    == 7
UPLINK_CONFIG_NTF     == 8
TEST_RAMP_PING        == 12

Simple == {RESET_CONN_REQ, RESET_CONN_RESP, NEW_TIMING_CONFIG_REQ,
           UPLINK_CONFIG_NTF}

\* types of driver messages
CS_ERROR            == 1
CS_RX_DATA_RECEIVED == 2
CS_TX_DATA_READY    == 3

\* The two kinds of frame headers; they are told apart by the slots they are in.
UL == 0
DL == 1

Msg(domain, type, body) == [domain |-> domain, type |-> type, body |-> body]

Nothing == Msg(-1, -1, <<>>)

\* The field of x that begins at the bit of weight unit and has size values.
Field(x, unit, size) == (x \div unit) % size

\* x cut to a field of size values and put at the bit of weight unit.
Placed(x, size, unit) == (x % size) * unit

\* Faulty variant: the octets of a message are kept in wider integers.
WideOctet(x) == x

Octet(x) == x % 256

-----------------------------------------------------------------------------
(* Control messages                                                        *)

get_type(w) == w[1] \div 16

get_domain(w) == w[1] % 16

First(type) == Octet(type * 16) + CONTROL

priv_cmtspeech_msg_encode_simple_message(type) == <<First(type), 0, 0, 0>>

\* The codec is spread over two octets.
encode_speech_config_req(b) ==
    <<First(SPEECH_CONFIG_REQ), 0,
      Placed(b[1], 2, 8) + Placed(b[2], 2, 4) + Field(b[3] % 16, 4, 4),
      Octet(Placed(b[3], 16, 64)) + Placed(b[4], 4, 16) + Placed(b[5], 4, 4)
        + (b[6] % 4)>>

decode_speech_config_req(w) ==
    <<Field(w[3], 8, 2), Field(w[3], 4, 2),
      (w[3] * 4 + w[4] \div 64) % 16,
      Field(w[4], 16, 4), Field(w[4], 4, 4), w[4] % 4>>

\* Faulty variant: the part of usec in BYTE2 is not cut to its two bits.
UsecNotCut(b) ==
    <<First(TIMING_CONFIG_NTF), (b[1] % 512) \div 64,
      Octet(Placed(b[1], 512, 4) + b[2] \div 256),
      b[2] % 256>>

\* msec has nine bits, usec ten.
encode_timing_config_ntf(b) ==
    <<First(TIMING_CONFIG_NTF), (b[1] % 512) \div 64,
      Octet(Placed(b[1], 512, 4)) + (b[2] % 1024) \div 256,
      b[2] % 256>>

decode_timing_config_ntf(w) ==
    <<(w[2] % 8) * 64 + w[3] \div 4, (w[3] % 4) * 256 + w[4]>>

encode_ssi_config_req(b) ==
    <<First(SSI_CONFIG_REQ), 0, b[1] % 8, Placed(b[2], 16, 2) + (b[3] % 2)>>

decode_ssi_config_req(w) == <<w[3] % 8, Field(w[4], 2, 16), w[4] % 2>>

encode_ssi_config_resp(b) ==
    <<First(SSI_CONFIG_RESP), 0, b[1] % 8, b[2] % 4>>

decode_ssi_config_resp(w) == <<w[3] % 8, w[4] % 4>>

encode_speech_config_resp(b) == <<First(SPEECH_CONFIG_RESP), 0, 0, b[1]>>

decode_speech_config_resp(w) == <<w[4] % 2>>

\* The domain is not cut to its four bits.
encode_test_ramp_ping(b) ==
    <<TEST_RAMP_PING * 16 + b[1], b[2] % 16, b[3], b[4]>>

decode_test_ramp_ping(w) == <<w[1] % 16, w[2] % 16, w[3], w[4]>>

\* priv_msg_encode_driver_message.  The driver's own messages have a
\* parameter of 24 bits.
Parameter(high, low) == high * WordSize + low

encode_driver_message(type, b) == <<type * 16 + INTERNAL, 0, 0, Octet(b[1])>>

driver_message(type, b) ==
    <<type * 16 + INTERNAL, Field(b[1], WordSize, 256), Field(b[1], 256, 256),
      b[1] % 256>>

\* CS_PARAM_MASK & cmd
decode_driver_message(w) == <<Parameter(w[2], w[3] * 256 + w[4])>>

-----------------------------------------------------------------------------
(* Headers of the speech frames                                            *)

Counter(w) == w[1] * 256 + w[2]

encode_ul_data_header(b) ==
    <<b[1] \div 256, b[1] % 256, 0,
      Placed(b[2], 4, 16) + Placed(b[3], 4, 4) + (b[4] % 4)>>

decode_ul_data_header(w) ==
    <<Counter(w), Field(w[4], 16, 4), Field(w[4], 4, 4), w[4] % 4>>

\* Faulty variant: the last of the seven SPC flags is cut off.
FlagCut(b) ==
    <<b[1] \div 256, b[1] % 256,
      Octet(Placed(b[5], 4, 128)) + Field(b[2], 4, 16),
      Placed(b[2], 4, 64) + Placed(b[3], 4, 16) + Placed(b[4], 4, 4) + (b[6] % 4)>>

\* The SPC flags are spread over two octets, and the codec's sample rate
\* shares the first of them.
encode_dl_data_header_v5(b) ==
    <<b[1] \div 256, b[1] % 256,
      Octet(Placed(b[5], 4, 128)) + Field(b[2], 4, 32),
      Placed(b[2], 4, 64) + Placed(b[3], 4, 16) + Placed(b[4], 4, 4) + (b[6] % 4)>>

decode_dl_data_header_v5(w) ==
    <<Counter(w), (w[3] % 32) * 4 + Field(w[4], 64, 4),
      Field(w[4], 16, 4), Field(w[4], 4, 4), Field(w[3], 32, 4), w[4] % 4>>

\* What cmtspeech_dl_buffer_acquire keeps of the two sample rates, and what
\* the application reads of it.
reserved(b) == b[5] + b[4] * 4

cmtspeech_buffer_codec_sample_rate(r) == r % 4

cmtspeech_buffer_sample_rate(r) == Field(r, 4, 4)

-----------------------------------------------------------------------------
(* A message on its way                                                    *)

Encode(m) ==
    LET b == m.body
    IN  CASE m.domain = CONTROL /\ m.type \in Simple ->
                    priv_cmtspeech_msg_encode_simple_message(m.type)
          [] m.domain = CONTROL /\ m.type = SPEECH_CONFIG_REQ ->
                    encode_speech_config_req(b)
          [] m.domain = CONTROL /\ m.type = TIMING_CONFIG_NTF ->
                    encode_timing_config_ntf(b)
          [] m.domain = CONTROL /\ m.type = SSI_CONFIG_REQ ->
                    encode_ssi_config_req(b)
          [] m.domain = CONTROL /\ m.type = SSI_CONFIG_RESP ->
                    encode_ssi_config_resp(b)
          [] m.domain = CONTROL /\ m.type = SPEECH_CONFIG_RESP ->
                    encode_speech_config_resp(b)
          [] m.domain = CONTROL /\ m.type = TEST_RAMP_PING ->
                    encode_test_ramp_ping(b)
          [] m.domain = INTERNAL /\ m.type = CS_TX_DATA_READY ->
                    encode_driver_message(m.type, b)
          [] m.domain = INTERNAL /\ m.type # CS_TX_DATA_READY ->
                    driver_message(m.type, b)
          [] m.domain = DATA /\ m.type = UL -> encode_ul_data_header(b)
          [] m.domain = DATA /\ m.type = DL -> encode_dl_data_header_v5(b)

\* A message of the control channel says itself what it is.
Command(w) ==
    LET type == get_type(w)
        body ==
            CASE get_domain(w) = INTERNAL -> decode_driver_message(w)
              [] get_domain(w) = CONTROL /\ type = SPEECH_CONFIG_REQ ->
                        decode_speech_config_req(w)
              [] get_domain(w) = CONTROL /\ type = TIMING_CONFIG_NTF ->
                        decode_timing_config_ntf(w)
              [] get_domain(w) = CONTROL /\ type = SSI_CONFIG_REQ ->
                        decode_ssi_config_req(w)
              [] get_domain(w) = CONTROL /\ type = SSI_CONFIG_RESP ->
                        decode_ssi_config_resp(w)
              [] get_domain(w) = CONTROL /\ type = SPEECH_CONFIG_RESP ->
                        decode_speech_config_resp(w)
              [] get_domain(w) = CONTROL /\ type = TEST_RAMP_PING ->
                        decode_test_ramp_ping(w)
              [] OTHER -> <<>>
    IN  Msg(get_domain(w), type, body)

Init == sent = Nothing /\ got = Nothing /\ wire = <<0, 0, 0, 0>>

Send(m) ==
    /\ sent' = m
    /\ wire' = Encode(m)
    /\ UNCHANGED got

SendControl ==
    \/ \E type \in Simple : Send(Msg(CONTROL, type, <<>>))
    \/ \E b \in [1 .. 6 -> Octets] : Send(Msg(CONTROL, SPEECH_CONFIG_REQ, b))
    \/ \E b \in [1 .. 2 -> Words] : Send(Msg(CONTROL, TIMING_CONFIG_NTF, b))
    \/ \E b \in [1 .. 3 -> Octets] : Send(Msg(CONTROL, SSI_CONFIG_REQ, b))
    \/ \E b \in [1 .. 2 -> Octets] : Send(Msg(CONTROL, SSI_CONFIG_RESP, b))
    \/ \E result \in Octets : Send(Msg(CONTROL, SPEECH_CONFIG_RESP, <<result>>))
    \/ \E reply \in {INTERNAL, CONTROL, DATA}, start, len \in Octets :
            Send(Msg(CONTROL, TEST_RAMP_PING, <<CONTROL, reply, start, len>>))

\* The driver's notifications, and the one message it is sent.
SendDriverMessage ==
    \/ \E high \in Octets, low \in Words, type \in {CS_ERROR, CS_RX_DATA_RECEIVED} :
            Send(Msg(INTERNAL, type, <<Parameter(high, low)>>))
    \/ \E slot \in Octets : Send(Msg(INTERNAL, CS_TX_DATA_READY, <<slot>>))

SendFrame ==
    \/ \E counter \in Words, length, rate, kind \in Octets :
            Send(Msg(DATA, UL, <<counter, length, rate, kind>>))
    \/ \E counter \in Words, flags, length, rate, kind \in Octets,
          codec \in CodecRates :
            Send(Msg(DATA, DL, <<counter, flags, length, rate, codec, kind>>))

\* handle_inbound_control_message
ReceiveCommand ==
    /\ sent # Nothing /\ sent.domain # DATA
    /\ got = Nothing
    /\ got' = Command(wire)
    /\ UNCHANGED <<sent, wire>>

\* cmtspeech_dl_buffer_acquire, and the modem for an uplink frame
ReceiveFrame ==
    /\ sent # Nothing /\ sent.domain = DATA
    /\ got = Nothing
    /\ got' = Msg(DATA, sent.type, IF sent.type = UL
                                   THEN decode_ul_data_header(wire)
                                   ELSE decode_dl_data_header_v5(wire))
    /\ UNCHANGED <<sent, wire>>

Done ==
    /\ got # Nothing
    /\ sent' = Nothing /\ got' = Nothing
    /\ wire' = <<0, 0, 0, 0>>

Next ==
    \/ sent = Nothing /\ (SendControl \/ SendDriverMessage \/ SendFrame)
    \/ ReceiveCommand \/ ReceiveFrame \/ Done

Spec == Init /\ [][Next]_vars
-----------------------------------------------------------------------------

\* How many values the fields of a message have.
Sizes(m) ==
    CASE m.domain = CONTROL /\ m.type \in Simple            -> <<>>
      [] m.domain = CONTROL /\ m.type = SPEECH_CONFIG_REQ   -> <<2, 2, 16, 4, 4, 4>>
      [] m.domain = CONTROL /\ m.type = TIMING_CONFIG_NTF   -> <<512, 1024>>
      [] m.domain = CONTROL /\ m.type = SSI_CONFIG_REQ      -> <<8, 16, 2>>
      [] m.domain = CONTROL /\ m.type = SSI_CONFIG_RESP     -> <<8, 4>>
      [] m.domain = CONTROL /\ m.type = SPEECH_CONFIG_RESP  -> <<2>>
      [] m.domain = CONTROL /\ m.type = TEST_RAMP_PING      -> <<16, 16, 256, 256>>
      [] m.domain = INTERNAL                                -> <<256 * WordSize>>
      [] m.domain = DATA /\ m.type = UL -> <<WordSize, 4, 4, 4>>
      [] m.domain = DATA /\ m.type = DL -> <<WordSize, 128, 4, 4, 4, 4>>

\* The values of b, each cut to the size of its field.
Cut(b, sizes) == [k \in 1 .. Len(b) |-> b[k] % sizes[k]]

\* The message with its arguments cut to the fields they go to.
Meaning(m) == Msg(m.domain, m.type, Cut(m.body, Sizes(m)))

\* An encoder fills exactly the four octets of a message.
TypeOK ==
    /\ wire \in Seq(Byte) /\ Len(wire) = 4
    /\ got # Nothing => sent # Nothing

\* cmtspeech_msg_get_type and cmtspeech_msg_get_domain: a message of the modem
\* or the driver is taken for what it is, and each of its fields arrives, even
\* when the argument of a neighbouring field was too wide.
CommandArrives ==
    got # Nothing /\ sent.domain # DATA => got = Meaning(sent)

\* cmtspeech_msg_decode_ul_data_header and ..._dl_data_header_v5: so do the
\* frame counter, the SPC flags and the other fields of a frame header.
HeaderArrives ==
    got # Nothing /\ sent.domain = DATA => got = Meaning(sent)

\* test_cmtspeech_msgs.c, test_dl_data_frame ("SR=16kHz, CSR=16kHz"): the
\* application reads the sample rates of the frame it was sent.
RatesArrive ==
    got # Nothing /\ got.domain = DATA /\ got.type = DL =>
        LET r == reserved(got.body)
        IN  /\ cmtspeech_buffer_sample_rate(r) = sent.body[4] % 4
            /\ cmtspeech_buffer_codec_sample_rate(r) = sent.body[5] % 4
=============================================================================
