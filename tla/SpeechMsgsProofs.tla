--------------------------- MODULE SpeechMsgsProofs ---------------------------
(***************************************************************************)
(* Every encoder of cmtspeech_msgs.c and its decoder are inverse to each   *)
(* other, for all values of the arguments: the invariants of SpeechMsgs,   *)
(* which TLC checks for a few values.                                      *)
(*                                                                         *)
(* For each message there are lemmas about the numbers alone, in which the *)
(* provers need not know of messages, and one lemma that puts them         *)
(* together: the message that was encoded is the one that is decoded.      *)
(***************************************************************************)
EXTENDS SpeechMsgs, TLAPS

WireOK(w) == w \in Seq(Byte) /\ Len(w) = 4

-----------------------------------------------------------------------------
(* Octets and bodies                                                       *)

\* Four octets fit the driver's word.
LEMMA FourOctets ==
    ASSUME NEW w1 \in Byte, NEW w2 \in Byte, NEW w3 \in Byte, NEW w4 \in Byte
    PROVE  WireOK(<<w1, w2, w3, w4>>)
BY DEF WireOK

\* The word nothing was written to.
LEMMA NoOctets == WireOK(<<0, 0, 0, 0>>)
<1>1. 0 \in Byte
  BY DEF Byte
<1> QED
  BY <1>1, FourOctets

\* What a message means is known from the sizes of its fields.
LEMMA MeaningOf ==
    ASSUME NEW d, NEW t, NEW b, NEW z, Sizes(Msg(d, t, b)) = z
    PROVE  Meaning(Msg(d, t, b)) = Msg(d, t, Cut(b, z))
BY DEF Meaning, Msg

\* Fields read one by one make the message again.
LEMMA Tuple2 ==
    ASSUME NEW S, NEW b \in [1 .. 2 -> S]
    PROVE  b = <<b[1], b[2]>>
OBVIOUS

\* The same for three fields.
LEMMA Tuple3 ==
    ASSUME NEW S, NEW b \in [1 .. 3 -> S]
    PROVE  b = <<b[1], b[2], b[3]>>
OBVIOUS

\* The same for six fields.
LEMMA Tuple6 ==
    ASSUME NEW S, NEW b \in [1 .. 6 -> S]
    PROVE  b = <<b[1], b[2], b[3], b[4], b[5], b[6]>>
OBVIOUS

-----------------------------------------------------------------------------
(* Numbers                                                                 *)

\* A codec is spread over two octets.
LEMMA CodecParts ==
    ASSUME NEW c \in Byte
    PROVE  \E h \in 0 .. 3, l \in 0 .. 3 :
             /\ (c % 16) = h * 4 + l
             /\ (((c % 16) \div 4) % 4) = h
             /\ (((c % 16) * 64) % 256) = l * 64
BY DEF Byte

\* c is the word of the octets g and l.
Halves(c, g, l) == c = g * 256 + l /\ (c \div 256) = g /\ (c % 256) = l

\* A codec is two octets.
LEMMA WordParts ==
    ASSUME NEW c \in Word
    PROVE  \E g, l \in Byte : Halves(c, g, l)
<1>1. PICK g \in Byte, l \in Byte : c = g * 256 + l
  BY DEF Word
<1>2. Halves(c, g, l)
  BY <1>1 DEF Halves, Byte
<1> QED
  BY <1>2

\* The last ten bits of u are the two bits h and the octet l.
TenBits(u, h, l) ==
    (u % 1024) = h * 256 + l /\ ((u % 1024) \div 256) = h /\ (u % 256) = l

\* The ten bits of usec are two bits and an octet.
LEMMA UsecParts ==
    ASSUME NEW u \in Word
    PROVE  \E h \in 0 .. 3, l \in Byte : TenBits(u, h, l)
<1>1. PICK g \in Byte, l \in Byte : Halves(u, g, l)
  BY WordParts
<1>2. PICK h \in 0 .. 3 : h = (g % 4)
  BY DEF Byte
<1>3. TenBits(u, h, l)
  BY <1>1, <1>2 DEF TenBits, Halves, Byte
<1> QED
  BY <1>3

\* A word is below the modulus it is kept under.
LEMMA WordBound ==
    ASSUME NEW c \in Word
    PROVE  c \in Nat /\ (c % WordSize) = c
<1>1. PICK g \in Byte, l \in Byte : c = g * 256 + l
  BY DEF Word
<1> QED
  BY <1>1 DEF WordSize, Byte

\* msec and usec begin and end in the middle of BYTE2.
LEMMA TimingParts ==
    ASSUME NEW m \in Word
    PROVE  \E h \in 0 .. 7, l \in 0 .. 63 :
             /\ (m % 512) = h * 64 + l
             /\ ((m % 512) \div 64) = h
             /\ (((m % 512) * 4) % 256) = l * 4
<1>1. PICK v \in 0 .. 511 : v = (m % 512)
  <2>1. (m % 512) \in 0 .. 511
    BY WordBound
  <2> QED
    BY <2>1
<1>2. PICK h \in 0 .. 7, l \in 0 .. 63 : v = h * 64 + l
  <2>1. (v \div 64) \in 0 .. 7 /\ (v % 64) \in 0 .. 63
          /\ v = (v \div 64) * 64 + (v % 64)
    OBVIOUS
  <2> QED
    BY <2>1
<1>3. (v \div 64) = h /\ ((v * 4) % 256) = l * 4
  BY <1>2
<1> QED
  BY <1>1, <1>2, <1>3

\* A parameter of 24 bits takes three octets.
Param(a, b, c) == Parameter(a, b * 256 + c)

\* The three octets of a driver's parameter can be read back.
LEMMA ParamParts ==
    ASSUME NEW a \in Byte, NEW b \in Byte, NEW c \in Byte,
           NEW p, p = Param(a, b, c)
    PROVE  /\ (p % 256) = c
           /\ ((p \div 256) % 256) = b
           /\ ((p \div WordSize) % 256) = a
           /\ (p % (256 * WordSize)) = p
<1>1. (p % 256) = c /\ p \in Nat
  BY DEF Param, Parameter, WordSize, Byte
<1>2. (p \div 256) = a * 256 + b
  BY DEF Param, Parameter, WordSize, Byte
<1>3. ((a * 256 + b) % 256) = b
  BY DEF Byte
<1>4. (p \div WordSize) = a
  BY DEF Param, Parameter, WordSize, Byte
<1>5. (a % 256) = a
  BY DEF Byte
<1>6. (p % (256 * WordSize)) = p
  BY DEF Param, Parameter, WordSize, Byte
<1> QED
  BY <1>1, <1>2, <1>3, <1>4, <1>5, <1>6


\* A parameter of one octet is that octet.
LEMMA ParamLow ==
    ASSUME NEW c \in Byte
    PROVE  Param(0, 0, c) = c
BY DEF Param, Parameter, WordSize, Byte

\* The SPC flags are spread over two octets.
LEMMA FlagParts ==
    ASSUME NEW f \in Byte
    PROVE  \E h \in 0 .. 31, l \in 0 .. 3 :
             /\ (f % 128) = h * 4 + l
             /\ ((f \div 4) % 32) = h
             /\ (f % 4) = l
BY DEF Byte

-----------------------------------------------------------------------------
(* Each message is read as what was written                                *)

\* A message of the control channel that arrives.
Arrives(m) == WireOK(Encode(m)) /\ Command(Encode(m)) = Meaning(m)

USE DEF CONTROL, INTERNAL, DATA, RESET_CONN_REQ, RESET_CONN_RESP,
        NEW_TIMING_CONFIG_REQ, UPLINK_CONFIG_NTF, SPEECH_CONFIG_REQ,
        TIMING_CONFIG_NTF, SSI_CONFIG_REQ, SSI_CONFIG_RESP,
        SPEECH_CONFIG_RESP, TEST_RAMP_PING, CS_ERROR, CS_RX_DATA_RECEIVED,
        CS_TX_DATA_READY, UL, DL

\* cmtspeech_msg_encode_speech_config_req and ..._decode_speech_config_req.
LEMMA SpeechConfigReqShape ==
    ASSUME NEW b
    PROVE  /\ Encode(Msg(CONTROL, SPEECH_CONFIG_REQ, b))
                = encode_speech_config_req(b)
           /\ Sizes(Msg(CONTROL, SPEECH_CONFIG_REQ, b)) = <<2, 2, 16, 4, 4, 4>>
           /\ \A w : /\ get_domain(w) = CONTROL
                     /\ get_type(w) = SPEECH_CONFIG_REQ
                     => Command(w)
                          = Msg(CONTROL, SPEECH_CONFIG_REQ,
                                decode_speech_config_req(w))
<1>1. Encode(Msg(CONTROL, SPEECH_CONFIG_REQ, b))
        = encode_speech_config_req(b)
  BY DEF Encode, Msg, Simple
<1>2. Sizes(Msg(CONTROL, SPEECH_CONFIG_REQ, b)) = <<2, 2, 16, 4, 4, 4>>
  BY DEF Sizes, Msg, Simple
<1>3. ASSUME NEW w, get_domain(w) = CONTROL, get_type(w) = SPEECH_CONFIG_REQ
      PROVE  Command(w)
               = Msg(CONTROL, SPEECH_CONFIG_REQ, decode_speech_config_req(w))
  BY <1>3 DEF Command
<1> QED
  BY <1>1, <1>2, <1>3

\* cmtspeech_msg_encode_timing_config_ntf and ..._decode_timing_config_ntf.
LEMMA TimingConfigNtfShape ==
    ASSUME NEW b
    PROVE  /\ Encode(Msg(CONTROL, TIMING_CONFIG_NTF, b))
                = encode_timing_config_ntf(b)
           /\ Sizes(Msg(CONTROL, TIMING_CONFIG_NTF, b)) = <<512, 1024>>
           /\ \A w : /\ get_domain(w) = CONTROL
                     /\ get_type(w) = TIMING_CONFIG_NTF
                     => Command(w)
                          = Msg(CONTROL, TIMING_CONFIG_NTF,
                                decode_timing_config_ntf(w))
<1>1. Encode(Msg(CONTROL, TIMING_CONFIG_NTF, b))
        = encode_timing_config_ntf(b)
  BY DEF Encode, Msg, Simple
<1>2. Sizes(Msg(CONTROL, TIMING_CONFIG_NTF, b)) = <<512, 1024>>
  BY DEF Sizes, Msg, Simple
<1>3. ASSUME NEW w, get_domain(w) = CONTROL, get_type(w) = TIMING_CONFIG_NTF
      PROVE  Command(w)
               = Msg(CONTROL, TIMING_CONFIG_NTF, decode_timing_config_ntf(w))
  BY <1>3 DEF Command
<1> QED
  BY <1>1, <1>2, <1>3

\* cmtspeech_msg_encode_ssi_config_req and ..._decode_ssi_config_req.
LEMMA SsiConfigReqShape ==
    ASSUME NEW b
    PROVE  /\ Encode(Msg(CONTROL, SSI_CONFIG_REQ, b))
                = encode_ssi_config_req(b)
           /\ Sizes(Msg(CONTROL, SSI_CONFIG_REQ, b)) = <<8, 16, 2>>
           /\ \A w : /\ get_domain(w) = CONTROL
                     /\ get_type(w) = SSI_CONFIG_REQ
                     => Command(w)
                          = Msg(CONTROL, SSI_CONFIG_REQ,
                                decode_ssi_config_req(w))
<1>1. Encode(Msg(CONTROL, SSI_CONFIG_REQ, b))
        = encode_ssi_config_req(b)
  BY DEF Encode, Msg, Simple
<1>2. Sizes(Msg(CONTROL, SSI_CONFIG_REQ, b)) = <<8, 16, 2>>
  BY DEF Sizes, Msg, Simple
<1>3. ASSUME NEW w, get_domain(w) = CONTROL, get_type(w) = SSI_CONFIG_REQ
      PROVE  Command(w)
               = Msg(CONTROL, SSI_CONFIG_REQ, decode_ssi_config_req(w))
  BY <1>3 DEF Command
<1> QED
  BY <1>1, <1>2, <1>3

\* cmtspeech_msg_encode_ssi_config_resp and ..._decode_ssi_config_resp.
LEMMA SsiConfigRespShape ==
    ASSUME NEW b
    PROVE  /\ Encode(Msg(CONTROL, SSI_CONFIG_RESP, b))
                = encode_ssi_config_resp(b)
           /\ Sizes(Msg(CONTROL, SSI_CONFIG_RESP, b)) = <<8, 4>>
           /\ \A w : /\ get_domain(w) = CONTROL
                     /\ get_type(w) = SSI_CONFIG_RESP
                     => Command(w)
                          = Msg(CONTROL, SSI_CONFIG_RESP,
                                decode_ssi_config_resp(w))
<1>1. Encode(Msg(CONTROL, SSI_CONFIG_RESP, b))
        = encode_ssi_config_resp(b)
  BY DEF Encode, Msg, Simple
<1>2. Sizes(Msg(CONTROL, SSI_CONFIG_RESP, b)) = <<8, 4>>
  BY DEF Sizes, Msg, Simple
<1>3. ASSUME NEW w, get_domain(w) = CONTROL, get_type(w) = SSI_CONFIG_RESP
      PROVE  Command(w)
               = Msg(CONTROL, SSI_CONFIG_RESP, decode_ssi_config_resp(w))
  BY <1>3 DEF Command
<1> QED
  BY <1>1, <1>2, <1>3

\* cmtspeech_msg_encode_speech_config_resp and ..._decode_speech_config_resp.
LEMMA SpeechConfigRespShape ==
    ASSUME NEW b
    PROVE  /\ Encode(Msg(CONTROL, SPEECH_CONFIG_RESP, b))
                = encode_speech_config_resp(b)
           /\ Sizes(Msg(CONTROL, SPEECH_CONFIG_RESP, b)) = <<2>>
           /\ \A w : /\ get_domain(w) = CONTROL
                     /\ get_type(w) = SPEECH_CONFIG_RESP
                     => Command(w)
                          = Msg(CONTROL, SPEECH_CONFIG_RESP,
                                decode_speech_config_resp(w))
<1>1. Encode(Msg(CONTROL, SPEECH_CONFIG_RESP, b))
        = encode_speech_config_resp(b)
  BY DEF Encode, Msg, Simple
<1>2. Sizes(Msg(CONTROL, SPEECH_CONFIG_RESP, b)) = <<2>>
  BY DEF Sizes, Msg, Simple
<1>3. ASSUME NEW w, get_domain(w) = CONTROL, get_type(w) = SPEECH_CONFIG_RESP
      PROVE  Command(w)
               = Msg(CONTROL, SPEECH_CONFIG_RESP, decode_speech_config_resp(w))
  BY <1>3 DEF Command
<1> QED
  BY <1>1, <1>2, <1>3

\* cmtspeech_msg_encode_test_ramp_ping and ..._decode_test_ramp_ping.
LEMMA TestRampPingShape ==
    ASSUME NEW b
    PROVE  /\ Encode(Msg(CONTROL, TEST_RAMP_PING, b))
                = encode_test_ramp_ping(b)
           /\ Sizes(Msg(CONTROL, TEST_RAMP_PING, b)) = <<16, 16, 256, 256>>
           /\ \A w : /\ get_domain(w) = CONTROL
                     /\ get_type(w) = TEST_RAMP_PING
                     => Command(w)
                          = Msg(CONTROL, TEST_RAMP_PING,
                                decode_test_ramp_ping(w))
<1>1. Encode(Msg(CONTROL, TEST_RAMP_PING, b))
        = encode_test_ramp_ping(b)
  BY DEF Encode, Msg, Simple
<1>2. Sizes(Msg(CONTROL, TEST_RAMP_PING, b)) = <<16, 16, 256, 256>>
  BY DEF Sizes, Msg, Simple
<1>3. ASSUME NEW w, get_domain(w) = CONTROL, get_type(w) = TEST_RAMP_PING
      PROVE  Command(w)
               = Msg(CONTROL, TEST_RAMP_PING, decode_test_ramp_ping(w))
  BY <1>3 DEF Command
<1> QED
  BY <1>1, <1>2, <1>3

\* All fields of SPEECH_CONFIG_REQ arrive.
LEMMA SpeechConfigReqArrives ==
    ASSUME NEW b1 \in Byte, NEW b2 \in Byte, NEW b3 \in Byte, NEW b4 \in Byte,
           NEW b5 \in Byte, NEW b6 \in Byte
    PROVE  Arrives(Msg(CONTROL, SPEECH_CONFIG_REQ, <<b1, b2, b3, b4, b5, b6>>))
<1>1. PICK x \in 0 .. 1, y \in 0 .. 1 : x = (b1 % 2) /\ y = (b2 % 2)
  BY DEF Byte
<1>2. PICK r \in 0 .. 3, s \in 0 .. 3, u \in 0 .. 3 :
          r = (b4 % 4) /\ s = (b5 % 4) /\ u = (b6 % 4)
  BY DEF Byte
<1>3. PICK h \in 0 .. 3, l \in 0 .. 3 :
          /\ (b3 % 16) = h * 4 + l
          /\ (((b3 % 16) \div 4) % 4) = h
          /\ (((b3 % 16) * 64) % 256) = l * 64
  BY CodecParts
<1>4. PICK w3 : w3 = x * 8 + y * 4 + h
  OBVIOUS
<1>5. PICK w4 : w4 = l * 64 + r * 16 + s * 4 + u
  OBVIOUS
<1>6. /\ w4 \in Byte /\ (w4 \div 64) = l /\ ((w4 \div 16) % 4) = r
      /\ ((w4 \div 4) % 4) = s /\ (w4 % 4) = u
  BY <1>5 DEF Byte
<1>7. /\ w3 \in Byte /\ ((w3 \div 8) % 2) = x /\ ((w3 \div 4) % 2) = y
      /\ ((w3 * 4 + l) % 16) = h * 4 + l
  BY <1>4 DEF Byte
<1>8. Encode(Msg(CONTROL, SPEECH_CONFIG_REQ, <<b1, b2, b3, b4, b5, b6>>))
        = <<49, 0, w3, w4>>
  <2>1. encode_speech_config_req(<<b1, b2, b3, b4, b5, b6>>)
          = <<49, 0, w3, w4>>
    BY <1>1, <1>2, <1>3, <1>4, <1>5
      DEF encode_speech_config_req, Placed, Field, Octet, First
  <2>2. Encode(Msg(CONTROL, SPEECH_CONFIG_REQ, <<b1, b2, b3, b4, b5, b6>>))
          = encode_speech_config_req(<<b1, b2, b3, b4, b5, b6>>)
    BY SpeechConfigReqShape
  <2> QED
    BY <2>1, <2>2
<1>9. decode_speech_config_req(<<49, 0, w3, w4>>)
        = <<(b1 % 2), (b2 % 2), (b3 % 16), (b4 % 4), (b5 % 4), (b6 % 4)>>
  BY <1>1, <1>2, <1>3, <1>6, <1>7 DEF decode_speech_config_req, Field
<1>10. WireOK(<<49, 0, w3, w4>>)
  <2>1. 49 \in Byte /\ 0 \in Byte
    BY DEF Byte
  <2> QED
    BY <2>1, <1>6, <1>7, FourOctets
<1>11. Command(<<49, 0, w3, w4>>)
        = Msg(CONTROL, SPEECH_CONFIG_REQ,
              <<(b1 % 2), (b2 % 2), (b3 % 16), (b4 % 4), (b5 % 4), (b6 % 4)>>)
  <2>1. /\ get_type(<<49, 0, w3, w4>>) = SPEECH_CONFIG_REQ
        /\ get_domain(<<49, 0, w3, w4>>) = CONTROL
    BY DEF get_type, get_domain
  <2>2. Command(<<49, 0, w3, w4>>)
          = Msg(CONTROL, SPEECH_CONFIG_REQ,
                decode_speech_config_req(<<49, 0, w3, w4>>))
    BY <2>1, SpeechConfigReqShape
  <2> QED
    BY <2>2, <1>9
<1>12. Meaning(Msg(CONTROL, SPEECH_CONFIG_REQ, <<b1, b2, b3, b4, b5, b6>>))
        = Msg(CONTROL, SPEECH_CONFIG_REQ,
              <<(b1 % 2), (b2 % 2), (b3 % 16), (b4 % 4), (b5 % 4), (b6 % 4)>>)
  <2>1. b1 \in Nat /\ b2 \in Nat /\ b3 \in Nat /\ b4 \in Nat /\ b5 \in Nat
        /\ b6 \in Nat
    BY DEF Byte
  <2>2. Sizes(Msg(CONTROL, SPEECH_CONFIG_REQ, <<b1, b2, b3, b4, b5, b6>>))
          = <<2, 2, 16, 4, 4, 4>>
    BY SpeechConfigReqShape
  <2>3. Cut(<<b1, b2, b3, b4, b5, b6>>, <<2, 2, 16, 4, 4, 4>>)
          = <<(b1 % 2), (b2 % 2), (b3 % 16), (b4 % 4), (b5 % 4), (b6 % 4)>>
    BY <2>1 DEF Cut
  <2> QED
    BY <2>2, <2>3, MeaningOf
<1> QED
  BY <1>8, <1>10, <1>11, <1>12 DEF Arrives

\* All fields of TIMING_CONFIG_NTF arrive.
LEMMA TimingConfigNtfArrives ==
    ASSUME NEW m \in Word, NEW u \in Word
    PROVE  Arrives(Msg(CONTROL, TIMING_CONFIG_NTF, <<m, u>>))
<1>1. PICK h \in 0 .. 7, l \in 0 .. 63 :
          /\ (m % 512) = h * 64 + l
          /\ ((m % 512) \div 64) = h
          /\ (((m % 512) * 4) % 256) = l * 4
  BY TimingParts
<1>2. PICK uh \in 0 .. 3, ul \in Byte : TenBits(u, uh, ul)
  BY UsecParts
<1>3. PICK w3 : w3 = l * 4 + uh
  OBVIOUS
<1>4. /\ w3 \in Byte /\ (w3 \div 4) = l /\ (w3 % 4) = uh
      /\ h \in Byte /\ ul \in Byte /\ (h % 8) = h
  BY <1>3 DEF Byte
<1>5. Encode(Msg(CONTROL, TIMING_CONFIG_NTF, <<m, u>>))
        = <<65, h, w3, ul>>
  <2>1. encode_timing_config_ntf(<<m, u>>)
          = <<65, h, w3, ul>>
    BY <1>1, <1>2, <1>3
      DEF TenBits, encode_timing_config_ntf, Placed, Field, Octet, First
  <2>2. Encode(Msg(CONTROL, TIMING_CONFIG_NTF, <<m, u>>))
          = encode_timing_config_ntf(<<m, u>>)
    BY TimingConfigNtfShape
  <2> QED
    BY <2>1, <2>2
<1>6. decode_timing_config_ntf(<<65, h, w3, ul>>)
        = <<(m % 512), (u % 1024)>>
  <2>1. decode_timing_config_ntf(<<65, h, w3, ul>>)
          = <<(h % 8) * 64 + (w3 \div 4), (w3 % 4) * 256 + ul>>
    BY DEF decode_timing_config_ntf
  <2>2. (h % 8) * 64 + (w3 \div 4) = h * 64 + l
    BY <1>4
  <2>3. (w3 % 4) * 256 + ul = uh * 256 + ul
    BY <1>4
  <2>4. (m % 512) = h * 64 + l /\ (u % 1024) = uh * 256 + ul
    BY <1>1, <1>2 DEF TenBits
  <2> QED
    BY <2>1, <2>2, <2>3, <2>4
<1>7. WireOK(<<65, h, w3, ul>>)
  <2>1. 65 \in Byte /\ 0 \in Byte
    BY DEF Byte
  <2> QED
    BY <2>1, <1>4, FourOctets
<1>8. Command(<<65, h, w3, ul>>)
        = Msg(CONTROL, TIMING_CONFIG_NTF,
              <<(m % 512), (u % 1024)>>)
  <2>1. /\ get_type(<<65, h, w3, ul>>) = TIMING_CONFIG_NTF
        /\ get_domain(<<65, h, w3, ul>>) = CONTROL
    BY DEF get_type, get_domain
  <2>2. Command(<<65, h, w3, ul>>)
          = Msg(CONTROL, TIMING_CONFIG_NTF,
                decode_timing_config_ntf(<<65, h, w3, ul>>))
    BY <2>1, TimingConfigNtfShape
  <2> QED
    BY <2>2, <1>6
<1>9. Meaning(Msg(CONTROL, TIMING_CONFIG_NTF, <<m, u>>))
        = Msg(CONTROL, TIMING_CONFIG_NTF,
              <<(m % 512), (u % 1024)>>)
  <2>1. m \in Nat /\ u \in Nat
    BY WordBound
  <2>2. Sizes(Msg(CONTROL, TIMING_CONFIG_NTF, <<m, u>>))
          = <<512, 1024>>
    BY TimingConfigNtfShape
  <2>3. Cut(<<m, u>>, <<512, 1024>>)
          = <<(m % 512), (u % 1024)>>
    BY <2>1 DEF Cut
  <2> QED
    BY <2>2, <2>3, MeaningOf
<1> QED
  BY <1>5, <1>7, <1>8, <1>9 DEF Arrives

\* All fields of SSI_CONFIG_REQ arrive.
LEMMA SsiConfigReqArrives ==
    ASSUME NEW b1 \in Byte, NEW b2 \in Byte, NEW b3 \in Byte
    PROVE  Arrives(Msg(CONTROL, SSI_CONFIG_REQ, <<b1, b2, b3>>))
<1>1. (b1 % 8) \in Byte /\ ((b1 % 8) % 8) = (b1 % 8)
  BY DEF Byte
<1>2. PICK x \in 0 .. 15, y \in 0 .. 1 : x = (b2 % 16) /\ y = (b3 % 2)
  BY DEF Byte
<1>3. PICK w4 : w4 = x * 2 + y
  OBVIOUS
<1>4. w4 \in Byte /\ ((w4 \div 2) % 16) = x /\ (w4 % 2) = y
  BY <1>3 DEF Byte
<1>5. Encode(Msg(CONTROL, SSI_CONFIG_REQ, <<b1, b2, b3>>))
        = <<33, 0, (b1 % 8), w4>>
  <2>1. encode_ssi_config_req(<<b1, b2, b3>>)
          = <<33, 0, (b1 % 8), w4>>
    BY <1>2, <1>3 DEF encode_ssi_config_req, Placed, Field, Octet, First
  <2>2. Encode(Msg(CONTROL, SSI_CONFIG_REQ, <<b1, b2, b3>>))
          = encode_ssi_config_req(<<b1, b2, b3>>)
    BY SsiConfigReqShape
  <2> QED
    BY <2>1, <2>2
<1>6. decode_ssi_config_req(<<33, 0, (b1 % 8), w4>>)
        = <<(b1 % 8), (b2 % 16), (b3 % 2)>>
  BY <1>1, <1>2, <1>4 DEF decode_ssi_config_req, Field
<1>7. WireOK(<<33, 0, (b1 % 8), w4>>)
  <2>1. 33 \in Byte /\ 0 \in Byte
    BY DEF Byte
  <2> QED
    BY <2>1, <1>1, <1>4, FourOctets
<1>8. Command(<<33, 0, (b1 % 8), w4>>)
        = Msg(CONTROL, SSI_CONFIG_REQ,
              <<(b1 % 8), (b2 % 16), (b3 % 2)>>)
  <2>1. /\ get_type(<<33, 0, (b1 % 8), w4>>) = SSI_CONFIG_REQ
        /\ get_domain(<<33, 0, (b1 % 8), w4>>) = CONTROL
    BY DEF get_type, get_domain
  <2>2. Command(<<33, 0, (b1 % 8), w4>>)
          = Msg(CONTROL, SSI_CONFIG_REQ,
                decode_ssi_config_req(<<33, 0, (b1 % 8), w4>>))
    BY <2>1, SsiConfigReqShape
  <2> QED
    BY <2>2, <1>6
<1>9. Meaning(Msg(CONTROL, SSI_CONFIG_REQ, <<b1, b2, b3>>))
        = Msg(CONTROL, SSI_CONFIG_REQ,
              <<(b1 % 8), (b2 % 16), (b3 % 2)>>)
  <2>1. b1 \in Nat /\ b2 \in Nat /\ b3 \in Nat
    BY DEF Byte
  <2>2. Sizes(Msg(CONTROL, SSI_CONFIG_REQ, <<b1, b2, b3>>))
          = <<8, 16, 2>>
    BY SsiConfigReqShape
  <2>3. Cut(<<b1, b2, b3>>, <<8, 16, 2>>)
          = <<(b1 % 8), (b2 % 16), (b3 % 2)>>
    BY <2>1 DEF Cut
  <2> QED
    BY <2>2, <2>3, MeaningOf
<1> QED
  BY <1>5, <1>7, <1>8, <1>9 DEF Arrives

\* All fields of SSI_CONFIG_RESP arrive.
LEMMA SsiConfigRespArrives ==
    ASSUME NEW b1 \in Byte, NEW b2 \in Byte
    PROVE  Arrives(Msg(CONTROL, SSI_CONFIG_RESP, <<b1, b2>>))
<1>1. /\ (b1 % 8) \in Byte /\ ((b1 % 8) % 8) = (b1 % 8)
      /\ (b2 % 4) \in Byte /\ ((b2 % 4) % 4) = (b2 % 4)
  BY DEF Byte
<1>2. Encode(Msg(CONTROL, SSI_CONFIG_RESP, <<b1, b2>>))
        = <<97, 0, (b1 % 8), (b2 % 4)>>
  <2>1. encode_ssi_config_resp(<<b1, b2>>)
          = <<97, 0, (b1 % 8), (b2 % 4)>>
    BY DEF encode_ssi_config_resp, Placed, Field, Octet, First
  <2>2. Encode(Msg(CONTROL, SSI_CONFIG_RESP, <<b1, b2>>))
          = encode_ssi_config_resp(<<b1, b2>>)
    BY SsiConfigRespShape
  <2> QED
    BY <2>1, <2>2
<1>3. decode_ssi_config_resp(<<97, 0, (b1 % 8), (b2 % 4)>>)
        = <<(b1 % 8), (b2 % 4)>>
  BY <1>1 DEF decode_ssi_config_resp
<1>4. WireOK(<<97, 0, (b1 % 8), (b2 % 4)>>)
  <2>1. 97 \in Byte /\ 0 \in Byte
    BY DEF Byte
  <2> QED
    BY <2>1, <1>1, FourOctets
<1>5. Command(<<97, 0, (b1 % 8), (b2 % 4)>>)
        = Msg(CONTROL, SSI_CONFIG_RESP,
              <<(b1 % 8), (b2 % 4)>>)
  <2>1. /\ get_type(<<97, 0, (b1 % 8), (b2 % 4)>>) = SSI_CONFIG_RESP
        /\ get_domain(<<97, 0, (b1 % 8), (b2 % 4)>>) = CONTROL
    BY DEF get_type, get_domain
  <2>2. Command(<<97, 0, (b1 % 8), (b2 % 4)>>)
          = Msg(CONTROL, SSI_CONFIG_RESP,
                decode_ssi_config_resp(<<97, 0, (b1 % 8), (b2 % 4)>>))
    BY <2>1, SsiConfigRespShape
  <2> QED
    BY <2>2, <1>3
<1>6. Meaning(Msg(CONTROL, SSI_CONFIG_RESP, <<b1, b2>>))
        = Msg(CONTROL, SSI_CONFIG_RESP,
              <<(b1 % 8), (b2 % 4)>>)
  <2>1. b1 \in Nat /\ b2 \in Nat
    BY DEF Byte
  <2>2. Sizes(Msg(CONTROL, SSI_CONFIG_RESP, <<b1, b2>>))
          = <<8, 4>>
    BY SsiConfigRespShape
  <2>3. Cut(<<b1, b2>>, <<8, 4>>)
          = <<(b1 % 8), (b2 % 4)>>
    BY <2>1 DEF Cut
  <2> QED
    BY <2>2, <2>3, MeaningOf
<1> QED
  BY <1>2, <1>4, <1>5, <1>6 DEF Arrives

\* All fields of SPEECH_CONFIG_RESP arrive.
LEMMA SpeechConfigRespArrives ==
    ASSUME NEW b1 \in Byte
    PROVE  Arrives(Msg(CONTROL, SPEECH_CONFIG_RESP, <<b1>>))
<1>1. Encode(Msg(CONTROL, SPEECH_CONFIG_RESP, <<b1>>))
        = <<113, 0, 0, b1>>
  <2>1. encode_speech_config_resp(<<b1>>)
          = <<113, 0, 0, b1>>
    BY DEF encode_speech_config_resp, Placed, Field, Octet, First
  <2>2. Encode(Msg(CONTROL, SPEECH_CONFIG_RESP, <<b1>>))
          = encode_speech_config_resp(<<b1>>)
    BY SpeechConfigRespShape
  <2> QED
    BY <2>1, <2>2
<1>2. decode_speech_config_resp(<<113, 0, 0, b1>>)
        = <<(b1 % 2)>>
  BY DEF decode_speech_config_resp
<1>3. WireOK(<<113, 0, 0, b1>>)
  <2>1. 113 \in Byte /\ 0 \in Byte
    BY DEF Byte
  <2> QED
    BY <2>1, FourOctets
<1>4. Command(<<113, 0, 0, b1>>)
        = Msg(CONTROL, SPEECH_CONFIG_RESP, <<(b1 % 2)>>)
  <2>1. /\ get_type(<<113, 0, 0, b1>>) = SPEECH_CONFIG_RESP
        /\ get_domain(<<113, 0, 0, b1>>) = CONTROL
    BY DEF get_type, get_domain
  <2>2. Command(<<113, 0, 0, b1>>)
          = Msg(CONTROL, SPEECH_CONFIG_RESP,
                decode_speech_config_resp(<<113, 0, 0, b1>>))
    BY <2>1, SpeechConfigRespShape
  <2> QED
    BY <2>2, <1>2
<1>5. Meaning(Msg(CONTROL, SPEECH_CONFIG_RESP, <<b1>>))
        = Msg(CONTROL, SPEECH_CONFIG_RESP, <<(b1 % 2)>>)
  <2>1. b1 \in Nat
    BY DEF Byte
  <2>2. Sizes(Msg(CONTROL, SPEECH_CONFIG_RESP, <<b1>>))
          = <<2>>
    BY SpeechConfigRespShape
  <2>3. Cut(<<b1>>, <<2>>)
          = <<(b1 % 2)>>
    BY <2>1 DEF Cut
  <2> QED
    BY <2>2, <2>3, MeaningOf
<1> QED
  BY <1>1, <1>3, <1>4, <1>5 DEF Arrives

\* All fields of TEST_RAMP_PING arrive.
LEMMA TestRampPingArrives ==
    ASSUME NEW b2 \in Byte, NEW b3 \in Byte, NEW b4 \in Byte
    PROVE  Arrives(Msg(CONTROL, TEST_RAMP_PING, <<CONTROL, b2, b3, b4>>))
<1>1. /\ (b2 % 16) \in Byte /\ ((b2 % 16) % 16) = (b2 % 16)
      /\ (b3 % 256) = b3 /\ (b4 % 256) = b4 /\ (CONTROL % 16) = 1
  BY DEF Byte
<1>2. Encode(Msg(CONTROL, TEST_RAMP_PING, <<CONTROL, b2, b3, b4>>))
        = <<193, (b2 % 16), b3, b4>>
  <2>1. encode_test_ramp_ping(<<CONTROL, b2, b3, b4>>)
          = <<193, (b2 % 16), b3, b4>>
    BY DEF encode_test_ramp_ping
  <2>2. Encode(Msg(CONTROL, TEST_RAMP_PING, <<CONTROL, b2, b3, b4>>))
          = encode_test_ramp_ping(<<CONTROL, b2, b3, b4>>)
    BY TestRampPingShape
  <2> QED
    BY <2>1, <2>2
<1>3. decode_test_ramp_ping(<<193, (b2 % 16), b3, b4>>)
        = <<(CONTROL % 16), (b2 % 16), (b3 % 256), (b4 % 256)>>
  BY <1>1 DEF decode_test_ramp_ping
<1>4. WireOK(<<193, (b2 % 16), b3, b4>>)
  <2>1. 193 \in Byte /\ 0 \in Byte
    BY DEF Byte
  <2> QED
    BY <2>1, <1>1, FourOctets
<1>5. Command(<<193, (b2 % 16), b3, b4>>)
        = Msg(CONTROL, TEST_RAMP_PING,
              <<(CONTROL % 16), (b2 % 16), (b3 % 256), (b4 % 256)>>)
  <2>1. /\ get_type(<<193, (b2 % 16), b3, b4>>) = TEST_RAMP_PING
        /\ get_domain(<<193, (b2 % 16), b3, b4>>) = CONTROL
    BY DEF get_type, get_domain
  <2>2. Command(<<193, (b2 % 16), b3, b4>>)
          = Msg(CONTROL, TEST_RAMP_PING,
                decode_test_ramp_ping(<<193, (b2 % 16), b3, b4>>))
    BY <2>1, TestRampPingShape
  <2> QED
    BY <2>2, <1>3
<1>6. Meaning(Msg(CONTROL, TEST_RAMP_PING, <<CONTROL, b2, b3, b4>>))
        = Msg(CONTROL, TEST_RAMP_PING,
              <<(CONTROL % 16), (b2 % 16), (b3 % 256), (b4 % 256)>>)
  <2>1. CONTROL \in Nat /\ b2 \in Nat /\ b3 \in Nat /\ b4 \in Nat
    BY DEF Byte
  <2>2. Sizes(Msg(CONTROL, TEST_RAMP_PING, <<CONTROL, b2, b3, b4>>))
          = <<16, 16, 256, 256>>
    BY TestRampPingShape
  <2>3. Cut(<<CONTROL, b2, b3, b4>>, <<16, 16, 256, 256>>)
          = <<(CONTROL % 16), (b2 % 16), (b3 % 256), (b4 % 256)>>
    BY <2>1 DEF Cut
  <2> QED
    BY <2>2, <2>3, MeaningOf
<1> QED
  BY <1>2, <1>4, <1>5, <1>6 DEF Arrives

\* A message without fields is its type and its version.
LEMMA SimpleShape ==
    ASSUME NEW t \in Simple
    PROVE  /\ Encode(Msg(CONTROL, t, <<>>)) = <<t * 16 + 1, 0, 0, 0>>
           /\ Sizes(Msg(CONTROL, t, <<>>)) = <<>>
           /\ \A w : get_domain(w) = CONTROL /\ get_type(w) = t =>
                  Command(w) = Msg(CONTROL, t, <<>>)
<1>1. Encode(Msg(CONTROL, t,
      <<>>)) = priv_cmtspeech_msg_encode_simple_message(t)
  BY DEF Encode, Msg, Simple
<1>2. priv_cmtspeech_msg_encode_simple_message(t) = <<t * 16 + 1, 0, 0, 0>>
  BY DEF priv_cmtspeech_msg_encode_simple_message, First, Octet, Simple
<1>3. Sizes(Msg(CONTROL, t, <<>>)) = <<>>
  BY DEF Sizes, Msg, Simple
<1>4. ASSUME NEW w, get_domain(w) = CONTROL, get_type(w) = t
      PROVE  Command(w) = Msg(CONTROL, t, <<>>)
  BY <1>4 DEF Command, Simple
<1> QED
  BY <1>1, <1>2, <1>3, <1>4

\* Messages without fields arrive.
LEMMA SimpleArrives ==
    ASSUME NEW t \in Simple
    PROVE  Arrives(Msg(CONTROL, t, <<>>))
<1>1. PICK o : o = t * 16 + 1
  OBVIOUS
<1>2. o \in Byte /\ 0 \in Byte /\ (o \div 16) = t /\ (o % 16) = 1
  <2>1. t \in 0 .. 15
    BY DEF Simple
  <2> QED
    BY <1>1, <2>1 DEF Byte
<1>3. Encode(Msg(CONTROL, t, <<>>)) = <<o, 0, 0, 0>>
  BY <1>1, SimpleShape
<1>4. WireOK(<<o, 0, 0, 0>>)
  BY <1>2, FourOctets
<1>5. Command(<<o, 0, 0, 0>>) = Msg(CONTROL, t, <<>>)
  <2>1. get_type(<<o, 0, 0, 0>>) = t /\ get_domain(<<o, 0, 0, 0>>) = CONTROL
    BY <1>2 DEF get_type, get_domain
  <2> QED
    BY <2>1, SimpleShape
<1>6. Meaning(Msg(CONTROL, t, <<>>)) = Msg(CONTROL, t, <<>>)
  <2>1. Cut(<<>>, <<>>)
          = <<>>
    BY DEF Cut
  <2> QED
    BY SimpleShape, <2>1, MeaningOf
<1> QED
  BY <1>3, <1>4, <1>5, <1>6 DEF Arrives

\* Messages of the driver: their parameter is three octets.
LEMMA DriverShape ==
    ASSUME NEW t \in {CS_ERROR, CS_RX_DATA_RECEIVED, CS_TX_DATA_READY}, NEW b
    PROVE  /\ t # CS_TX_DATA_READY =>
                  Encode(Msg(INTERNAL, t, b)) = driver_message(t, b)
           /\ t = CS_TX_DATA_READY =>
                  Encode(Msg(INTERNAL, t, b)) = encode_driver_message(t, b)
           /\ Sizes(Msg(INTERNAL, t, b)) = <<256 * WordSize>>
           /\ \A w : get_domain(w) = INTERNAL =>
                  Command(w)
                      = Msg(INTERNAL, get_type(w), decode_driver_message(w))
<1>1. t # CS_TX_DATA_READY
      => Encode(Msg(INTERNAL, t, b)) = driver_message(t, b)
  BY DEF Encode, Msg
<1>2. t = CS_TX_DATA_READY =>
          Encode(Msg(INTERNAL, t, b)) = encode_driver_message(t, b)
  BY DEF Encode, Msg
<1>3. Sizes(Msg(INTERNAL, t, b)) = <<256 * WordSize>>
  BY DEF Sizes, Msg
<1>4. ASSUME NEW w, get_domain(w) = INTERNAL
      PROVE  Command(w) = Msg(INTERNAL, get_type(w), decode_driver_message(w))
  BY <1>4 DEF Command
<1> QED
  BY <1>1, <1>2, <1>3, <1>4

\* The notifications of the driver that carry a parameter arrive.
LEMMA NotificationArrives ==
    ASSUME NEW t \in {CS_ERROR, CS_RX_DATA_RECEIVED},
           NEW a \in Byte, NEW b \in Byte, NEW c \in Byte,
           NEW p, p = Param(a, b, c)
    PROVE  Arrives(Msg(INTERNAL, t, <<p>>))
<1>1. PICK o : o = t * 16
  OBVIOUS
<1>2. o \in Byte /\ (o \div 16) = t /\ (o % 16) = 0
  BY <1>1 DEF Byte
<1>3. Encode(Msg(INTERNAL, t, <<p>>)) = <<o, a, b, c>>
  <2>1. driver_message(t, <<p>>)
          = <<t * 16, ((p \div WordSize) % 256), ((p \div 256) % 256), (p % 256)>>
    BY DEF driver_message, Field
  <2>2. Encode(Msg(INTERNAL, t, <<p>>)) = driver_message(t, <<p>>)
    BY DriverShape
  <2> QED
    BY <1>1, <2>1, <2>2, ParamParts
<1>4. WireOK(<<o, a, b, c>>)
  BY <1>2, FourOctets
<1>5. Command(<<o, a, b, c>>) = Msg(INTERNAL, t, <<p>>)
  <2>1. get_type(<<o, a, b, c>>) = t /\ get_domain(<<o, a, b, c>>) = INTERNAL
    BY <1>2 DEF get_type, get_domain
  <2>2. decode_driver_message(<<o, a, b, c>>) = <<p>>
    BY DEF decode_driver_message, Param
  <2> QED
    BY <2>1, <2>2, DriverShape
<1>6. Meaning(Msg(INTERNAL, t, <<p>>)) = Msg(INTERNAL, t, <<p>>)
  <2>1. Sizes(Msg(INTERNAL, t, <<p>>)) = <<256 * WordSize>>
    BY DriverShape
  <2>2. Cut(<<p>>, <<256 * WordSize>>) = <<(p % (256 * WordSize))>>
    BY DEF Cut
  <2>3. (p % (256 * WordSize)) = p
    BY ParamParts
  <2> QED
    BY <2>1, <2>2, <2>3, MeaningOf
<1> QED
  BY <1>3, <1>4, <1>5, <1>6 DEF Arrives

\* The announcement of an uplink slot arrives.
LEMMA DataReadyArrives ==
    ASSUME NEW s \in Byte
    PROVE  Arrives(Msg(INTERNAL, CS_TX_DATA_READY, <<s>>))
<1>1. Encode(Msg(INTERNAL, CS_TX_DATA_READY, <<s>>)) = <<48, 0, 0, s>>
  <2>1. encode_driver_message(CS_TX_DATA_READY, <<s>>) = <<48, 0, 0, s>>
    BY DEF encode_driver_message, Octet, Byte
  <2> QED
    BY <2>1, DriverShape
<1>2. WireOK(<<48, 0, 0, s>>)
  <2>1. 48 \in Byte /\ 0 \in Byte
    BY DEF Byte
  <2> QED
    BY <2>1, FourOctets
<1>3. Command(<<48, 0, 0, s>>) = Msg(INTERNAL, CS_TX_DATA_READY, <<s>>)
  <2>1. /\ get_type(<<48, 0, 0, s>>) = CS_TX_DATA_READY
        /\ get_domain(<<48, 0, 0, s>>) = INTERNAL
    BY DEF get_type, get_domain
  <2>2. decode_driver_message(<<48, 0, 0, s>>) = <<Param(0, 0, s)>>
    BY DEF decode_driver_message, Param
  <2> QED
    BY <2>1, <2>2, ParamLow, DriverShape
<1>4. Meaning(Msg(INTERNAL, CS_TX_DATA_READY, <<s>>))
        = Msg(INTERNAL, CS_TX_DATA_READY, <<s>>)
  <2>1. (s % (256 * WordSize)) = s
    <3>1. 0 \in Byte
      BY DEF Byte
    <3> QED
      BY <3>1, ParamLow, ParamParts
  <2>2. Sizes(Msg(INTERNAL, CS_TX_DATA_READY, <<s>>)) = <<256 * WordSize>>
    BY DriverShape
  <2>3. Cut(<<s>>, <<256 * WordSize>>)
          = <<s>>
    BY <2>1 DEF Cut
  <2> QED
    BY <2>2, <2>3, MeaningOf
<1> QED
  BY <1>1, <1>2, <1>3, <1>4 DEF Arrives

-----------------------------------------------------------------------------
(* Headers of the speech frames                                            *)

\* The header of an uplink frame is read as it was meant.
LEMMA ULRead ==
    ASSUME NEW c \in Word, NEW b2 \in Byte, NEW b3 \in Byte, NEW b4 \in Byte
    PROVE  LET m == Msg(DATA, UL, <<c, b2, b3, b4>>)
           IN  /\ WireOK(Encode(m))
               /\ Msg(DATA, UL, decode_ul_data_header(Encode(m))) = Meaning(m)
<1>1. PICK g \in Byte, l \in Byte : Halves(c, g, l)
  BY WordParts
<1>2. PICK x \in 0 .. 3, y \in 0 .. 3, z \in 0 .. 3 :
          x = (b2 % 4) /\ y = (b3 % 4) /\ z = (b4 % 4)
  BY DEF Byte
<1>3. PICK w4 : w4 = x * 16 + y * 4 + z
  OBVIOUS
<1>4. /\ w4 \in Byte
      /\ ((w4 \div 16) % 4) = x /\ ((w4 \div 4) % 4) = y /\ (w4 % 4) = z
  BY <1>3 DEF Byte
<1>5. Encode(Msg(DATA, UL, <<c, b2, b3, b4>>)) = <<g, l, 0, w4>>
  <2>1. Encode(Msg(DATA, UL, <<c, b2, b3, b4>>))
          = encode_ul_data_header(<<c, b2, b3, b4>>)
    BY DEF Encode, Msg
  <2>2. (c \div 256) = g /\ (c % 256) = l
    BY <1>1 DEF Halves
  <2>3. encode_ul_data_header(<<c, b2, b3, b4>>) = <<g, l, 0, w4>>
    BY <1>2, <1>3, <2>2 DEF encode_ul_data_header, Placed
  <2> QED
    BY <2>1, <2>3
<1>6. WireOK(<<g, l, 0, w4>>)
  <2>1. g \in Byte /\ l \in Byte /\ 0 \in Byte
    BY DEF Byte
  <2> QED
    BY <1>4, <2>1, FourOctets
<1>7. decode_ul_data_header(<<g, l, 0, w4>>) = <<c, x, y, z>>
  BY <1>1, <1>4 DEF decode_ul_data_header, Counter, Field, Halves
<1>8. Meaning(Msg(DATA, UL, <<c, b2, b3, b4>>)) = Msg(DATA, UL, <<c, x, y, z>>)
  <2>1. Sizes(Msg(DATA, UL, <<c, b2, b3, b4>>)) = <<WordSize, 4, 4, 4>>
    BY DEF Sizes, Msg
  <2>2. (c % WordSize) = c
    BY WordBound
  <2>3. Cut(<<c, b2, b3, b4>>, <<WordSize, 4, 4, 4>>)
          = <<c, x, y, z>>
    BY <1>2, <2>2 DEF Cut
  <2> QED
    BY <2>1, <2>3, MeaningOf
<1> QED
  BY <1>5, <1>6, <1>7, <1>8

\* The codec's sample rate is read as 0, whatever it is.
LEMMA DLRead ==
    ASSUME NEW c \in Word, NEW b2 \in Byte, NEW b3 \in Byte, NEW b4 \in Byte,
           NEW b5 \in 0 .. 3, NEW b6 \in Byte
    PROVE  LET m == Msg(DATA, DL, <<c, b2, b3, b4, b5, b6>>)
           IN  /\ WireOK(Encode(m))
               /\ b5 = 0 =>
                    Msg(DATA, DL,
                      decode_dl_data_header_v5(Encode(m))) = Meaning(m)
<1>1. PICK g \in Byte, l \in Byte : Halves(c, g, l)
  BY WordParts
<1>2. PICK fh \in 0 .. 31, fl \in 0 .. 3 :
          (b2 % 128) = fh * 4 + fl /\ ((b2 \div 4) % 32) = fh /\ (b2 % 4) = fl
  BY FlagParts
<1>3. PICK x \in 0 .. 3, y \in 0 .. 3, z \in 0 .. 3 :
          x = (b3 % 4) /\ y = (b4 % 4) /\ z = (b6 % 4)
  BY DEF Byte
<1>4. PICK o \in {0, 128} : o = (((b5 % 4) * 128) % 256) /\ (b5 = 0 => o = 0)
  <2>1. (((b5 % 4) * 128) % 256) \in {0, 128}
    OBVIOUS
  <2>2. b5 = 0 => (((b5 % 4) * 128) % 256) = 0
    OBVIOUS
  <2> QED
    BY <2>1, <2>2
<1>5. PICK w3 : w3 = o + fh
  OBVIOUS
<1>6. PICK w4 : w4 = fl * 64 + x * 16 + y * 4 + z
  OBVIOUS
<1>7. w3 \in Byte /\ (w3 % 32) = fh /\ (o = 0 => ((w3 \div 32) % 4) = 0)
  BY <1>5 DEF Byte
<1>8. /\ w4 \in Byte /\ ((w4 \div 64) % 4) = fl
      /\ ((w4 \div 16) % 4) = x /\ ((w4 \div 4) % 4) = y /\ (w4 % 4) = z
  BY <1>6 DEF Byte
<1>9. Encode(Msg(DATA, DL, <<c, b2, b3, b4, b5, b6>>)) = <<g, l, w3, w4>>
  <2>1. Encode(Msg(DATA, DL, <<c, b2, b3, b4, b5, b6>>))
          = encode_dl_data_header_v5(<<c, b2, b3, b4, b5, b6>>)
    BY DEF Encode, Msg
  <2>2. (c \div 256) = g /\ (c % 256) = l
    BY <1>1 DEF Halves
  <2>3. encode_dl_data_header_v5(<<c, b2, b3, b4, b5, b6>>)
          = <<(c \div 256), (c % 256),
              (((b5 % 4) * 128) % 256) + ((b2 \div 4) % 32),
              (b2 % 4) * 64 + (b3 % 4) * 16 + (b4 % 4) * 4 + (b6 % 4)>>
    BY DEF encode_dl_data_header_v5, Placed, Field, Octet
  <2>4. (((b5 % 4) * 128) % 256) + ((b2 \div 4) % 32) = w3
    BY <1>2, <1>4, <1>5
  <2>5. (b2 % 4) * 64 + (b3 % 4) * 16 + (b4 % 4) * 4 + (b6 % 4) = w4
    BY <1>2, <1>3, <1>6
  <2> QED
    BY <2>1, <2>2, <2>3, <2>4, <2>5
<1>10. WireOK(<<g, l, w3, w4>>)
  <2>1. g \in Byte /\ l \in Byte
    BY DEF Byte
  <2> QED
    BY <1>7, <1>8, <2>1, FourOctets
<1>11. ASSUME b5 = 0
       PROVE  /\ decode_dl_data_header_v5(<<g, l, w3, w4>>)
                   = <<c, (b2 % 128), x, y, 0, z>>
              /\ Meaning(Msg(DATA, DL, <<c, b2, b3, b4, b5, b6>>))
                   = Msg(DATA, DL, <<c, (b2 % 128), x, y, 0, z>>)
  <2>1. decode_dl_data_header_v5(<<g, l, w3, w4>>)
          = <<c, (b2 % 128), x, y, 0, z>>
    <3>1. decode_dl_data_header_v5(<<g, l, w3, w4>>)
            = <<g * 256 + l, (w3 % 32) * 4 + ((w4 \div 64) % 4),
                ((w4 \div 16) % 4), ((w4 \div 4) % 4), ((w3 \div 32) % 4),
                (w4 % 4)>>
      BY DEF decode_dl_data_header_v5, Counter, Field
    <3>2. (w3 % 32) * 4 + ((w4 \div 64) % 4) = (b2 % 128)
      BY <1>2, <1>7, <1>8
    <3>3. ((w3 \div 32) % 4) = 0
      BY <1>4, <1>7, <1>11
    <3>4. g * 256 + l = c
      BY <1>1 DEF Halves
    <3> QED
      BY <1>8, <3>1, <3>2, <3>3, <3>4
  <2>2. Sizes(Msg(DATA, DL, <<c, b2, b3, b4, b5, b6>>))
          = <<WordSize, 128, 4, 4, 4, 4>>
    BY DEF Sizes, Msg
  <2>3. (c % WordSize) = c
    BY WordBound
  <2>4. Cut(<<c, b2, b3, b4, b5, b6>>, <<WordSize, 128, 4, 4, 4, 4>>)
          = <<c, (b2 % 128), x, y, 0, z>>
    BY <1>3, <1>11, <2>3 DEF Cut
  <2>5. Meaning(Msg(DATA, DL, <<c, b2, b3, b4, b5, b6>>))
          = Msg(DATA, DL, <<c, (b2 % 128), x, y, 0, z>>)
    BY <2>2, <2>4, MeaningOf
  <2> QED
    BY <2>1, <2>5
<1> QED
  BY <1>9, <1>10, <1>11

-----------------------------------------------------------------------------
(* The invariant                                                           *)

HIDE DEF CONTROL, INTERNAL, DATA, RESET_CONN_REQ, RESET_CONN_RESP,
         NEW_TIMING_CONFIG_REQ, UPLINK_CONFIG_NTF, SPEECH_CONFIG_REQ,
         TIMING_CONFIG_NTF, SSI_CONFIG_REQ, SSI_CONFIG_RESP,
         SPEECH_CONFIG_RESP, TEST_RAMP_PING, CS_ERROR, CS_RX_DATA_RECEIVED,
         CS_TX_DATA_READY, UL, DL

FrameHeader(m, w) ==
    Msg(DATA, m.type, IF m.type = UL THEN decode_ul_data_header(w)
                                     ELSE decode_dl_data_header_v5(w))

\* Whoever reads the octets of m takes them for m.
Readable(m) ==
    /\ WireOK(Encode(m))
    /\ m.domain # DATA => Command(Encode(m)) = Meaning(m)
    /\ m.domain = DATA /\ CodecRates \subseteq {0} =>
            FrameHeader(m, Encode(m)) = Meaning(m)

\* What is under way is readable, and what was read is what it means.
MsgInv ==
    /\ WireOK(wire)
    /\ sent = Nothing => got = Nothing
    /\ sent # Nothing => wire = Encode(sent) /\ Readable(sent)
    /\ got # Nothing =>
            /\ sent.domain # DATA => got = Meaning(sent)
            /\ sent.domain = DATA /\ CodecRates \subseteq {0} =>
                    got = Meaning(sent)

\* All that a step sends.
LEMMA SendReadable ==
    ASSUME SendControl \/ SendDriverMessage \/ SendFrame
    PROVE  \E m : Send(m) /\ Readable(m)
<1>0. Octets \subseteq Byte /\ Words \subseteq Word
  BY MsgAssumption
<1>6. CodecRates \subseteq 0 .. 3
  BY MsgAssumption
<1>1. ASSUME NEW m, m.domain # DATA, Arrives(m)
      PROVE  Readable(m)
  BY <1>1 DEF Readable, Arrives
<1>2. ASSUME NEW t, NEW b
      PROVE  /\ Msg(CONTROL, t, b).domain # DATA
             /\ Msg(INTERNAL, t, b).domain # DATA
  BY DEF Msg, CONTROL, INTERNAL, DATA
<1>3. CASE SendControl
  <2>1. ASSUME NEW t \in Simple, Send(Msg(CONTROL, t, <<>>))
        PROVE  \E m : Send(m) /\ Readable(m)
    BY <1>1, <1>2, <2>1, SimpleArrives
  <2>2. ASSUME NEW b \in [1 .. 6 -> Octets], Send(Msg(CONTROL,
        SPEECH_CONFIG_REQ, b))
        PROVE  \E m : Send(m) /\ Readable(m)
    <3>1. b = <<b[1], b[2], b[3], b[4], b[5], b[6]>>
      BY Tuple6
    <3>2. /\ b[1] \in Byte /\ b[2] \in Byte /\ b[3] \in Byte
          /\ b[4] \in Byte /\ b[5] \in Byte /\ b[6] \in Byte
      BY <1>0
    <3>3. Arrives(Msg(CONTROL, SPEECH_CONFIG_REQ, b))
      BY <3>1, <3>2, SpeechConfigReqArrives
    <3> QED
      BY <1>1, <1>2, <2>2, <3>3
  <2>3. ASSUME NEW b \in [1 .. 2 -> Words], Send(Msg(CONTROL,
        TIMING_CONFIG_NTF, b))
        PROVE  \E m : Send(m) /\ Readable(m)
    <3>1. b = <<b[1], b[2]>>
      BY Tuple2
    <3>2. b[1] \in Word /\ b[2] \in Word
      BY <1>0
    <3>3. Arrives(Msg(CONTROL, TIMING_CONFIG_NTF, b))
      BY <3>1, <3>2, TimingConfigNtfArrives
    <3> QED
      BY <1>1, <1>2, <2>3, <3>3
  <2>4. ASSUME NEW b \in [1 .. 3 -> Octets], Send(Msg(CONTROL, SSI_CONFIG_REQ,
        b))
        PROVE  \E m : Send(m) /\ Readable(m)
    <3>1. b = <<b[1], b[2], b[3]>>
      BY Tuple3
    <3>2. b[1] \in Byte /\ b[2] \in Byte /\ b[3] \in Byte
      BY <1>0
    <3>3. Arrives(Msg(CONTROL, SSI_CONFIG_REQ, b))
      BY <3>1, <3>2, SsiConfigReqArrives
    <3> QED
      BY <1>1, <1>2, <2>4, <3>3
  <2>5. ASSUME NEW b \in [1 .. 2 -> Octets], Send(Msg(CONTROL,
        SSI_CONFIG_RESP, b))
        PROVE  \E m : Send(m) /\ Readable(m)
    <3>1. b = <<b[1], b[2]>>
      BY Tuple2
    <3>2. b[1] \in Byte /\ b[2] \in Byte
      BY <1>0
    <3>3. Arrives(Msg(CONTROL, SSI_CONFIG_RESP, b))
      BY <3>1, <3>2, SsiConfigRespArrives
    <3> QED
      BY <1>1, <1>2, <2>5, <3>3
  <2>6. ASSUME NEW r \in Octets, Send(Msg(CONTROL, SPEECH_CONFIG_RESP, <<r>>))
        PROVE  \E m : Send(m) /\ Readable(m)
    BY <1>0, <1>1, <1>2, <2>6, SpeechConfigRespArrives
  <2>7. ASSUME NEW r \in {INTERNAL, CONTROL, DATA}, NEW s \in Octets,
        NEW l \in Octets,
               Send(Msg(CONTROL, TEST_RAMP_PING, <<CONTROL, r, s, l>>))
        PROVE  \E m : Send(m) /\ Readable(m)
    <3>1. r \in Byte /\ s \in Byte /\ l \in Byte
      BY <1>0 DEF Byte, INTERNAL, CONTROL, DATA
    <3>2. Arrives(Msg(CONTROL, TEST_RAMP_PING, <<CONTROL, r, s, l>>))
      BY <3>1, TestRampPingArrives
    <3> QED
      BY <1>1, <1>2, <2>7, <3>2
  <2> QED
    BY <1>3, <2>1, <2>2, <2>3, <2>4, <2>5, <2>6, <2>7 DEF SendControl
<1>4. CASE SendDriverMessage
  <2>1. ASSUME NEW high \in Octets, NEW low \in Words,
               NEW t \in {CS_ERROR, CS_RX_DATA_RECEIVED},
               Send(Msg(INTERNAL, t, <<Parameter(high, low)>>))
        PROVE  \E m : Send(m) /\ Readable(m)
    <3>1. PICK p : p = Parameter(high, low)
      OBVIOUS
    <3>2. low \in Word /\ high \in Byte
      BY <1>0
    <3>3. PICK b \in Byte, c \in Byte : Halves(low, b, c)
      BY <3>2, WordParts
    <3>4. p = Param(high, b, c)
      BY <3>1, <3>3 DEF Param, Halves
    <3>5. Arrives(Msg(INTERNAL, t, <<p>>))
      BY <3>2, <3>4, NotificationArrives
    <3>6. Send(Msg(INTERNAL, t, <<p>>))
      BY <2>1, <3>1
    <3> QED
      BY <1>1, <1>2, <3>5, <3>6
  <2>2. ASSUME NEW s \in Octets, Send(Msg(INTERNAL, CS_TX_DATA_READY, <<s>>))
        PROVE  \E m : Send(m) /\ Readable(m)
    BY <1>0, <1>1, <1>2, <2>2, DataReadyArrives
  <2> QED
    BY <1>4, <2>1, <2>2 DEF SendDriverMessage
<1>5. CASE SendFrame
  <2>1. ASSUME NEW c \in Words, NEW l \in Octets, NEW r \in Octets,
        NEW k \in Octets,
               Send(Msg(DATA, UL, <<c, l, r, k>>))
        PROVE  \E m : Send(m) /\ Readable(m)
    <3>1. c \in Word /\ l \in Byte /\ r \in Byte /\ k \in Byte
      BY <1>0
    <3> DEFINE m == Msg(DATA, UL, <<c, l, r, k>>)
    <3>2. /\ WireOK(Encode(m))
          /\ Msg(DATA, UL, decode_ul_data_header(Encode(m))) = Meaning(m)
      BY <3>1, ULRead
    <3>3. m.domain = DATA /\ m.type = UL
      BY DEF Msg
    <3> HIDE DEF m
    <3>4. Readable(m)
      BY <3>2, <3>3 DEF Readable, FrameHeader
    <3> QED
      BY <2>1, <3>4 DEF m
  <2>2. ASSUME NEW c \in Words, NEW f \in Octets, NEW l \in Octets,
        NEW r \in Octets,
               NEW k \in Octets, NEW codec \in CodecRates,
               Send(Msg(DATA, DL, <<c, f, l, r, codec, k>>))
        PROVE  \E m : Send(m) /\ Readable(m)
    <3>1. /\ c \in Word /\ f \in Byte /\ l \in Byte /\ r \in Byte /\ k \in Byte
          /\ codec \in 0 .. 3
      BY <1>0, <1>6
    <3> DEFINE m == Msg(DATA, DL, <<c, f, l, r, codec, k>>)
    <3>2. /\ WireOK(Encode(m))
          /\ codec = 0 =>
               Msg(DATA, DL, decode_dl_data_header_v5(Encode(m))) = Meaning(m)
      BY <3>1, DLRead
    <3>3. m.domain = DATA /\ m.type = DL /\ DL # UL
      BY DEF Msg, UL, DL
    <3>4. CodecRates \subseteq {0} => codec = 0
      OBVIOUS
    <3> HIDE DEF m
    <3>5. Readable(m)
      BY <3>2, <3>3, <3>4 DEF Readable, FrameHeader
    <3> QED
      BY <2>2, <3>5 DEF m
  <2> QED
    BY <1>5, <2>1, <2>2 DEF SendFrame
<1> QED
  BY <1>3, <1>4, <1>5

\* What is under way can be read, and what was read is what was sent.
LEMMA MsgInvHolds == Spec => []MsgInv
<1>1. Init => MsgInv
  BY NoOctets DEF Init, MsgInv
<1>2. MsgInv /\ [Next]_vars => MsgInv'
  <2> SUFFICES ASSUME MsgInv, [Next]_vars PROVE MsgInv'
    OBVIOUS
  <2>1. CASE sent = Nothing /\ (SendControl \/ SendDriverMessage \/ SendFrame)
    <3>1. PICK m : Send(m) /\ Readable(m)
      BY <2>1, SendReadable
    <3>2. sent' = m /\ wire' = Encode(m) /\ got' = Nothing
      BY <2>1, <3>1 DEF Send, MsgInv
    <3> QED
      BY <3>1, <3>2 DEF MsgInv, Readable
  <2>2. CASE ReceiveCommand
    <3>1. got' = Command(wire) /\ sent' = sent /\ wire' = wire
      BY <2>2 DEF ReceiveCommand
    <3>2. sent # Nothing /\ sent.domain # DATA
      BY <2>2 DEF ReceiveCommand
    <3>3. Command(wire) = Meaning(sent)
      BY <3>2 DEF MsgInv, Readable
    <3> QED
      BY <3>1, <3>2, <3>3 DEF MsgInv
  <2>3. CASE ReceiveFrame
    <3>1. got' = FrameHeader(sent, wire) /\ sent' = sent /\ wire' = wire
      BY <2>3 DEF ReceiveFrame, FrameHeader
    <3>2. sent # Nothing /\ sent.domain = DATA
      BY <2>3 DEF ReceiveFrame
    <3>3. CodecRates \subseteq {0} => FrameHeader(sent, wire) = Meaning(sent)
      BY <3>2 DEF MsgInv, Readable
    <3> QED
      BY <3>1, <3>2, <3>3 DEF MsgInv
  <2>4. CASE Done
    <3>1. wire' = <<0, 0, 0, 0>> /\ sent' = Nothing /\ got' = Nothing
      BY <2>4 DEF Done
    <3>2. WireOK(wire')
      BY <3>1, NoOctets
    <3> QED
      BY <3>1, <3>2 DEF MsgInv
  <2>5. CASE UNCHANGED vars
    BY <2>5 DEF vars, MsgInv
  <2> QED
    BY <2>1, <2>2, <2>3, <2>4, <2>5 DEF Next
<1> QED
  BY <1>1, <1>2, PTL DEF Spec

\* Every encoder fills its four octets and nothing more.
THEOREM TypeCorrect == Spec => []TypeOK
<1>1. MsgInv => TypeOK
  BY DEF MsgInv, TypeOK, WireOK
<1> QED
  BY <1>1, MsgInvHolds, PTL

\* A message of the modem or the driver arrives with all its fields, whatever
\* the values of its arguments and of those of its neighbours.
THEOREM CommandsArrive == Spec => []CommandArrives
<1>1. MsgInv => CommandArrives
  BY DEF MsgInv, CommandArrives
<1> QED
  BY <1>1, MsgInvHolds, PTL

\* So does the header of a frame, as long as the codec's sample rate is the one
\* that is encoded as 0.
THEOREM HeadersArrive == CodecRates \subseteq {0} => (Spec => []HeaderArrives)
<1>1. ASSUME CodecRates \subseteq {0}, MsgInv
      PROVE  HeaderArrives
  BY <1>1 DEF MsgInv, HeaderArrives
<1>2. CASE CodecRates \subseteq {0}
  <2>1. MsgInv => HeaderArrives
    BY <1>1, <1>2
  <2> QED
    BY <2>1, MsgInvHolds, PTL
<1> QED
  BY <1>2
=============================================================================
