------------------------- MODULE SpeechLibraryProofs -------------------------
(***************************************************************************)
(* The protocol state of the library, the wakeline and the descriptors,    *)
(* for every set of buffer slots, every input of the modem and every       *)
(* sequence of calls.  StatesAgree holds, and an active call is never      *)
(* closed, whatever the driver refuses; that the wakeline is kept needs a  *)
(* driver that accepts RESET_CONN_REQ and switches the line; that the      *)
(* descriptors match needs one that accepts the buffers of a test ramp.    *)
(***************************************************************************)
EXTENDS SpeechLibrary, SpeechLemmas

\* The state of the library and the application's record of the buffers it
\* holds keep their types through every message, call and driver failure.
THEOREM TypeCorrect == Spec => []TypeOK
<1>1. Init => TypeOK
    <2>1. MaxHeld \in Nat
        BY LibraryAssumption
    <2> QED
        BY <2>1, OpenedTyped DEF Init, NothingHeld, TypeOK
<1>2. TypeOK /\ [Next]_vars => TypeOK'
    <2> SUFFICES ASSUME TypeOK, [Next]_vars PROVE TypeOK'
        OBVIOUS
    <2>1. MaxHeld \in Nat /\ ReqRates \subseteq Rates
          /\ RespLayouts \subseteq SampleLayouts /\ RampLens \subseteq Nat
          /\ Versions \subseteq {1, 2}
        BY LibraryAssumption
    <2>2. lib \in LibStates
        BY DEF TypeOK
    <2>3. ASSUME NEW F, Deliver(F) PROVE TypeOK'
        <3>1. lib' \in LibStates
            BY <2>1, <2>2, <2>3, HandlersTyped
               DEF Deliver, SpeechConfigReq, UplinkConfigNtf, TimingConfigNtf,
                   SsiConfigResp, ResetConnReq, ResetConnResp, DriverError,
                   TestRampPing, RxDataReceived
        <3>2. UNCHANGED held
            BY <2>3
               DEF Deliver, SpeechConfigReq, UplinkConfigNtf, TimingConfigNtf,
                   SsiConfigResp, ResetConnReq, ResetConnResp, DriverError,
                   TestRampPing, RxDataReceived
        <3> QED
            BY <3>1, <3>2 DEF TypeOK, held
    <2>4. ASSUME NEW F, Call(F) PROVE TypeOK'
        <3>1. CASE CallStatus(F) \/ StateChangeError(F) \/ SetWbPreference
                   \/ SendTimingRequest(F) \/ TestDataRampReq(F)
            <4>1. lib' \in LibStates
                BY <2>1, <2>2, <3>1, CallsTyped
                   DEF CallStatus, StateChangeError, SetWbPreference,
                       SendTimingRequest, TestDataRampReq
            <4>2. UNCHANGED held
                BY <3>1 DEF CallStatus, StateChangeError, SetWbPreference,
                            SendTimingRequest, TestDataRampReq
            <4> QED
                BY <4>1, <4>2 DEF TypeOK, held
        <3>2. CASE ULAcquire \/ ULRelease(F)
            <4>1. lib' \in LibStates
                BY <2>2, <3>2, CallsTyped DEF ULAcquire, ULRelease, ULAvailable
            <4>2. ul_held' \in [ULSlots -> 0 .. MaxHeld] /\ dl_held' = dl_held
                BY <2>1, <3>2 DEF ULAcquire, ULRelease, ULAvailable, TypeOK
            <4> QED
                BY <4>1, <4>2 DEF TypeOK
        <3>3. CASE DLAcquire \/ DLRelease(F)
            <4>1. lib' \in LibStates
                BY <2>2, <3>3, CallsTyped DEF DLAcquire, DLRelease, DLAvailable
            <4>2. dl_held' \in [DLSlots -> 0 .. MaxHeld] /\ ul_held' = ul_held
                BY <2>1, <3>3 DEF DLAcquire, DLRelease, DLAvailable, TypeOK
            <4> QED
                BY <4>1, <4>2 DEF TypeOK
        <3>4. CASE Reopen
            BY <2>1, <3>4, OpenedTyped DEF Reopen, TypeOK
        <3> QED
            BY <2>4, <3>1, <3>2, <3>3, <3>4 DEF Call
    <2>5. CASE UNCHANGED vars
        BY <2>5 DEF vars, TypeOK
    <2> QED
        BY <2>3, <2>4, <2>5 DEF Next
<1> QED
    BY <1>1, <1>2, PTL DEF Spec

-----------------------------------------------------------------------------
(* The protocol state and the wakeline                                     *)

\* Every step of the library keeps what it can.
LEMMA NextKeeps ==
    ASSUME TypeOK, NEW F, Deliver(F) \/ Call(F)
    PROVE  Keeps(lib', lib, F)
<1>1. /\ ReqRates \subseteq Rates /\ RespLayouts \subseteq SampleLayouts
      /\ RampLens \subseteq Nat /\ Versions \subseteq {1, 2}
    BY LibraryAssumption
<1>2. lib \in LibStates
    BY DEF TypeOK
<1>3. CASE Deliver(F)
    BY <1>1, <1>2, <1>3, HandlersKeep
       DEF Deliver, SpeechConfigReq, UplinkConfigNtf, TimingConfigNtf,
           SsiConfigResp, ResetConnReq, ResetConnResp, DriverError,
           TestRampPing, RxDataReceived
<1>4. CASE Call(F)
    <2>1. CASE Reopen
        BY <2>1 DEF Reopen, Opened, Keeps, Agrees, Recorded, Engaged, Enabled,
                    Active, LineFollowsUsers
    <2>2. CASE ~Reopen
        BY <1>1, <1>2, <1>4, <2>2, CallsKeep
           DEF Call, CallStatus, StateChangeError, SetWbPreference,
               SendTimingRequest, TestDataRampReq, ULAcquire, ULRelease,
               DLAcquire, DLRelease, ULAvailable, DLAvailable
    <2> QED
        BY <2>1, <2>2
<1> QED
    BY <1>3, <1>4

\* cmtspeech_backend_common.c keeps the private state in step with the
\* protocol state, whatever arrives, is called or fails.
THEOREM StatesAlwaysAgree == Spec => []StatesAgree
<1>1. Init => Agrees(lib)
    BY DEF Init, Opened, Agrees
<1>2. TypeOK /\ Agrees(lib) /\ [Next]_vars => Agrees(lib)'
    <2>1. ASSUME TypeOK, Agrees(lib), NEW F, Deliver(F) \/ Call(F)
          PROVE  Agrees(lib)'
        BY <2>1, NextKeeps DEF Keeps, Agrees
    <2>2. ASSUME Agrees(lib), UNCHANGED vars PROVE Agrees(lib)'
        BY <2>2 DEF vars, Agrees
    <2> QED
        BY <2>1, <2>2 DEF Next
<1>3. Agrees(lib) => StatesAgree
    BY DEF Agrees, StatesAgree
<1> QED
    BY <1>1, <1>2, <1>3, TypeCorrect, PTL DEF Spec

\* While an SSI connection is being set up, used or closed, and while the
\* answer to a reset is outstanding, the library is a recorded user of the
\* wakeline and the line is up, provided the driver switches the line and
\* takes RESET_CONN_REQ (priv_acquire_wakeline, priv_release_wakeline and all
\* their callers).
THEOREM WakelineIsKept ==
    ASSUME "CS_SET_WAKELINE" \notin MayFail, "RESET_CONN_REQ" \notin MayFail
    PROVE  Spec => [](UsersRecorded /\ WakelineKept)
<1> DEFINE IInv == Agrees(lib) /\ Recorded(lib)
<1>1. Init => IInv
    BY DEF Init, Opened, Agrees, Recorded, Engaged, Enabled, Active,
           LineFollowsUsers
<1>2. TypeOK /\ IInv /\ [Next]_vars => IInv'
    <2>1. ASSUME TypeOK, IInv, NEW F \in SUBSET MayFail, Deliver(F) \/ Call(F)
          PROVE  IInv'
        <3>1. Dependable(F)
            BY DEF Dependable
        <3>2. Keeps(lib', lib, F)
            BY <2>1, NextKeeps
        <3> QED
            BY <2>1, <3>1, <3>2
               DEF Keeps, Agrees, Recorded, Engaged, LineFollowsUsers
    <2>2. ASSUME IInv, UNCHANGED vars PROVE IInv'
        BY <2>2 DEF vars, Agrees, Recorded, Engaged, LineFollowsUsers
    <2> QED
        BY <2>1, <2>2 DEF Next
<1>3. IInv => UsersRecorded /\ WakelineKept
    BY DEF Recorded, Engaged, LineFollowsUsers, UsersRecorded, WakelineKept,
           CallEngaged
<1> QED
    BY <1>1, <1>2, <1>3, TypeCorrect, PTL DEF Spec

\* The users recorded for the wakeline are those the protocol state needs, and
\* the line is up exactly while there is one (the users' part of WakelineIsKept).
THEOREM UsersAreRecorded ==
    ASSUME "CS_SET_WAKELINE" \notin MayFail, "RESET_CONN_REQ" \notin MayFail
    PROVE  Spec => []UsersRecorded
<1>1. Spec => [](UsersRecorded /\ WakelineKept)
    BY WakelineIsKept
<1> QED
    BY <1>1, PTL

-----------------------------------------------------------------------------
(* The closing of the connection and the buffer descriptors                *)

\* Every step of the library is done so.
LEMMA NextDone ==
    ASSUME TypeOK, NEW F, Deliver(F) \/ Call(F)
    PROVE  /\ Discreet(lib')
           /\ RampLens = {} \/ "CS_CONFIG_BUFS" \notin F => Done(lib', lib)
<1>1. /\ ReqRates \subseteq Rates /\ RespLayouts \subseteq SampleLayouts
      /\ RampLens \subseteq Nat /\ Versions \subseteq {1, 2}
    BY LibraryAssumption
<1>2. lib \in LibStates
    BY DEF TypeOK
<1>3. Done(lib', lib) => Discreet(lib')
    BY DEF Done
<1>4. CASE TestRampPing(F)
    BY <1>1, <1>2, <1>4, HandlersDone DEF TestRampPing
<1>5. CASE Deliver(F) /\ ~TestRampPing(F)
    BY <1>1, <1>2, <1>3, <1>5, HandlersDone
       DEF Deliver, SpeechConfigReq, UplinkConfigNtf, TimingConfigNtf,
           SsiConfigResp, ResetConnReq, ResetConnResp, DriverError,
           RxDataReceived
<1>6. CASE TestDataRampReq(F)
    BY <1>1, <1>2, <1>6, CallsDone DEF TestDataRampReq
<1>7. CASE Reopen
    <2>1. ~lib'.call_server_active /\ lib'.dl_desc = 0 /\ lib'.ul_desc = 0
        BY <1>7 DEF Reopen, Opened
    <2> QED
        BY <2>1 DEF Done, Discreet, Matched
<1>8. CASE Call(F) /\ ~TestDataRampReq(F) /\ ~Reopen
    BY <1>1, <1>2, <1>3, <1>8, CallsDone
       DEF Call, CallStatus, StateChangeError, SetWbPreference,
           SendTimingRequest, ULAcquire, ULRelease, DLAcquire, DLRelease,
           ULAvailable, DLAvailable
<1> QED
    BY <1>4, <1>5, <1>6, <1>7, <1>8

\* The library never closes the connection of a call it believes to be
\* active, whatever arrives, is called or fails
\* (cmtspeech_state_change_call_status, priv_handle_reset_conn_req,
\* priv_handle_ssi_config_resp).
THEOREM ActiveCallNotClosed == Spec => NeverClosesActiveCall
<1> DEFINE Kept == \A k \in 1 .. Len(lib'.sent) :
                     lib'.sent[k].type = "SSI_CONFIG_REQ" /\ ~lib'.sent[k].on
                        => ~lib'.call_server_active
<1>1. TypeOK /\ [Next]_vars => [Kept]_vars
    <2>1. ASSUME TypeOK, NEW F, Deliver(F) \/ Call(F) PROVE Kept
        BY <2>1, NextDone DEF Discreet, Mute, Closes
    <2> QED
        BY <2>1 DEF Next
<1> QED
    BY <1>1, TypeCorrect, PTL DEF Spec, NeverClosesActiveCall

\* The buffers given out were initialised for the current slot size, provided
\* the driver takes CS_CONFIG_BUFS or there are no ramp tests: a ramp whose
\* configuration is refused changes the slot size and keeps the descriptors
\* of the size before (cmtspeech_test_data_ramp_req, priv_handle_test_ramp_ping,
\* priv_setup_driver_bufconfig).
THEOREM DescriptorsAlwaysMatch ==
    ASSUME "CS_CONFIG_BUFS" \notin MayFail \/ RampLens = {}
    PROVE  Spec => []DescriptorsMatch
<1>1. Init => Matched(lib)
    BY DEF Init, Opened, Matched
<1>2. TypeOK /\ Matched(lib) /\ [Next]_vars => Matched(lib)'
    <2>1. ASSUME TypeOK, Matched(lib), NEW F \in SUBSET MayFail, Deliver(F) \/ Call(F)
          PROVE  Matched(lib)'
        BY <2>1, NextDone DEF Done, Matched
    <2>2. ASSUME Matched(lib), UNCHANGED vars PROVE Matched(lib)'
        BY <2>2 DEF vars, Matched
    <2> QED
        BY <2>1, <2>2 DEF Next
<1>3. Matched(lib) => DescriptorsMatch
    BY DEF Matched, DescriptorsMatch
<1> QED
    BY <1>1, <1>2, <1>3, TypeCorrect, PTL DEF Spec
=============================================================================
