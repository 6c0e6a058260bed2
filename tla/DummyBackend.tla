---------------------------- MODULE DummyBackend ----------------------------
(***************************************************************************)
(* The dummy backend (dummy-backend/cmtspeech_dummy.c): the library on the *)
(* application's thread and a worker thread that plays the modem.  They    *)
(* talk through two pipes and through variables they share without a lock; *)
(* every store to one of those and every write to a pipe is a step of its  *)
(* own.  The protocol state is that of SpeechState, of which this backend  *)
(* uses neither the wakeline nor the driver's buffers; there are no resets *)
(* and no test ramps, which the worker does not answer.                    *)
(***************************************************************************)
EXTENDS SpeechCalls

CONSTANTS BufferSlots,    \* SAL_BUFFER_SLOTS
          MsgSlots,       \* messages pubbuf has room for, and one more
          MaxBacklog,     \* frames the application may be late
          MaxCalls,       \* how often a call starts or ends
          EarlyClose      \* the application may close before the worker runs

ASSUME DummyAssumption ==
    /\ BufferSlots \in Nat \ {0}
    /\ MsgSlots \in Nat \ {0, 1}
    /\ MaxBacklog \in Nat \ {0}
    /\ MaxCalls \in Nat
    /\ EarlyClose \in BOOLEAN

VARIABLES
    lib,                 \* bcstate
    state, dl_active, thread_running,       \* shared by the two threads
    call_server_status,
    toWorker,            \* thread_pipes: messages for the worker
    toApp,               \* control_pipes: messages for the application
    pubbuf,              \* control messages waiting for cmtspeech_read_event
    rest,                \* what is left to do of the application's call
    worker,              \* where the worker is, cur_state and what it replies
    dl_buf_idx, frames,  \* whether the frame in a downlink slot is whole
    unannounced,         \* a slot was taken and its frame not announced yet
    told,                \* cmtspeech_check_pending reported a downlink frame
    held,                \* the downlink buffer of the application
    calls                \* how often a call has started or ended

app == <<lib, call_server_status, pubbuf, told, held, calls>>
frame == <<dl_buf_idx, frames, unannounced>>
shared == <<state, dl_active, thread_running>>
vars == <<app, shared, toWorker, toApp, rest, worker, frame>>

DLIndices == 0 .. BufferSlots - 1

States == {"IDLE", "INITIALIZED", "MEDIA_FLOWING", "TERMINATING"}

Msg(type) == [type |-> type, on |-> FALSE]
SpeechConfigReq(on) == [type |-> "SPEECH_CONFIG_REQ", on |-> on]
Announcement == Msg("DL_DATA_AVAIL")

NoBuffer == [slot |-> -1, whole |-> FALSE, age |-> 0]

\* cmtspeech_open leaves dl_active uninitialised.
Init ==
    /\ lib = Opened
    /\ state = "IDLE" /\ call_server_status = FALSE
    /\ dl_active \in BOOLEAN
    /\ thread_running = "STARTED"
    /\ toWorker = <<>> /\ toApp = <<>> /\ pubbuf = <<>> /\ rest = <<>>
    /\ worker = [at |-> "start", cur |-> "IDLE", todo |-> <<>>]
    /\ dl_buf_idx = 0
    /\ frames = [i \in DLIndices |-> TRUE]
    /\ unannounced = FALSE
    /\ told = FALSE /\ held = NoBuffer /\ calls = 0

-----------------------------------------------------------------------------
(* The application's thread: one call after the other.  What a call writes *)
(* first and how it changes the protocol state is one step, its other      *)
(* statements are in "rest".                                               *)

\* The wakeline, which SpeechState notes with a connection, does not exist.
Updates(s) ==
    /\ lib' = [s EXCEPT !.sent = <<>>, !.event = NoEvent,
                        !.wakeline_users = {}, !.line = FALSE]
    /\ toWorker' = toWorker \o s.sent

\* cmtspeech_check_pending; a full pubbuf leaves everything as it is.
CheckPending ==
    /\ rest = <<>> /\ ~told
    /\ toApp # <<>>
    /\ Len(pubbuf) + 1 < MsgSlots
    /\ LET m == Head(toApp)
       IN  IF m = Announcement THEN told' = TRUE /\ UNCHANGED pubbuf
           ELSE pubbuf' = Append(pubbuf, m) /\ UNCHANGED told
    /\ toApp' = Tail(toApp)
    /\ UNCHANGED <<lib, call_server_status, held, calls, shared, toWorker,
                   rest, worker, frame>>

\* A SPEECH_CONFIG_REQ is answered at once; its reply is not written.
SpeechConfigured(s, on) ==
    PostSpeechConfigResp(
        PrivChangeTo(Assert(Entered(s), "speech_config_req",
                            s.proto_state \in Enabled),
                     IF on THEN "CONFIG_ACT_PEND" ELSE "CONFIG_DEACT_PEND"),
        TRUE, {})

\* cmtspeech_bc_handle_command
Handled(s, m) ==
    CASE m.type = "SPEECH_CONFIG_REQ" -> SpeechConfigured(s, m.on)
      [] m.type = "UPLINK_CONFIG_NTF" -> HandleUplinkConfigNtf(s)
      [] m.type = "TIMING_CONFIG_NTF" -> HandleTimingConfigNtf(s)
      [] m.type = "SSI_CONFIG_RESP" ->
            SsiConfigAnswered(Assert(Entered(s), "ssi_config_resp",
                                s.proto_state \in {"CONNECTED", "DISCONNECTED"}),
                              TRUE, "inorder", {})

\* What cmtspeech_read_event does after that, the state going from s to t.
AfterEvent(s, t, m) ==
    (CASE m.type = "SSI_CONFIG_RESP" /\ t.proto_state = "CONNECTED" ->
            <<"emit(1)">>
       [] m.type = "SPEECH_CONFIG_REQ" -> <<"dl_active = true">>
       [] OTHER -> <<>>)
    \o (IF s.proto_state = "DISCONNECTED" /\ t.proto_state = "CONNECTED"
        THEN <<"MEDIA_FLOWING">> ELSE <<>>)

\* cmtspeech_read_event
ReadEvent ==
    /\ rest = <<>>
    /\ pubbuf # <<>>
    /\ LET t == Handled(lib, Head(pubbuf))
       IN  Updates(t) /\ rest' = AfterEvent(lib, t, Head(pubbuf))
    /\ pubbuf' = Tail(pubbuf)
    /\ UNCHANGED <<call_server_status, told, held, calls, shared, toApp, worker,
                   frame>>

\* Faulty variant: the stream is not stopped.
StreamLeftRunning(s, on) ==
    IF on THEN <<"INITIALIZED">> ELSE <<"dl_active = false", "TERMINATING">>

AfterCallStatus(s, on) ==
    IF on THEN <<"INITIALIZED">>
    ELSE <<"dl_active = false", "TERMINATING">>
         \o (IF s.proto_state \in Active THEN <<"emit(0)">> ELSE <<>>)

\* The two ends have nothing more to tell each other about the last call.
Settled ==
    /\ lib.proto_state \in {"DISCONNECTED", "ACTIVE_DLUL"}
    /\ lib.priv_state = "IN_SYNC"
    /\ pubbuf = <<>>
    /\ \A k \in 1 .. Len(toApp) : toApp[k] = Announcement

\* cmtspeech_state_change_call_status, when the status changes.  A call lasts
\* until it is connected and the next one waits until it is gone.
CallStatus ==
    /\ rest = <<>> /\ ~told
    /\ calls < MaxCalls /\ calls' = calls + 1
    /\ Settled
    /\ call_server_status' = ~call_server_status
    /\ LET t == cmtspeech_state_change_call_status(lib, call_server_status', {})
       IN  Updates(t) /\ rest' = AfterCallStatus(t, call_server_status')
    /\ UNCHANGED <<pubbuf, told, held, shared, toApp, worker, frame>>

\* cmtspeech_dl_buffer_acquire: whatever slot is the current one.
Acquire ==
    /\ rest = <<>> /\ told
    /\ held = NoBuffer
    /\ held' = [slot |-> dl_buf_idx, whole |-> frames[dl_buf_idx], age |-> 0]
    /\ told' = FALSE
    /\ UNCHANGED <<lib, call_server_status, pubbuf, calls, shared, toWorker,
                   toApp, rest, worker, frame>>

\* cmtspeech_dl_buffer_release
Release ==
    /\ rest = <<>>
    /\ held # NoBuffer /\ held' = NoBuffer
    /\ UNCHANGED <<lib, call_server_status, pubbuf, told, calls, shared,
                   toWorker, toApp, rest, worker, frame>>

\* The application has no use for another frame yet.
Ignore ==
    /\ rest = <<>> /\ told /\ told' = FALSE
    /\ held # NoBuffer
    /\ UNCHANGED <<lib, call_server_status, pubbuf, held, calls, shared,
                   toWorker, toApp, rest, worker, frame>>

WorkerStarting == worker.at \in {"start", "started"}

\* Faulty variant: no message wakes the worker up.
ExitUnannounced == <<"THREAD_EXIT_REQ", "join">>

CloseSteps == <<"THREAD_EXIT_REQ", "exit message", "join">>

\* cmtspeech_close
Close ==
    /\ rest = <<>> /\ ~told
    /\ EarlyClose \/ ~WorkerStarting
    /\ rest' = CloseSteps
    /\ UNCHANGED <<app, shared, toWorker, toApp, worker, frame>>

Executes(statement) ==
    /\ rest # <<>> /\ Head(rest) = statement
    /\ rest' = Tail(rest)
    /\ UNCHANGED <<app, worker, frame>>

StoreState ==
    /\ \E new \in States : Executes(new) /\ state' = new
    /\ UNCHANGED <<dl_active, thread_running, toWorker, toApp>>

StoreDlActive ==
    /\ \/ Executes("dl_active = true") /\ dl_active' = TRUE
       \/ Executes("dl_active = false") /\ dl_active' = FALSE
    /\ UNCHANGED <<state, thread_running, toWorker, toApp>>

\* priv_emit_speech_config_req: the application's thread writes to itself.
Emit ==
    /\ \/ Executes("emit(1)") /\ toApp' = Append(toApp, SpeechConfigReq(TRUE))
       \/ Executes("emit(0)") /\ toApp' = Append(toApp, SpeechConfigReq(FALSE))
    /\ UNCHANGED <<shared, toWorker>>

RequestExit ==
    /\ Executes("THREAD_EXIT_REQ")
    /\ thread_running' = "EXIT_REQ"
    /\ UNCHANGED <<state, dl_active, toWorker, toApp>>

WriteExitMessage ==
    /\ Executes("exit message")
    /\ toWorker' = Append(toWorker, OutMsg("EXIT_REQUEST"))
    /\ UNCHANGED <<shared, toApp>>

\* pthread_join, after which the instance is freed
Join ==
    /\ worker.at = "done"
    /\ rest = <<"join">> /\ rest' = <<"freed">>
    /\ UNCHANGED <<app, shared, toWorker, toApp, worker, frame>>

AppStep ==
    StoreState \/ StoreDlActive \/ Emit \/ RequestExit \/ WriteExitMessage \/ Join

-----------------------------------------------------------------------------
(* The worker thread                                                       *)

\* The worker looks at thread_running and says that it runs; the application
\* may ask it to exit in between.
WorkerStarts ==
    /\ worker.at = "start"
    /\ worker' = [worker EXCEPT
                    !.at = IF thread_running = "STARTED" THEN "started"
                           ELSE "loop"]
    /\ UNCHANGED <<shared, toWorker, toApp, rest, app, frame>>

WorkerRuns ==
    /\ worker.at = "started"
    /\ worker' = [worker EXCEPT !.at = "loop"]
    /\ thread_running' = "RUNNING"
    /\ UNCHANGED <<state, dl_active, toWorker, toApp, rest, app, frame>>

\* The top of the loop: cur_state is read, and the exit request.
WorkerLooks ==
    /\ worker.at = "loop" /\ thread_running # "EXIT_REQ"
    /\ worker' = [worker EXCEPT !.at = "poll", !.cur = state]
    /\ UNCHANGED <<shared, toWorker, toApp, rest, app, frame>>

WorkerExits ==
    /\ worker.at = "loop" /\ thread_running = "EXIT_REQ"
    /\ worker' = [worker EXCEPT !.at = "done"]
    /\ thread_running' = "TERMINATED"
    /\ UNCHANGED <<state, dl_active, toWorker, toApp, rest, app, frame>>

\* Faulty variant: the start of a connection makes the worker idle, too.
AlwaysIdle(m) ==
    CASE m.type = "SSI_CONFIG_REQ" -> <<"SSI_CONFIG_RESP", "IDLE">>
      [] m.type = "NEW_TIMING_CONFIG_REQ" ->
            (IF state = "MEDIA_FLOWING" THEN <<"UPLINK_CONFIG_NTF">> ELSE <<>>)
            \o <<"TIMING_CONFIG_NTF">>
      [] OTHER -> <<>>

\* handle_inbound_control_message: what the worker writes and stores.
Replies(m) ==
    CASE m.type = "SSI_CONFIG_REQ" ->
            <<"SSI_CONFIG_RESP">> \o (IF m.on THEN <<>> ELSE <<"IDLE">>)
      [] m.type = "NEW_TIMING_CONFIG_REQ" ->
            (IF state = "MEDIA_FLOWING" THEN <<"UPLINK_CONFIG_NTF">> ELSE <<>>)
            \o <<"TIMING_CONFIG_NTF">>
      [] OTHER -> <<>>

\* priv_read_control_message
WorkerReads ==
    /\ worker.at = "poll" /\ toWorker # <<>>
    /\ worker' = [worker EXCEPT !.at = "reply", !.todo = Replies(Head(toWorker))]
    /\ toWorker' = Tail(toWorker)
    /\ UNCHANGED <<shared, toApp, rest, app, frame>>

WorkerReplies ==
    /\ worker.at = "reply" /\ worker.todo # <<>>
    /\ worker' = [worker EXCEPT !.todo = Tail(@)]
    /\ \/ /\ Head(worker.todo) = "IDLE"
          /\ state' = "IDLE" /\ UNCHANGED toApp
       \/ /\ Head(worker.todo) # "IDLE"
          /\ toApp' = Append(toApp, Msg(Head(worker.todo))) /\ UNCHANGED state
    /\ UNCHANGED <<dl_active, thread_running, toWorker, rest, app, frame>>

\* The message is dealt with; while speech flows a frame may be due as well.
WorkerReplied ==
    /\ worker.at = "reply" /\ worker.todo = <<>>
    /\ \E next \in IF worker.cur = "MEDIA_FLOWING" THEN {"loop", "advance"}
                   ELSE {"loop"} :
            /\ next = "advance" => dl_active
            /\ worker' = [worker EXCEPT !.at = next]
    /\ UNCHANGED <<shared, toWorker, toApp, rest, app, frame>>

\* poll() times out after at most 100ms while speech flows, and the next
\* frame is due; dl_active is read after the poll.
PollTimeout ==
    /\ worker.at = "poll" /\ toWorker = <<>>
    /\ worker.cur = "MEDIA_FLOWING"
    /\ worker' = [worker EXCEPT !.at = IF dl_active THEN "advance" ELSE "loop"]
    /\ UNCHANGED <<shared, toWorker, toApp, rest, app, frame>>

\* In the other states it times out after five minutes.
LongTimeout ==
    /\ worker.at = "poll" /\ toWorker = <<>>
    /\ worker.cur # "MEDIA_FLOWING"
    /\ worker' = [worker EXCEPT !.at = "loop"]
    /\ UNCHANGED <<shared, toWorker, toApp, rest, app, frame>>

\* Faulty variants: the slots wrap around early or never.
WrapsEarly(i) == (i + 1) % (BufferSlots - 1)

WrapsNever(i) == i + 1

NextIndex(i) == (i + 1) % BufferSlots

\* Faulty variant: a frame is announced before it is there.
AnnouncedFirst(step) ==
    CASE step = "advance" -> "announce"
      [] step = "announce" -> "fill"
      [] step = "fill" -> "loop"

\* The order in which a frame is made
After(step) ==
    CASE step = "advance" -> "fill"
      [] step = "fill" -> "announce"
      [] step = "announce" -> "loop"

Makes(step) ==
    /\ worker.at = step
    /\ worker' = [worker EXCEPT !.at = After(step)]
    /\ UNCHANGED <<shared, toWorker, rest>>

Backlog == Len(SelectSeq(toApp, LAMBDA m : m = Announcement))

\* The next slot becomes the current one: what it held goes.  "held" notes
\* how many slots were taken since the application acquired its buffer.  An
\* application is at most MaxBacklog frames late until it stops reading.
Advance ==
    /\ Makes("advance")
    /\ Backlog < MaxBacklog \/ thread_running = "EXIT_REQ"
    /\ dl_buf_idx' = NextIndex(dl_buf_idx)
    /\ frames' = [frames EXCEPT ![dl_buf_idx'] = FALSE]
    /\ unannounced' = TRUE
    /\ held' = IF held = NoBuffer \/ held.age = BufferSlots THEN held
               ELSE [held EXCEPT !.age = @ + 1]
    /\ UNCHANGED <<lib, call_server_status, pubbuf, told, calls, toApp>>

\* dummy_tone_fill_buffer_slot
Fill ==
    /\ Makes("fill")
    /\ frames' = [frames EXCEPT ![dl_buf_idx] = TRUE]
    /\ UNCHANGED <<app, toApp, dl_buf_idx, unannounced>>

Announce ==
    /\ Makes("announce")
    /\ toApp' = Append(toApp, Announcement)
    /\ unannounced' = FALSE
    /\ UNCHANGED <<app, dl_buf_idx, frames>>

WorkerStep ==
    \/ WorkerStarts \/ WorkerRuns \/ WorkerLooks \/ WorkerExits
    \/ WorkerReads \/ WorkerReplies \/ WorkerReplied
    \/ PollTimeout \/ Advance \/ Fill \/ Announce

Next ==
    \/ CheckPending \/ ReadEvent \/ CallStatus \/ Acquire \/ Release \/ Ignore
    \/ Close
    \/ AppStep
    \/ WorkerStep \/ LongTimeout

\* The application's main loop goes on, its calls return unless they wait for
\* the worker, and the scheduler runs the worker.  Nothing relies on the long
\* timeout.
Fairness ==
    /\ WF_vars(CheckPending) /\ WF_vars(ReadEvent)
    /\ WF_vars(Acquire) /\ WF_vars(Release)
    /\ WF_vars(AppStep)
    /\ WF_vars(WorkerStep)

Spec == Init /\ [][Next]_vars

FairSpec == Spec /\ Fairness
-----------------------------------------------------------------------------

ControlMsgs ==
    [type : {"SPEECH_CONFIG_REQ", "UPLINK_CONFIG_NTF", "TIMING_CONFIG_NTF",
             "SSI_CONFIG_RESP"}, on : BOOLEAN]

Statements ==
    States \cup {"dl_active = true", "dl_active = false", "emit(0)", "emit(1)",
                 "THREAD_EXIT_REQ", "exit message", "join", "freed"}

WorkerMsgs ==
    [type : OutTypes \cup {"EXIT_REQUEST"}, on : BOOLEAN, version : 0 .. 2]

Workers ==
    [at : {"start", "started", "loop", "poll", "reply", "advance", "fill",
           "announce", "done"},
     cur : States,
     todo : Seq({"SSI_CONFIG_RESP", "UPLINK_CONFIG_NTF", "TIMING_CONFIG_NTF",
                 "IDLE"})]

TypeOK ==
    /\ lib \in LibStates
    /\ state \in States /\ dl_active \in BOOLEAN
    /\ call_server_status \in BOOLEAN
    /\ thread_running \in {"STARTED", "RUNNING", "EXIT_REQ", "TERMINATED"}
    /\ toWorker \in Seq(WorkerMsgs)
    /\ toApp \in Seq(ControlMsgs \cup {Announcement})
    /\ pubbuf \in Seq(ControlMsgs) /\ Len(pubbuf) < MsgSlots
    /\ rest \in Seq(Statements)
    /\ worker \in Workers
    /\ dl_buf_idx \in DLIndices /\ frames \in [DLIndices -> BOOLEAN]
    /\ unannounced \in BOOLEAN /\ told \in BOOLEAN
    /\ held \in [slot : DLIndices \cup {-1}, whole : BOOLEAN,
                 age : 0 .. BufferSlots]
    /\ calls \in 0 .. MaxCalls

\* The worker generates frames in STATE_MEDIA_FLOWING only.  Both threads set
\* the state, and a late STATE_IDLE of the call before does not undo the one
\* of this call while the stream is active.
StreamKeepsFlowing ==
    call_server_status /\ lib.proto_state \in Active => state = "MEDIA_FLOWING"

\* An application that has read all announcements, and has not been overtaken
\* by the frame after the last one, acquires a frame the worker has finished.
AnnouncedFrameIsWhole ==
    [][Acquire /\ Backlog = 0 /\ ~unannounced => held'.whole]_vars

\* A buffer is the application's until as many frames as there are slots have
\* been started, however long it takes to release it.
HeldFrameIsKept ==
    held # NoBuffer /\ held.whole /\ held.age < BufferSlots =>
        frames[held.slot]

\* A call that lasts is connected and gets its speech frames, without the
\* worker having to time out first.
CallGetsFrames ==
    <>[](call_server_status /\ rest = <<>>) =>
        /\ <>[](lib.proto_state = "ACTIVE_DLUL")
        /\ []<>told

\* When the call is over the connection is closed.
ConnectionCloses ==
    <>[](~call_server_status /\ rest = <<>>) =>
        <>[](lib.proto_state = "DISCONNECTED" /\ state = "IDLE")

\* cmtspeech_close returns.
CloseReturns == (rest # <<>> /\ Head(rest) = "THREAD_EXIT_REQ") ~> rest = <<"freed">>
=============================================================================
