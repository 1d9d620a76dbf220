------------------------------ MODULE AudioStream ------------------------------
(***************************************************************************)
(* One recording from the microphone to the transcript: the callback of    *)
(* the device fills a bounded buffer, TranscriptionSession::run moves it   *)
(* into a bounded channel of commands, and the future of the Realtime      *)
(* client takes the commands out again.  That future is polled by the loop *)
(* of run only, which cannot poll it while it waits inside an arm.         *)
(*                                                                         *)
(* Frames are counted; the one item the server makes of them has partial   *)
(* texts and a final one.                                                  *)
(***************************************************************************)
EXTENDS Naturals, Sequences

CONSTANTS
    FRAME_BUFFER_CAPACITY,
    AUDIO_COMMAND_CAPACITY,
    MAX_CONNECT_ATTEMPTS,
    MaxFaults       \* bound: device errors, failed calls of the network

VARIABLES
    stopped, failure,   \* MicrophoneState
    worker,             \* the capture thread: "check", "gap" between the check and
                        \* the wait, "wait", "ended" with the stream dropped
    frames, dropped,    \* the buffer; history: a frame found no room in it
    cancelled,          \* the CancellationToken
    session,            \* TranscriptionSession::run: "loop", "send", "join", "stop"
    pending,            \* the command it waits to send
    finished, sent,     \* source_finished; history: frames given to the client
    commands,           \* the channel
    client,             \* RealtimeTranscriptionClient::run
    attempt, turn, deadline,
    item,               \* the server's item: "none", "committed", "final"
    events, shown,      \* BackendEventState; what the callback was last given
    result, faults

mic == <<stopped, failure, worker>>
net == <<client, attempt, turn, deadline, item>>
vars == <<mic, frames, dropped, cancelled, session, pending, finished, sent, commands, net,
          events, shown, result, faults>>

NoTurn == [uncommitted |-> FALSE, pending |-> FALSE, finishing |-> FALSE]

TypeOK ==
    /\ stopped \in BOOLEAN /\ failure \in {"none", "stream", "overflow"}
    /\ worker \in {"check", "gap", "wait", "ended"}
    /\ frames \in 0..FRAME_BUFFER_CAPACITY /\ dropped \in BOOLEAN
    /\ cancelled \in BOOLEAN
    /\ session \in {"loop", "send", "join", "stop", "ended"}
    /\ pending \in {"none", "audio", "finish"}
    /\ finished \in BOOLEAN /\ sent \in BOOLEAN
    /\ commands \in Seq({"audio", "finish"}) /\ Len(commands) <= AUDIO_COMMAND_CAPACITY
    /\ client \in {"connecting", "running", "sending", "ok", "failed"}
    /\ attempt \in 1..MAX_CONNECT_ATTEMPTS
    /\ turn \in [uncommitted : BOOLEAN, pending : BOOLEAN, finishing : BOOLEAN]
    /\ deadline \in BOOLEAN /\ item \in {"none", "committed", "final"}
    /\ events \in Seq({"partial", "final"}) /\ shown \in {"nothing", "partial", "final"}
    /\ result \in {"none", "ok", "cancelled", "stream", "overflow", "realtime"}
    /\ faults \in 0..MaxFaults

Init ==
    /\ stopped = FALSE /\ failure = "none" /\ worker = "check"
    /\ frames = 0 /\ dropped = FALSE /\ cancelled = FALSE
    /\ session = "loop" /\ pending = "none" /\ finished = FALSE /\ sent = FALSE
    /\ commands = <<>> /\ client = "connecting" /\ attempt = 1 /\ turn = NoTurn
    /\ deadline = FALSE /\ item = "none" /\ events = <<>> /\ shown = "nothing"
    /\ result = "none" /\ faults = 0

Fault == faults < MaxFaults /\ faults' = faults + 1

-----------------------------------------------------------------------------
(***************************************************************************)
(* The microphone.                                                         *)
(***************************************************************************)
HasSignal == stopped \/ failure # "none"

\* MicrophoneState::wake wakes who waits.
Wake == worker' = IF worker = "wait" THEN "check" ELSE worker

\* wait_until_signal: stop and fail do not take the lock between the check and
\* the wait.
Check ==
    /\ worker = "check"
    /\ worker' = IF HasSignal THEN "ended" ELSE "gap"
    /\ UNCHANGED <<stopped, failure, frames, dropped, cancelled, session, pending, finished, sent,
                   commands, net, events, shown, result, faults>>

Wait ==
    /\ worker = "gap"
    /\ worker' = "wait"
    /\ UNCHANGED <<stopped, failure, frames, dropped, cancelled, session, pending, finished, sent,
                   commands, net, events, shown, result, faults>>

Fail(kind) ==
    /\ failure' = IF failure = "none" THEN kind ELSE failure
    /\ Wake

\* enqueue_frame
Record ==
    /\ worker # "ended"
    /\ IF frames < FRAME_BUFFER_CAPACITY /\ session # "ended"
       THEN frames' = frames + 1 /\ UNCHANGED <<failure, worker, dropped>>
       ELSE Fail("overflow") /\ dropped' = TRUE /\ UNCHANGED frames
    /\ UNCHANGED <<stopped, cancelled, session, pending, finished, sent, commands, net, events,
                   shown, result, faults>>

DeviceFails ==
    /\ worker # "ended" /\ Fault
    /\ Fail("stream")
    /\ UNCHANGED <<stopped, frames, dropped, cancelled, session, pending, finished, sent,
                   commands, net, events, shown, result>>

\* MicrophoneState::stop
StopMicrophone == stopped' = TRUE /\ Wake

\* MicrophoneStopHandle::stop: the key is released, or the time is up.
Release ==
    /\ ~stopped
    /\ StopMicrophone
    /\ UNCHANGED <<failure, frames, dropped, cancelled, session, pending, finished, sent,
                   commands, net, events, shown, result, faults>>

Cancel ==
    /\ ~cancelled
    /\ cancelled' = TRUE
    /\ UNCHANGED <<mic, frames, dropped, session, pending, finished, sent, commands, net, events,
                   shown, result, faults>>

-----------------------------------------------------------------------------
(***************************************************************************)
(* TranscriptionSession::run.                                              *)
(***************************************************************************)
\* source.stop, which waits for the capture thread, and what run returns then.
StopWith(outcome) ==
    /\ StopMicrophone
    /\ session' = "stop" /\ result' = outcome

Stop ==
    /\ session = "stop" /\ worker = "ended"
    /\ session' = "ended"
    /\ UNCHANGED <<mic, frames, dropped, cancelled, pending, finished, sent, commands, net, events,
                   shown, result, faults>>

Cancelled ==
    /\ session \in {"loop", "send"} /\ cancelled
    /\ StopWith("cancelled")
    /\ UNCHANGED <<failure, frames, dropped, cancelled, pending, finished, sent, commands, net,
                   events, shown, faults>>

\* A partial text never follows the final one.
Shown(event) == IF shown = "final" THEN shown ELSE event

Publish ==
    /\ session = "loop" /\ events # <<>>
    /\ events' = Tail(events)
    /\ shown' = Shown(Head(events))
    /\ UNCHANGED <<mic, frames, dropped, cancelled, session, pending, finished, sent, commands,
                   net, result, faults>>

\* The result of the client, and the events it left.
Answered ==
    /\ session = "loop" /\ client \in {"ok", "failed"}
    /\ StopWith(CASE client = "ok" -> "ok"
                  [] client = "failed" /\ cancelled -> "cancelled"
                  [] OTHER -> "realtime")
    /\ shown' = (IF "final" \in {events[i] : i \in DOMAIN events} THEN "final"
                 ELSE IF events # <<>> THEN Shown("partial") ELSE shown)
    /\ events' = <<>>
    /\ UNCHANGED <<failure, frames, dropped, cancelled, pending, finished, sent, commands, net,
                   faults>>

\* send_command, after which the frame has been given away.
Give(command) ==
    IF Len(commands) < AUDIO_COMMAND_CAPACITY
    THEN /\ commands' = Append(commands, command)
         /\ sent' = (sent \/ command = "audio")
         /\ session' = "loop" /\ UNCHANGED pending
    ELSE session' = "send" /\ pending' = command /\ UNCHANGED <<commands, sent>>

\* next_frame, of a microphone that runs.
Frame ==
    /\ session = "loop" /\ ~finished /\ ~HasSignal
    /\ frames > 0
    /\ frames' = frames - 1
    /\ Give("audio")
    /\ UNCHANGED <<mic, dropped, cancelled, finished, net, events, shown, result, faults>>

\* next_frame, of one that does not: first the capture thread is joined.
Signal ==
    /\ session = "loop" /\ ~finished /\ HasSignal
    /\ session' = "join"
    /\ UNCHANGED <<mic, frames, dropped, cancelled, pending, finished, sent, commands, net, events,
                   shown, result, faults>>

\* A frame that found no room is not noticed.
BrokenFaulty == failure = "stream"

Broken == failure # "none"

Joined ==
    /\ session = "join" /\ worker = "ended"
    /\ IF Broken
       THEN StopWith(failure) /\ UNCHANGED <<frames, pending, finished, sent, commands>>
       ELSE /\ frames' = IF frames > 0 THEN frames - 1 ELSE 0
            /\ finished' = (frames = 0)
            /\ Give(IF frames > 0 THEN "audio" ELSE "finish")
            /\ UNCHANGED <<stopped, worker, result>>
    /\ UNCHANGED <<failure, dropped, cancelled, net, events, shown, faults>>

\* There is room again: only Command makes room, and it is polled by the loop.
Sent ==
    /\ session = "send" /\ Len(commands) < AUDIO_COMMAND_CAPACITY
    /\ Give(pending)
    /\ UNCHANGED <<mic, frames, dropped, cancelled, finished, net, events, shown, result, faults>>

-----------------------------------------------------------------------------
(***************************************************************************)
(* RealtimeTranscriptionClient::run, polled by the loop and nothing else.  *)
(***************************************************************************)
Polled == session = "loop"

\* connect_with_retry
Connect ==
    /\ Polled /\ client = "connecting"
    /\ \/ client' = "running" /\ UNCHANGED <<attempt, faults>>
       \/ cancelled /\ client' = "failed" /\ UNCHANGED <<attempt, faults>>
       \/ /\ Fault
          /\ IF attempt < MAX_CONNECT_ATTEMPTS
             THEN attempt' = attempt + 1 /\ UNCHANGED client
             ELSE client' = "failed" /\ UNCHANGED attempt
    /\ UNCHANGED <<mic, frames, dropped, cancelled, session, pending, finished, sent, commands,
                   turn, deadline, item, events, shown, result>>

\* AppendPcm16 and Finish; a commit goes out before the deadline is set.
Command ==
    /\ Polled /\ client = "running" /\ commands # <<>>
    /\ commands' = Tail(commands)
    /\ IF Head(commands) = "audio"
       THEN /\ client' = "sending" /\ turn' = [turn EXCEPT !.uncommitted = TRUE]
            /\ UNCHANGED <<item, deadline>>
       ELSE IF turn.uncommitted
       THEN /\ client' = "sending"
            /\ turn' = [uncommitted |-> FALSE, pending |-> TRUE, finishing |-> TRUE]
            /\ UNCHANGED <<item, deadline>>
       ELSE /\ client' = "ok" /\ turn' = [turn EXCEPT !.finishing = TRUE]
            /\ UNCHANGED <<item, deadline>>
    /\ UNCHANGED <<mic, frames, dropped, cancelled, session, pending, finished, sent, attempt,
                   events, shown, result, faults>>

\* send_json
Flushed ==
    /\ Polled /\ client = "sending"
    /\ \/ /\ client' = "running" /\ deadline' = turn.pending
          /\ item' = IF turn.pending THEN "committed" ELSE item
          /\ UNCHANGED faults
       \/ Fault /\ client' = "failed" /\ UNCHANGED <<deadline, item>>
    /\ UNCHANGED <<mic, frames, dropped, cancelled, session, pending, finished, sent, commands,
                   attempt, turn, events, shown, result>>

\* No deadline is kept.
ExpiredFaulty == cancelled

Expired == deadline \/ cancelled

\* FINAL_TRANSCRIPT_TIMEOUT, the cancellation, a connection that breaks.
GiveUp ==
    /\ Polled /\ client = "running"
    /\ \/ Expired /\ UNCHANGED faults
       \/ Fault
    /\ client' = "failed"
    /\ UNCHANGED <<mic, frames, dropped, cancelled, session, pending, finished, sent, commands,
                   attempt, turn, deadline, item, events, shown, result>>

\* A text that waits is kept, whichever it is.
PushFaulty(event) == IF events = <<>> THEN <<event>> ELSE events

\* BackendEventState::push, which keeps one event of an item: the final text
\* takes the place of a partial one.
Push(event) == IF events = <<>> \/ event = "final" THEN <<event>> ELSE events

Partial ==
    /\ Polled /\ client = "running" /\ item = "committed"
    /\ events' = Push("partial")
    /\ UNCHANGED <<mic, frames, dropped, cancelled, session, pending, finished, sent, commands,
                   net, shown, result, faults>>

Completed ==
    /\ Polled /\ client = "running" /\ item = "committed"
    /\ item' = "final"
    /\ events' = Push("final")
    /\ turn' = [turn EXCEPT !.pending = FALSE]
    /\ client' = IF turn.finishing THEN "ok" ELSE client
    /\ UNCHANGED <<mic, frames, dropped, cancelled, session, pending, finished, sent, commands,
                   attempt, deadline, shown, result, faults>>

Next ==
    \/ Check \/ Wait \/ Record \/ DeviceFails \/ Release \/ Cancel
    \/ Stop \/ Cancelled \/ Publish \/ Answered \/ Frame \/ Signal \/ Joined \/ Sent
    \/ Connect \/ Command \/ Flushed \/ GiveUp \/ Partial \/ Completed

Spec == Init /\ [][Next]_vars

\* The threads run, the device delivers, the task is polled, every call of the
\* network ends and the timer fires.  Nobody has to cancel.
Fairness ==
    /\ WF_vars(Check) /\ WF_vars(Wait) /\ WF_vars(Record)
    /\ WF_vars(Stop) /\ WF_vars(Cancelled) /\ WF_vars(Answered)
    /\ SF_vars(Publish) /\ SF_vars(Signal) /\ WF_vars(Joined) /\ WF_vars(Sent)
    /\ SF_vars(Connect) /\ SF_vars(Command) /\ SF_vars(Flushed) /\ SF_vars(GiveUp)

FairSpec == Spec /\ Fairness

-----------------------------------------------------------------------------
(***************************************************************************)
(* Properties.                                                             *)
(***************************************************************************)
\* A transcript is returned only when every frame the device delivered was
\* given to the server, and its final text was given to the callback.
TranscriptWhole ==
    session = "ended" /\ result = "ok" =>
        /\ ~dropped /\ frames = 0 /\ commands = <<>> /\ ~turn.uncommitted
        /\ sent => shown = "final"

\* "Captures until the source ends, then commits and waits for transcription."
StoppedEnds == stopped ~> session = "ended"

\* The loop waits for room in the channel, which only the client makes, which
\* only the loop polls.
Stalled == session = "send"

StoppedEndsUnlessStalled == stopped ~> session = "ended" \/ Stalled
=============================================================================
