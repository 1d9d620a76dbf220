--------------------------------- MODULE Chat ---------------------------------
(***************************************************************************)
(* A chat: the window that shows it, chat_send with its stream of text and *)
(* its rounds of tools, and the token by which one request cancels the one *)
(* before it.  What the window hears names no request: the text of an      *)
(* answer is appended to the response that is active when it arrives.      *)
(***************************************************************************)
EXTENDS Naturals, Sequences, SequencesExt

CONSTANTS
    MAX_ATTEMPTS,    \* ChatClient::max_attempts
    MAX_TOOL_ROUNDS,
    MaxRequests,     \* bound: messages that are sent
    MaxChunks,       \* bound: pieces of text in one round
    MaxFaults        \* bound: streams that break

VARIABLES
    sending, active, \* Companion.svelte: sending, activeResponseId or 0
    received,        \* Companion.svelte: receivedStreamingDelta
    cancelling,      \* Companion.svelte: where cancelChat is
    responses,       \* the messages of the assistant
    requests,        \* the calls of chat_send
    current,         \* UiState: chat_cancellation, or 0
    events,          \* what the window has yet to hear, in order
    faults

vars == <<sending, active, received, cancelling, responses, requests, current, events, faults>>
window == <<sending, active, received, cancelling, responses>>

Stages == {"sent", "context", "open", "stream", "tools", "save", "answered"}
Chunk == (1..MaxRequests) \X (1..((MAX_TOOL_ROUNDS + 1) * MaxChunks))

\* base: the pieces of the earlier rounds; chunks: those of this one.
Request == [at |-> "sent", token |-> FALSE, attempt |-> 1, round |-> 0,
            base |-> 0, chunks |-> 0, emitted |-> FALSE]

\* answered: the answer came; stopped: the user gave it up; crossed: an event
\* of another request met it.
Response == [shown |-> <<>>, typing |-> FALSE, answered |-> FALSE, stopped |-> FALSE,
             crossed |-> FALSE]

TypeOK ==
    /\ sending \in BOOLEAN /\ received \in BOOLEAN
    /\ active \in 0..Len(responses) /\ current \in 0..Len(requests)
    /\ cancelling \in {"no", "asked", "done"}
    /\ Len(requests) = Len(responses) /\ Len(requests) <= MaxRequests
    /\ \A i \in DOMAIN requests :
          /\ requests[i] \in [at : Stages, token : BOOLEAN, attempt : 1..MAX_ATTEMPTS,
                              round : 0..MAX_TOOL_ROUNDS, base : Nat, chunks : 0..MaxChunks,
                              emitted : BOOLEAN]
          /\ responses[i] \in [shown : Seq(Chunk), typing : BOOLEAN, answered : BOOLEAN,
                               stopped : BOOLEAN, crossed : BOOLEAN]
    /\ \A k \in DOMAIN events :
          events[k] \in [kind : {"delta", "ok", "error"}, of : DOMAIN requests,
                         piece : Nat]
    /\ faults \in 0..MaxFaults

Init ==
    /\ sending = FALSE /\ active = 0 /\ received = FALSE /\ cancelling = "no"
    /\ responses = <<>> /\ requests = <<>> /\ current = 0 /\ events = <<>> /\ faults = 0

-----------------------------------------------------------------------------
(***************************************************************************)
(* The window.                                                             *)
(***************************************************************************)
\* send
Send ==
    /\ ~sending /\ Len(requests) < MaxRequests
    /\ requests' = Append(requests, Request)
    /\ responses' = Append(responses, Response)
    /\ sending' = TRUE /\ active' = Len(requests) + 1 /\ received' = FALSE
    /\ UNCHANGED <<cancelling, current, events, faults>>

\* cancelChat, up to its await
Cancel ==
    /\ sending /\ cancelling = "no"
    /\ cancelling' = "asked"
    /\ UNCHANGED <<sending, active, received, responses, requests, current, events, faults>>

Stopped(i) == IF i = 0 THEN responses ELSE [responses EXCEPT ![i].stopped = TRUE]

\* cancelChat, after it
Cancelled ==
    /\ cancelling = "done"
    /\ cancelling' = "no"
    /\ responses' = Stopped(active)
    /\ sending' = FALSE /\ active' = 0
    /\ UNCHANGED <<received, requests, current, events, faults>>

\* newChat cancels nothing; the messages it removes take no text any more.
NewChat ==
    /\ Len(requests) \in 1..(MaxRequests - 1)
    /\ responses' = [i \in DOMAIN responses |-> [responses[i] EXCEPT !.stopped = TRUE]]
    /\ sending' = FALSE /\ active' = 0
    /\ UNCHANGED <<received, cancelling, requests, current, events, faults>>

Crossed(rs, of) ==
    IF active \in {0, of} THEN rs ELSE [rs EXCEPT ![active].crossed = TRUE]

\* The end of send, its finally.
Finally(i, rs) ==
    /\ responses' = Crossed(rs, i)
    /\ sending' = FALSE /\ active' = 0

\* An event of the backend: woof:chat-delta, or the answer of chat_send. An
\* answer of which no piece was seen is typed out from the result, which holds
\* the text of the last round.
Hear ==
    /\ events # <<>> /\ events' = Tail(events)
    /\ LET e == Head(events) IN
       CASE e.kind = "delta" ->
              /\ IF active = 0 THEN UNCHANGED <<received, responses>>
                 ELSE /\ received' = TRUE
                      /\ responses' = Crossed([responses EXCEPT ![active].shown =
                                          Append(@, <<e.of, e.piece>>)], e.of)
              /\ UNCHANGED <<sending, active>>
         [] e.kind = "ok" /\ received ->
              /\ Finally(e.of, [responses EXCEPT ![e.of].answered = TRUE])
              /\ UNCHANGED received
         [] e.kind = "ok" /\ ~received ->
              /\ responses' = [responses EXCEPT ![e.of].typing = TRUE, ![e.of].shown = @ \o
                     [k \in 1..requests[e.of].chunks |-> <<e.of, requests[e.of].base + k>>]]
              /\ UNCHANGED <<sending, active, received>>
         [] e.kind = "error" ->
              /\ Finally(e.of, IF active = e.of THEN Stopped(e.of) ELSE responses)
              /\ UNCHANGED received
    /\ UNCHANGED <<cancelling, requests, current, faults>>

\* The typing of response i ends.
Typed(i) ==
    /\ responses[i].typing
    /\ Finally(i, [responses EXCEPT ![i].typing = FALSE, ![i].answered = TRUE])
    /\ UNCHANGED <<received, cancelling, requests, current, events, faults>>

-----------------------------------------------------------------------------
(***************************************************************************)
(* The commands.                                                           *)
(***************************************************************************)
Tell(e) == events' = Append(events, e)
Event(kind, i, piece) == [kind |-> kind, of |-> i, piece |-> piece]
CancelToken(rs, i) == IF i = 0 THEN rs ELSE [rs EXCEPT ![i].token = TRUE]

\* chat_cancel
ChatCancel ==
    /\ cancelling = "asked"
    /\ cancelling' = "done"
    /\ requests' = CancelToken(requests, current)
    /\ current' = 0
    /\ UNCHANGED <<sending, active, received, responses, events, faults>>

At(i, stage) == requests[i].at = stage
Goto(i, stage) == requests' = [requests EXCEPT ![i].at = stage]

Fail(i) ==
    /\ Goto(i, "answered")
    /\ Tell(Event("error", i, 0))

\* The previous request goes on.
RegisterFaulty(i) ==
    /\ At(i, "sent")
    /\ current' = i
    /\ Goto(i, "context")
    /\ UNCHANGED <<window, events, faults>>

\* chat_send up to its token; without a key it fails before that.
Register(i) ==
    /\ At(i, "sent")
    /\ \/ /\ current' = i
          /\ requests' = [CancelToken(requests, current) EXCEPT ![i].at = "context"]
          /\ UNCHANGED <<events, faults>>
       \/ faults < MaxFaults /\ faults' = faults + 1 /\ Fail(i) /\ UNCHANGED current
    /\ UNCHANGED window

\* selected_snapshot_context, and record_chat_turn of the user's message, which
\* nothing cancels.
Context(i) ==
    /\ At(i, "context")
    /\ IF requests[i].token THEN Fail(i)
       ELSE Goto(i, "open") /\ UNCHANGED events
    /\ UNCHANGED <<window, current, faults>>

\* stream_chat opens the stream of an attempt.
Open(i) ==
    /\ At(i, "open")
    /\ IF requests[i].token THEN Fail(i)
       ELSE requests' = [requests EXCEPT ![i].at = "stream", ![i].chunks = 0,
                                         ![i].emitted = FALSE] /\ UNCHANGED events
    /\ UNCHANGED <<window, current, faults>>

\* CompletionAssembly::apply: a piece of text; a batch that has arrived is passed
\* on whole, cancelled or not.
Delta(i) ==
    /\ At(i, "stream") /\ requests[i].chunks < MaxChunks
    /\ requests' = [requests EXCEPT ![i].chunks = @ + 1, ![i].emitted = TRUE]
    /\ Tell(Event("delta", i, requests[i].base + requests[i].chunks + 1))
    /\ UNCHANGED <<window, current, faults>>

Retry(i) == [requests EXCEPT ![i].at = "open", ![i].attempt = @ + 1]

\* The text that was passed on comes once more.
BrokenFaulty(i) ==
    /\ At(i, "stream") /\ faults < MaxFaults /\ faults' = faults + 1
    /\ IF requests[i].attempt < MAX_ATTEMPTS THEN requests' = Retry(i) /\ UNCHANGED events
       ELSE Fail(i)
    /\ UNCHANGED <<window, current>>

\* The stream breaks, ends early or cannot be opened: retried while none of its
\* text was passed on.
Broken(i) ==
    /\ At(i, "stream") /\ faults < MaxFaults /\ faults' = faults + 1
    /\ IF requests[i].attempt < MAX_ATTEMPTS /\ ~requests[i].emitted
       THEN requests' = Retry(i) /\ UNCHANGED events
       ELSE Fail(i)
    /\ UNCHANGED <<window, current>>

Interrupted(i) ==
    /\ At(i, "stream") /\ requests[i].token
    /\ Fail(i)
    /\ UNCHANGED <<window, current, faults>>

\* [DONE], with calls of tools or without.
Completed(i) ==
    /\ At(i, "stream")
    /\ \/ Goto(i, "save") /\ UNCHANGED events
       \/ IF requests[i].round = MAX_TOOL_ROUNDS THEN Fail(i)
          ELSE Goto(i, "tools") /\ UNCHANGED events
    /\ UNCHANGED <<window, current, faults>>

\* The rounds are not counted.
ToolsFaulty(i) ==
    /\ At(i, "tools")
    /\ IF requests[i].token THEN Fail(i)
       ELSE requests' = [requests EXCEPT ![i].at = "open"] /\ UNCHANGED events
    /\ UNCHANGED <<window, current, faults>>

\* execute_chat_tool_with for each call; a failure is a result like any other.
Tools(i) ==
    /\ At(i, "tools")
    /\ IF requests[i].token THEN Fail(i)
       ELSE requests' = [requests EXCEPT ![i].at = "open", ![i].attempt = 1, ![i].round = @ + 1,
                             ![i].base = @ + requests[i].chunks] /\ UNCHANGED events
    /\ UNCHANGED <<window, current, faults>>

\* record_chat_turn of the answer, and the answer.
Save(i) ==
    /\ At(i, "save")
    /\ Goto(i, "answered")
    /\ Tell(Event("ok", i, 0))
    /\ UNCHANGED <<window, current, faults>>

Step(i) ==
    \/ Register(i) \/ Context(i) \/ Open(i) \/ Delta(i)
    \/ Interrupted(i) \/ Completed(i) \/ Tools(i) \/ Save(i)

StepOf(i) == i \in DOMAIN requests /\ Step(i)
BreakOf(i) == i \in DOMAIN requests /\ Broken(i)
TypedOf(i) == i \in DOMAIN responses /\ Typed(i)

Next ==
    \/ Send \/ Cancel \/ Cancelled \/ NewChat \/ Hear \/ ChatCancel
    \/ \E i \in 1..MaxRequests : StepOf(i) \/ BreakOf(i) \/ TypedOf(i)

Spec == Init /\ [][Next]_vars

\* Commands and the window go on; a stream has its timeout.
Fairness ==
    /\ WF_vars(Hear) /\ WF_vars(ChatCancel) /\ WF_vars(Cancelled)
    /\ \A i \in 1..MaxRequests : WF_vars(StepOf(i)) /\ WF_vars(TypedOf(i))

FairSpec == Spec /\ Fairness

-----------------------------------------------------------------------------
(***************************************************************************)
(* Properties.                                                             *)
(***************************************************************************)
\* An answer shows every piece of its own text once and in order, over its
\* attempts and rounds, unless the user gave it up or an event of an older
\* request, which had not ended yet, met it.
AnswerWhole ==
    \A i \in DOMAIN responses :
        LET r == responses[i] IN
        r.answered /\ ~r.stopped /\ ~r.crossed =>
            r.shown = [k \in 1..(requests[i].base + requests[i].chunks) |-> <<i, k>>]

\* chat_send replaces and cancels the request before it under one lock: what can
\* still be cancelled is at most one request.
OneLive ==
    \A i \in DOMAIN requests :
        requests[i].at \notin {"sent", "answered"} /\ ~requests[i].token => current = i

\* Every message gets an answer or an error, however often tools are asked for.
RequestsEnd ==
    \A i \in 1..MaxRequests : (i \in DOMAIN requests) ~> (i \in DOMAIN requests /\ At(i, "answered"))
=============================================================================
