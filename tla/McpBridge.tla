------------------------------- MODULE McpBridge -------------------------------
(***************************************************************************)
(* The MCP bridge: a client writes frames on standard input, in either of  *)
(* two framings, the bridge answers the requests one at a time, and a tool *)
(* call goes to the daemon, which the bridge first probes with a challenge *)
(* and launches through the app when it does not prove who it is.          *)
(***************************************************************************)
EXTENDS Integers, Sequences, SequencesExt

CONSTANTS
    MAX_LEADING_BLANK_LINES, MAX_HEADER_LINES,      \* read_frame
    DAEMON_STARTUP_TIMEOUT, DAEMON_HEALTH_PROBE_TIMEOUT, DAEMON_HEALTH_POLL_INTERVAL,
    Methods,     \* what the client asks for: a subset of KnownMethods
    MaxFrames,   \* bound: frames of the client
    MaxPadding,  \* bound: blank lines before a frame, headers after its first
    MaxChanges   \* bound: changes of who listens on the daemon's port

\* The health probe is the shorter of the two timeouts, and the pause between two probes is
\* shorter still.
ASSUME BridgeBounds ==
    /\ MAX_LEADING_BLANK_LINES \in Nat /\ MAX_HEADER_LINES \in Nat \ {0}
    /\ DAEMON_HEALTH_POLL_INTERVAL \in Nat \ {0} /\ DAEMON_HEALTH_PROBE_TIMEOUT \in Nat
    /\ DAEMON_STARTUP_TIMEOUT \in Nat
    /\ DAEMON_HEALTH_POLL_INTERVAL <= DAEMON_HEALTH_PROBE_TIMEOUT
    /\ DAEMON_HEALTH_PROBE_TIMEOUT <= DAEMON_STARTUP_TIMEOUT
    /\ MaxFrames \in Nat /\ MaxPadding \in Nat /\ MaxChanges \in Nat

VARIABLES
    sent,        \* the client's frames: [mode, method, asks]; asks: it has an id
    wire,        \* the lines (or bodies) written and not yet read
    closed,      \* the client has closed its end
    pc, mode, counted,     \* read_frame: mode of the frame, blank or header lines so far
    current,     \* the frame being read or handled: its index in sent
    initialized,
    proved,      \* this call: a probe has been verified
    launches,    \* this call: how often the app was opened
    waited,      \* time in this probe, sleep or request
    elapsed,     \* time since the deadline was set
    answers,     \* [of, mode, result] in the order written
    listener,    \* who listens on 127.0.0.1:3334
    changes,
    tokens       \* the frames whose call sent the token, and whether it was proved

reader == <<pc, mode, counted, current>>
gate == <<proved, launches, waited, elapsed>>
client == <<sent, closed>>
world == <<listener, changes>>
vars == <<client, wire, reader, initialized, gate, answers, world, tokens>>

Modes == {"newline", "length"}
KnownMethods == {"garbage", "shapeless", "initialize", "badinit", "ping", "list",
                 "unknown", "badcall", "call"}
ASSUME MethodsKnown == Methods \subseteq KnownMethods
Listeners == {"daemon", "stranger", "silent", "nobody"}
Waiting == {"probe", "poll", "sleep", "ask"}

Init ==
    /\ sent = <<>> /\ wire = <<>> /\ closed = FALSE
    /\ pc = "line" /\ mode = "newline" /\ counted = 0 /\ current = 0
    /\ initialized = FALSE
    /\ proved = FALSE /\ launches = 0 /\ waited = 0 /\ elapsed = 0
    /\ answers = <<>> /\ tokens = <<>>
    /\ listener \in Listeners /\ changes = 0

-----------------------------------------------------------------------------
\* The client writes a whole frame, with blank lines before it and headers
\* after the Content-Length line; an item of the wire names its frame.
Padding(kind, n) == [i \in 1..n |-> [is |-> kind, of |-> 0]]

Write(m, method, asks, blanks, headers) ==
    /\ ~closed /\ Len(sent) < MaxFrames
    /\ m = "newline" => headers = 0
    /\ sent' = Append(sent, [mode |-> m, method |-> method, asks |-> asks])
    /\ LET body == <<[is |-> "text", of |-> Len(sent) + 1]>>
       IN  wire' = wire \o Padding("blank", blanks)
                        \o (IF m = "newline" THEN body
                            ELSE Padding("length", 1) \o Padding("header", headers)
                                 \o Padding("blank", 1) \o body)
    /\ UNCHANGED <<closed, reader, initialized, gate, answers, world, tokens>>

Close ==
    /\ ~closed /\ closed' = TRUE
    /\ UNCHANGED <<sent, wire, reader, initialized, gate, answers, world, tokens>>

\* Another process takes the port, or the daemon starts, stops or hangs.
Change(to) ==
    /\ changes < MaxChanges /\ to # listener
    /\ changes' = changes + 1 /\ listener' = to
    /\ UNCHANGED <<client, wire, reader, initialized, gate, answers, tokens>>

-----------------------------------------------------------------------------
\* read_frame.
ReadLine ==
    /\ pc = "line" /\ wire # <<>>
    /\ wire' = Tail(wire)
    /\ CASE Head(wire).is = "blank" ->
              /\ counted' = counted + 1
              /\ pc' = IF counted' > MAX_LEADING_BLANK_LINES THEN "ended" ELSE "line"
              /\ UNCHANGED <<mode, current>>
         [] Head(wire).is = "length" ->
              /\ pc' = "header" /\ mode' = "length" /\ counted' = 1 /\ UNCHANGED current
         [] OTHER ->
              /\ pc' = "handle" /\ mode' = "newline" /\ counted' = 0
              /\ current' = Head(wire).of
    /\ UNCHANGED <<client, initialized, gate, answers, world, tokens>>

ReadHeader ==
    /\ pc = "header" /\ wire # <<>>
    /\ wire' = Tail(wire)
    /\ counted' = counted + 1
    /\ pc' = IF counted' > MAX_HEADER_LINES \/ Head(wire).is = "length" THEN "ended"
             ELSE IF Head(wire).is = "blank" THEN "body" ELSE "header"
    /\ UNCHANGED <<client, mode, current, initialized, gate, answers, world, tokens>>

ReadBody ==
    /\ pc = "body" /\ wire # <<>>
    /\ wire' = Tail(wire)
    /\ current' = Head(wire).of /\ counted' = 0
    /\ pc' = "handle"
    /\ UNCHANGED <<client, mode, initialized, gate, answers, world, tokens>>

\* The end of the stream: quietly between two frames, an error inside one.
EndOfInput ==
    /\ pc \in {"line", "header", "body"} /\ wire = <<>> /\ closed
    /\ pc' = "ended"
    /\ UNCHANGED <<client, wire, mode, counted, current, initialized, gate, answers,
                   world, tokens>>

-----------------------------------------------------------------------------
\* serve and handle_with_session: the next answer, written and flushed.
AnsweredFaulty(result) ==
    answers' = Append(answers, [of |-> current, mode |-> "newline", result |-> result])
Answered(result) ==
    answers' = Append(answers, [of |-> current, mode |-> mode, result |-> result])

\* An unparsable or shapeless text is answered with a null id, a notification
\* not at all, and every method but two waits for initialize.
ReplyFaulty(frame) ==
    IF frame.method \in {"garbage", "shapeless"} THEN "invalid"
    ELSE IF frame.method \in {"initialize", "ping"} THEN "ok"
    ELSE IF frame.method = "badinit" THEN "params"
    ELSE IF ~initialized THEN "uninitialized"
    ELSE CASE frame.method = "list" -> "ok"
           [] frame.method = "unknown" -> "unknown"
           [] frame.method = "badcall" -> "params"
           [] frame.method = "call" -> "gate"
Reply(frame) ==
    IF frame.method \in {"garbage", "shapeless"} THEN "invalid"
    ELSE IF ~frame.asks THEN "none"
    ELSE IF frame.method \in {"initialize", "ping"} THEN "ok"
    ELSE IF frame.method = "badinit" THEN "params"
    ELSE IF ~initialized THEN "uninitialized"
    ELSE CASE frame.method = "list" -> "ok"
           [] frame.method = "unknown" -> "unknown"
           [] frame.method = "badcall" -> "params"
           [] frame.method = "call" -> "gate"

Handle ==
    /\ pc = "handle"
    /\ LET frame == sent[current] IN
       /\ initialized' = (initialized \/ (frame.asks /\ frame.method = "initialize"))
       /\ CASE Reply(frame) = "none" -> pc' = "line" /\ UNCHANGED answers
            [] Reply(frame) = "gate" -> pc' = "probe" /\ UNCHANGED answers
            [] OTHER -> pc' = "line" /\ Answered(Reply(frame))
    /\ proved' = FALSE /\ launches' = 0 /\ waited' = 0 /\ elapsed' = 0
    /\ UNCHANGED <<client, wire, mode, counted, current, world, tokens>>

\* The client no longer reads: write_frame fails and the session is over.
OutputFails ==
    /\ closed /\ pc = "handle" /\ Reply(sent[current]) # "none"
    /\ pc' = "ended"
    /\ UNCHANGED <<client, wire, mode, counted, current, initialized, gate, answers,
                   world, tokens>>

-----------------------------------------------------------------------------
\* call_tool: ensure_daemon_with, then the request with the token.
HealthyFaulty == listener \in {"daemon", "stranger"}
Healthy == listener = "daemon"      \* health_response_is_valid: the proof needs the token

Limit == IF pc = "probe" THEN DAEMON_HEALTH_PROBE_TIMEOUT
         ELSE LET left == DAEMON_STARTUP_TIMEOUT - elapsed + waited
                  most == IF pc = "poll" THEN DAEMON_HEALTH_PROBE_TIMEOUT
                          ELSE DAEMON_HEALTH_POLL_INTERVAL
              IN  IF left < most THEN left ELSE most

Fail(result) ==
    /\ Answered(result)
    /\ pc' = "line" /\ waited' = 0
    /\ UNCHANGED <<client, wire, mode, counted, current, initialized, proved, launches,
                   elapsed, world, tokens>>

GoOn(where) ==
    /\ pc' = where /\ waited' = 0
    /\ UNCHANGED <<client, wire, mode, counted, current, initialized, elapsed, answers,
                   world, tokens>>

Proven ==
    /\ pc \in {"probe", "poll"} /\ Healthy
    /\ proved' = (listener = "daemon") /\ UNCHANGED launches
    /\ GoOn("ask")

\* No, or no answer in time: the first probe leads to the launch, a later one
\* to a pause.
Refuted ==
    /\ pc \in {"probe", "poll"}
    /\ ~Healthy
    /\ listener = "silent" => waited >= Limit
    /\ UNCHANGED <<proved, launches>>
    /\ GoOn(IF pc = "probe" THEN "launch" ELSE "sleep")

Late == pc \in {"poll", "sleep"} /\ elapsed >= DAEMON_STARTUP_TIMEOUT

Launch ==
    /\ pc = "launch"
    /\ \/ launches' = launches + 1 /\ UNCHANGED proved /\ GoOn("poll")
       \/ Fail("launch")

Repeat ==
    /\ pc = "sleep" /\ waited >= Limit /\ ~Late
    /\ UNCHANGED <<proved, launches>>
    /\ GoOn("poll")

GiveUp == Late /\ Fail("late")

\* The GET carries the token to whoever listens now.
Ask ==
    /\ pc = "ask" /\ waited = 0
    /\ tokens' = Append(tokens, [of |-> current, proved |-> proved])
    /\ pc' = "answer"
    /\ UNCHANGED <<client, wire, mode, counted, current, initialized, gate, answers, world>>

\* A body, another status or too long a body, or the 30 seconds of the client.
AskEnds ==
    /\ pc = "answer"
    /\ \E result \in {"result", "error"} :
          /\ result = "result" => listener = "daemon"
          /\ Fail(result)

DeadlineFaulty == 0
Deadline == 1           \* what a tick adds to the time since the launch

Tick ==
    /\ pc \in {"probe", "poll", "sleep"} /\ waited < Limit
    /\ waited' = waited + 1
    /\ elapsed' = IF pc = "probe" THEN elapsed ELSE elapsed + Deadline
    /\ UNCHANGED <<client, wire, reader, initialized, proved, launches, answers, world,
                   tokens>>

-----------------------------------------------------------------------------
Peer == \/ \E m \in Modes, method \in Methods, asks \in BOOLEAN, b, h \in 0..MaxPadding :
              Write(m, method, asks, b, h)
        \/ Close
        \/ \E to \in Listeners : Change(to)
Serve == \/ ReadLine \/ ReadHeader \/ ReadBody \/ EndOfInput \/ Handle
         \/ Proven \/ Refuted \/ Launch \/ Repeat \/ GiveUp \/ Ask \/ AskEnds
Next == Peer \/ Serve \/ OutputFails \/ Tick

Spec == Init /\ [][Next]_vars
\* The bridge's one task and the clock run; the client, the daemon and the app
\* owe nothing.
Fairness == WF_vars(Serve) /\ WF_vars(Tick)
FairSpec == Spec /\ Fairness

-----------------------------------------------------------------------------
TypeOK ==
    /\ sent \in Seq([mode : Modes, method : Methods, asks : BOOLEAN])
    /\ pc \in Waiting \cup {"line", "header", "body", "handle", "launch", "answer", "ended"}
    /\ current \in 0..Len(sent) /\ initialized \in BOOLEAN
    /\ waited \in 0..DAEMON_STARTUP_TIMEOUT /\ elapsed \in 0..DAEMON_STARTUP_TIMEOUT

\* Whatever the framing, the padding and the state of the daemon, what has
\* been handled is answered once, in the order it was sent and in its own
\* framing, and a notification is not: a client pairs answers by position.
Owed(i) == sent[i].asks \/ sent[i].method \in {"garbage", "shapeless"}
Underway == pc \in Waiting \cup {"handle", "launch", "answer"}
Handled == IF Underway \/ (pc = "ended" /\ closed) THEN 1..(current - 1) ELSE 1..current
AnsweredOnce ==
    LET owed == {i \in Handled : Owed(i)}
        all == {i \in 1..current : Owed(i)}
    IN  /\ owed \subseteq {answers[k].of : k \in DOMAIN answers}
        /\ {answers[k].of : k \in DOMAIN answers} \subseteq all
        /\ \A j, k \in DOMAIN answers : j < k => answers[j].of < answers[k].of
        /\ \A k \in DOMAIN answers : answers[k].mode = sent[answers[k].of].mode

\* The token leaves the bridge only in a call that has seen a proof, and the
\* app is opened at most once per call and never for a call that has one.
TokenGuarded ==
    /\ \A k \in DOMAIN tokens : tokens[k].proved /\ sent[tokens[k].of].method = "call"
    /\ launches <= 1 /\ (pc \in {"launch", "sleep"} => ~proved)

\* Nothing but initialize and ping succeeds before an initialize has.
InitializedFirst ==
    \A k \in DOMAIN answers :
        (answers[k].result \in {"ok", "result", "launch", "late", "error"}
         /\ sent[answers[k].of].method \notin {"initialize", "ping"}) =>
            \E j \in 1..(k - 1) : sent[answers[j].of].method = "initialize"

\* One answer per request, in order; the token goes to a proven daemon; nothing is served
\* before the initialisation.
BridgeSound == TypeOK /\ AnsweredOnce /\ TokenGuarded /\ InitializedFirst

\* However the daemon, the app and the client behave, a tool call is over some
\* time: the bridge never stops reading because of a daemon that hangs.
CallsEnd == Underway ~> (pc \in {"line", "ended"})
=============================================================================
