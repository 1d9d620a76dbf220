---- MODULE MCDesktopParts ----
(* Small instances of parts of the desktop application, of the MCP server and of the macOS
   reader, which share no state with one another, checked side by side: Init chooses one
   part, only that part takes steps, and the others stay in an initial state. The bridge is
   the module's own (EXTENDS); the other parts are instances with their bounds. *)
EXTENDS McpBridge

CONSTANTS
    Submissions, Rewrites, Edits, Failures,  \* submissions of a rewrite, and bounds
    Capacity, DoubleTap, MaxTap, HoldDelay,  \* the monitor of the keys
    Ticks, Strokes, Troubles,                \* bounds of the keys
    w1, open,                                \* a window and its page, where it is not looked at
    Windows, Pages, Elements, Own, Siblings, Alike, Web, Unlabelled, Deep, Slack, WhatsApp,
    HostExcluded, TitleExcluded, Glances,    \* the screen that is read, and a bound
    Disturbances, Mishaps,                   \* bounds of a delivery
    Recordings, Dictations, Interruptions,   \* bounds of a dictation
    Attempts, ToolRounds, Messages, TextPieces, Breaks,  \* bounds of a chat
    Screens, Pointed, Chosen, Transitions, Happenings, Declined  \* of the panel, and its bounds

ASSUME DeliveryBounds == Disturbances \in Nat /\ Mishaps \in Nat
ASSUME RewriteBounds == Rewrites \in Nat /\ Edits \in Nat /\ Failures \in Nat
ASSUME KeysBounds == {Capacity, DoubleTap, MaxTap, HoldDelay, Ticks, Strokes, Troubles} \subseteq Nat
ASSUME DictationBounds == Recordings \in Nat /\ Dictations \in Nat /\ Interruptions \in Nat
ASSUME ChatBounds ==
    /\ Attempts \in Nat \ {0} /\ ToolRounds \in Nat /\ Messages \in Nat
    /\ TextPieces \in Nat /\ Breaks \in Nat
\* A rule about a browser's URL can only exclude what is a document.
ASSUME ReaderBounds == Glances \in Nat /\ HostExcluded \subseteq Web \cup Unlabelled

VARIABLES
    component,
    scope, ways, focusRule, blank, deliveryAt, stage, left, err, deliveryResult, deliveryText,
    keys, deliveryFocus, blocked, clip, rev, own, deliveryHeld, deliveryEvents, deliveryFaults,
    nextId, rewriteActive, cancelled, rewriteText, rewriteFocus, prep, submit, refusing,
    noticed, overtaken, rewriteEvents, rewriteFaults,
    inline, keyDown, clock, tap, granted, keySecure, port, queue, flags, keyAt, press, last,
    refused, out, event, parity, masked, keyChanges, keyFaults,
    holdActive, recs, holdHeld, owner, session, sessions, holdDown, actor, holdEvents,
    sending, chatActive, received, cancelling, responses, requests, chatCurrent, chatEvents,
    chatFaults,
    draft, task, request, slots, answer, textResult,
    front, page, readerFocus, frame, readerSecure, locked, readerChanges, past, returned,
    readerPc, part, target, window, focused, title, urls, urlsAgain, readerText, outcome,
    panelMode, panelOrigin, panelGeneration, panelQueue, panelFlight, panelOwn, panelInside,
    panelArmed, panelHoverOpen, panelClosing, panelDragging, panelListening, panelCalls,
    panelMail, panelFrame, panelMorph, panelMonitor, panelDock, panelDragMode, panelPointer,
    panelTracker, panelStrayed, panelAhead, panelEvents, panelFaults

BridgeMethods == {"garbage", "initialize", "list", "call"}

Components == {"delivery", "rewrite", "keys", "dictation", "chat", "bridge", "text", "reader",
               "panel"}

Delivery == INSTANCE InlineDelivery WITH
    MaxEvents <- Disturbances, MaxFaults <- Mishaps, at <- deliveryAt,
    result <- deliveryResult, text <- deliveryText, focus <- deliveryFocus, held <- deliveryHeld,
    events <- deliveryEvents, faults <- deliveryFaults

Rewrite == INSTANCE InlineRewrite WITH
    Submits <- Submissions, MaxSessions <- Rewrites, MaxEvents <- Edits, MaxFaults <- Failures,
    active <- rewriteActive, text <- rewriteText, focus <- rewriteFocus,
    events <- rewriteEvents, faults <- rewriteFaults

Keys == INSTANCE ModifierMonitor WITH
    MONITOR_QUEUE_CAPACITY <- Capacity, DOUBLE_TAP <- DoubleTap, MAX_TAP <- MaxTap,
    HOLD_DELAY <- HoldDelay, MaxTime <- Ticks, MaxChanges <- Strokes, MaxFaults <- Troubles, down <- keyDown, secure <- keySecure, at <- keyAt,
    changes <- keyChanges, faults <- keyFaults

Hold == INSTANCE Dictation WITH
    MaxRecordings <- Recordings, MaxSessions <- Dictations, MaxEvents <- Interruptions,
    active <- holdActive, held <- holdHeld, down <- holdDown, events <- holdEvents

Talk == INSTANCE Chat WITH
    MAX_ATTEMPTS <- Attempts, MAX_TOOL_ROUNDS <- ToolRounds, MaxRequests <- Messages,
    MaxChunks <- TextPieces, MaxFaults <- Breaks,
    active <- chatActive, current <- chatCurrent, events <- chatEvents, faults <- chatFaults

Text == INSTANCE Redaction WITH
    DraftItems <- {"words", "key", "token", "quote", "label", "dummy", "end"},
    AnswerItems <- {"token", "label", "unavailable", "stray"}, MaxDraft <- 3, MaxAnswer <- 3,
    result <- textResult

Reader == INSTANCE CaptureReader WITH
    MaxChanges <- Glances, focus <- readerFocus, secure <- readerSecure,
    changes <- readerChanges, pc <- readerPc, text <- readerText

\* The least screen on which each dock of the panel is nearest to itself.
ASSUME PanelBounds ==
    /\ \A s \in Screens : s.x \in Int /\ s.y \in Int /\ s.w \in Nat /\ s.h \in Nat
                         /\ s.w >= 885 /\ s.h >= 590
    /\ \A p \in Pointed : p.monitor \in Screens
    /\ Chosen \subseteq {"top", "left", "right", "bottom", "bottomLeft", "bottomRight"}
    /\ Transitions \in Nat /\ Happenings \in Nat /\ Declined \in Nat

\* Two screens, one of them to the left of the other and of odd width.
Screen == [x |-> 0, y |-> 0, w |-> 1440, h |-> 900]
Portrait == [x |-> -1081, y |-> -300, w |-> 1081, h |-> 1920]
TwoScreens == {Screen, Portrait}
TwoPoints == {[monitor |-> Screen, x |-> 400, y |-> 880],
              [monitor |-> Portrait, x |-> -1000, y |-> 600]}

Panel == INSTANCE CompanionPanel WITH
    Monitors <- Screens, Points <- Pointed, Settings <- Chosen,
    MaxRequests <- Transitions, MaxEvents <- Happenings, MaxFaults <- Declined,
    mode <- panelMode, origin <- panelOrigin, generation <- panelGeneration, queue <-
    panelQueue, flight <- panelFlight, own <- panelOwn, inside <- panelInside, armed <-
    panelArmed, hoverOpen <- panelHoverOpen, closing <- panelClosing, dragging <- panelDragging,
    listening <- panelListening, calls <- panelCalls, mail <- panelMail, frame <- panelFrame,
    morph <- panelMorph, monitor <- panelMonitor, dock <- panelDock, dragMode <- panelDragMode,
    pointer <- panelPointer, tracker <- panelTracker, strayed <- panelStrayed, ahead <-
    panelAhead, events <- panelEvents, faults <- panelFaults

deliveryVars == <<scope, ways, focusRule, blank, deliveryAt, stage, left, err, deliveryResult,
                  deliveryText, keys, deliveryFocus, blocked, clip, rev, own, deliveryHeld, deliveryEvents,
                  deliveryFaults>>
rewriteVars == <<nextId, rewriteActive, cancelled, rewriteText, rewriteFocus, prep, submit,
                 refusing, noticed, overtaken, rewriteEvents, rewriteFaults>>
keyVars == <<inline, keyDown, clock, tap, granted, keySecure, port, queue, flags, keyAt, press,
             last, refused, out, event, parity, masked, keyChanges, keyFaults>>
holdVars == <<holdActive, recs, holdHeld, owner, session, sessions, holdDown, actor,
              holdEvents>>
chatVars == <<sending, chatActive, received, cancelling, responses, requests, chatCurrent,
              chatEvents, chatFaults>>
textVars == <<draft, task, request, slots, answer, textResult>>
readerVars == <<front, page, readerFocus, frame, readerSecure, locked, readerChanges, past,
                returned, readerPc, part, target, window, focused, title, urls, urlsAgain, readerText,
                outcome>>
panelVars == <<panelMode, panelOrigin, panelGeneration, panelQueue, panelFlight, panelOwn,
              panelInside, panelArmed, panelHoverOpen, panelClosing, panelDragging,
              panelListening, panelCalls, panelMail, panelFrame, panelMorph, panelMonitor,
              panelDock, panelDragMode, panelPointer, panelTracker, panelStrayed, panelAhead,
              panelEvents, panelFaults>>
allvars == <<component, deliveryVars, rewriteVars, keyVars, holdVars, chatVars, vars,
             textVars, readerVars, panelVars>>

\* A part that is not looked at starts in one of its initial states.
PartsInit ==
    /\ component \in Components
    /\ Delivery!Init
    /\ component # "delivery" => /\ scope = "Selection" /\ ways = {} /\ focusRule = "target"
                                 /\ blank = FALSE /\ deliveryFocus = "target"
    /\ Rewrite!Init /\ (component # "rewrite" => rewriteText = Rewrite!Empty)
    /\ Keys!Init /\ (component # "keys" => inline = "inline")
    /\ Hold!Init
    /\ Talk!Init
    /\ Init
    /\ component # "bridge" => listener = "daemon"
    /\ Text!Init /\ (component # "text" => draft = <<>> /\ task = "reply")
    /\ Reader!Init
    /\ component # "reader" => /\ front = w1 /\ page = [w \in Windows |-> open] /\ frame = open
                               /\ readerFocus = [w \in Windows |-> Reader!None]
    /\ Panel!Init
    /\ component # "panel" => panelMonitor = (CHOOSE s \in Screens : TRUE) /\ panelPointer = "out"

Step ==
    /\ UNCHANGED component
    /\ IF component = "delivery" THEN Delivery!Next ELSE UNCHANGED deliveryVars
    /\ IF component = "rewrite" THEN Rewrite!Next ELSE UNCHANGED rewriteVars
    /\ IF component = "keys" THEN Keys!Next ELSE UNCHANGED keyVars
    /\ IF component = "dictation" THEN Hold!Next ELSE UNCHANGED holdVars
    /\ IF component = "chat" THEN Talk!Next ELSE UNCHANGED chatVars
    /\ IF component = "bridge" THEN Next ELSE UNCHANGED vars
    /\ IF component = "text" THEN Text!Next ELSE UNCHANGED textVars
    /\ IF component = "reader" THEN Reader!Next ELSE UNCHANGED readerVars
    /\ IF component = "panel" THEN Panel!Next ELSE UNCHANGED panelVars

PartsSpec == PartsInit /\ [][Step]_allvars

\* The clipboard holds the user's content again when a delivery is over, the answer is
\* inserted at most once, and a failure reported as certain left the text untouched or done.
DeliverySound ==
    component = "delivery" =>
        Delivery!TypeOK /\ Delivery!ClipboardKept /\ Delivery!InsertedOnce /\ Delivery!FailureKnown

\* A rewrite changes only the text it was asked for, the progress marker is removed or
\* reported, but for one that a held key could not take out when it ended the session, and a
\* session waits for an answer only while a request is under way.
RewriteSound ==
    /\ [](component = "rewrite" =>
            Rewrite!TypeOK /\ Rewrite!MarkerAccounted /\ Rewrite!InFlightHasRequest)
    /\ Rewrite!EditKept

\* The monitor's events are those of a key pressed and released in turn, and a hold that is
\* reported is of a key that is down, twin keys left aside.
KeysSound ==
    /\ Keys!HoldsPaired
    /\ [](component = "keys" => Keys!TypeOK /\ Keys!HeldKeyIsDownUnlessTwin)

\* Every recording ends once, its text goes to the session that asked for it, and no session
\* and no microphone outlives the work it was opened for.
DictationSound ==
    component = "dictation" =>
        /\ Hold!TypeOK /\ Hold!OneEnding /\ Hold!TextGoesHome
        /\ Hold!HoldIsHeardInline /\ Hold!SessionsEnd /\ Hold!MicrophoneOff

\* A finished answer is the whole answer to the request it belongs to, and one request lives
\* at a time.
ChatSound == component = "chat" => Talk!TypeOK /\ Talk!AnswerWhole /\ Talk!OneLive

\* No private value leaves in a prompt, and an accepted answer holds the private values of
\* the draft where their markers were, values nested in one another left aside.
TextSound ==
    component = "text" =>
        Text!TypeOK /\ Text!PromptClean /\ Text!ValuesKept /\ Text!RestoredUnlessNested

\* Nothing of an excluded page and nothing of a window other than the target is kept.
ReaderSound ==
    component = "reader" => Reader!TypeOK /\ Reader!ExcludedStaysOut /\ Reader!OnlyTheTarget

\* The companion panel comes to rest in the mode its window shows and at its dock, the window
\* knows where the pointer is, and a panel let go at its dock stays there.
PanelSound ==
    component = "panel" =>
        Panel!TypeOK /\ Panel!FrameFollowsMode /\ Panel!PointerKnown /\ Panel!DocksStable
====
