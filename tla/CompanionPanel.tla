---- MODULE CompanionPanel ----
(* The companion panel: the window that shows it (Companion.svelte) and the application that
   sizes, docks and moves it (companion_panel.rs and its commands).

   The window changes its mode at once and asks the application afterwards, one request at
   a time; the application tells it of every change, its own requests included. The
   commands of the window are served in order by the main thread, each in one step; so are
   the openings from outside (tray, shortcut, reminder, link). A frame is in whole points,
   and an animated change passes through sizes between the old frame and the new. No caller
   asks for the state "hidden", which is left out. *)
EXTENDS Integers, Sequences

CONSTANTS
    Monitors,     \* [x, y, w, h] of each screen
    Points,       \* where a drag may take the pointer: [monitor, x, y]
    Settings,     \* the docks the user may choose in the settings
    MaxRequests,  \* bound on the requests of the window
    MaxEvents,    \* bound on what users, other windows and the system do
    MaxFaults     \* bound on commands that fail

VARIABLES
    mode, origin,     \* activeMode and openOrigin
    generation,       \* transitionGeneration
    queue, flight,    \* nativeTransitionQueue: the requests that wait, and the one under way
    own,              \* frontendNativeRequests
    inside, armed,    \* pointerInside and hoverArmed
    hoverOpen,        \* hoverOpenEnabled
    closing,          \* calls of collapse that wait for the end of a dictation
    dragging, listening,
    calls,            \* commands of the window that the main thread has not served
    mail,             \* events that the window has not handled
    frame, morph,     \* the panel's frame and, during an animation, the one before it
    monitor, dock,    \* where it is, and companion_position of the preferences
    dragMode,         \* DRAG_MODE
    pointer, tracker, \* where the pointer is, and what HoverTrackingOwner last published
    strayed, ahead,   \* what the properties except
    events, faults

windowVars == <<mode, origin, generation, queue, flight, own, inside, armed, hoverOpen,
                closing, dragging, listening>>
panelVars == <<frame, morph, monitor, dock, dragMode>>
pointerVars == <<pointer, tracker, ahead>>
vars == <<windowVars, calls, mail, panelVars, pointerVars, strayed, events, faults>>

Docks == {"top", "left", "right", "bottom", "bottomLeft", "bottomRight"}
Modes == {"collapsed", "expanded"}
None == "none"
NoFlight == [id |-> 0]
NoFrame == [w |-> 0]

-----------------------------------------------------------------------------
(* Geometry *)

\* PanelMode::logical_size
Extent(m, d) ==
    IF m = "expanded" THEN [w |-> 588, h |-> 440]
    ELSE [w |-> IF d \in {"top", "bottom"} THEN 260 ELSE 32,
          h |-> IF d \in {"left", "right"} THEN 260 ELSE 32]

FrameAt(screen, m, d) ==
    LET e == Extent(m, d)
    IN  [x |-> screen.x + (CASE d \in {"left", "bottomLeft"} -> 0
                             [] d \in {"right", "bottomRight"} -> screen.w - e.w
                             [] OTHER -> (screen.w - e.w) \div 2),
         y |-> screen.y + (CASE d = "top" -> 0
                             [] d \in {"left", "right"} -> (screen.h - e.h) \div 2
                             [] OTHER -> screen.h - e.h),
         w |-> e.w, h |-> e.h]

DragFrameAt(p) == [x |-> p.x - 75, y |-> p.y - 17, w |-> 150, h |-> 34]

Distance(a, b) == IF a < b THEN b - a ELSE a - b
Least(S) == CHOOSE n \in S : \A k \in S : n <= k

Nearest(screen, f) ==
    LET x == f.x + f.w \div 2
        y == f.y + f.h \div 2
        left == Distance(x, screen.x)
        right == Distance(x, screen.x + screen.w)
        top == Distance(y, screen.y)
        bottom == Distance(y, screen.y + screen.h)
        third == screen.w \div 3
    IN  CASE top <= Least({left, right, bottom}) -> "top"
          [] top > Least({left, right, bottom}) /\ bottom <= Least({left, right}) ->
               IF x - screen.x < third THEN "bottomLeft"
               ELSE IF x - screen.x > screen.w - third THEN "bottomRight" ELSE "bottom"
          [] OTHER -> IF left <= right THEN "left" ELSE "right"

ModeOf(f) == IF f.w > 262 \/ f.h > 262 THEN "expanded" ELSE "collapsed"

\* Between two frames an animation has any size between theirs.
Seen == {frame} \cup (IF morph = NoFrame THEN {} ELSE {morph})
CurrentModes == {ModeOf(f) : f \in Seen}

\* set_mode_timed_at
SetMode(m, d, animated) ==
    /\ frame' = FrameAt(monitor, m, d)
    /\ morph' = IF animated THEN frame ELSE NoFrame
    /\ UNCHANGED monitor

AnimationEnds ==
    /\ morph # NoFrame
    /\ morph' = NoFrame
    /\ UNCHANGED <<windowVars, calls, mail, frame, monitor, dock, dragMode, pointerVars,
                   strayed, events, faults>>

-----------------------------------------------------------------------------
Init ==
    /\ mode = "collapsed" /\ origin = None
    /\ generation = 0 /\ queue = <<>> /\ flight = NoFlight /\ own = {}
    /\ inside = FALSE /\ armed = TRUE /\ hoverOpen = FALSE
    /\ closing = {} /\ dragging = FALSE /\ listening = FALSE
    /\ calls = <<>> /\ mail = <<>>
    /\ monitor \in Monitors /\ dock = "top"
    /\ frame = FrameAt(monitor, "collapsed", "top") /\ morph = NoFrame
    /\ dragMode = None
    /\ pointer \in {"in", "out"} /\ tracker = None
    /\ strayed = FALSE /\ ahead = FALSE
    /\ events = 0 /\ faults = 0

Happens == events < MaxEvents /\ events' = events + 1

\* Users reach the window, and other parts ask it to open, once it is mounted.
Used == listening /\ Happens
Fails == faults < MaxFaults /\ faults' = faults + 1

\* An event for a window that does not listen yet is lost.
Emit(e) == mail' = IF listening THEN Append(mail, e) ELSE mail

\* The window takes an event for somebody else's.
Foreign(e) == e.kind = "state" /\ e.id \notin own
ForeignWaits == \E i \in DOMAIN mail : Foreign(mail[i])

-----------------------------------------------------------------------------
(* The window asks for a change: openPassive, openFocused and collapse. `sure` tells that  *)
(* the mode it would go back to is the panel's.                                           *)
Ask(cmd, m, o, a) ==
    /\ generation < MaxRequests
    /\ generation' = generation + 1
    /\ queue' = Append(queue, [id |-> generation + 1, cmd |-> cmd, mode |-> mode,
                               origin |-> origin, armed |-> armed,
                               sure |-> queue = <<>> /\ flight = NoFlight /\ ~ForeignWaits])
    /\ mode' = m /\ origin' = o /\ armed' = a

OpenPassive == Ask("expand", "expanded", "hover", armed)
HoverOpens(in, enabled, drag) == in /\ armed /\ enabled /\ mode = "collapsed" /\ ~drag

\* Whether focus, settings, a chat request or a dictation keep it open is left open.
CanAutoCollapse == mode = "expanded" /\ origin = "hover" /\ ~inside

Click ==
    /\ Used /\ ~dragging
    /\ mode = "collapsed" /\ OpenPassive
    /\ UNCHANGED <<flight, own, inside, hoverOpen, closing, dragging, listening, calls, mail,
                   panelVars, pointerVars, strayed, faults>>

\* A key on the collapsed panel, or an event that asks for the chat or the settings.
OpenFocused ==
    /\ Used
    /\ Ask("focus", "expanded", "focused", armed)
    /\ UNCHANGED <<flight, own, inside, hoverOpen, closing, dragging, listening, calls, mail,
                   panelVars, pointerVars, strayed, faults>>

\* companion_chat_get_hover_open is answered.
LoadHover ==
    /\ ~hoverOpen
    /\ hoverOpen' = TRUE
    /\ IF HoverOpens(inside, TRUE, dragging)
       THEN OpenPassive
       ELSE UNCHANGED <<mode, origin, generation, queue, armed>>
    /\ UNCHANGED <<flight, own, inside, closing, dragging, listening, calls, mail, panelVars,
                   pointerVars, strayed, events, faults>>

\* Escape, or the timer that hoverCloseDelay set: collapse waits for a dictation to end.
BeginCollapse(how) ==
    /\ how \notin closing
    /\ IF how = "auto" THEN CanAutoCollapse /\ UNCHANGED events ELSE Used
    /\ closing' = closing \cup {how}
    /\ UNCHANGED <<mode, origin, generation, queue, flight, own, inside, armed, hoverOpen,
                   dragging, listening, calls, mail, panelVars, pointerVars, strayed,
                   faults>>

Collapse(how) ==
    /\ how \in closing
    /\ closing' = closing \ {how}
    /\ IF mode = "expanded" /\ (how = "auto" => CanAutoCollapse)
       THEN Ask("collapse", "collapsed", None, IF how = "auto" THEN armed ELSE ~inside)
       ELSE UNCHANGED <<mode, origin, generation, queue, armed>>
    /\ UNCHANGED <<flight, own, inside, hoverOpen, dragging, listening, calls, mail, panelVars,
                   pointerVars, strayed, events, faults>>

\* A key or a pressed button turns a panel opened by hovering into one that stays.
Promote ==
    /\ Used /\ mode = "expanded" /\ origin = "hover"
    /\ origin' = "focused"
    /\ UNCHANGED <<mode, generation, queue, flight, own, inside, armed, hoverOpen, closing,
                   dragging, listening, calls, mail, panelVars, pointerVars, strayed, faults>>

-----------------------------------------------------------------------------
(* enqueueNativeTransition *)

\* A request that was overtaken is sent all the same.
DequeueFaulty ==
    /\ queue # <<>> /\ flight = NoFlight
    /\ queue' = Tail(queue)
    /\ own' = own \cup {Head(queue).id}
    /\ flight' = [id |-> Head(queue).id, op |-> Head(queue), sent |-> generation,
                  answer |-> None]
    /\ calls' = Append(calls, [cmd |-> Head(queue).cmd])
    /\ UNCHANGED <<mode, origin, generation, inside, armed, hoverOpen, closing, dragging,
                   listening, mail, panelVars, pointerVars, strayed, events, faults>>

Dequeue ==
    /\ queue # <<>> /\ flight = NoFlight
    /\ queue' = Tail(queue)
    /\ IF Head(queue).id = generation
       THEN /\ own' = own \cup {Head(queue).id}
            /\ flight' = [id |-> Head(queue).id, op |-> Head(queue), sent |-> generation,
                          answer |-> None]
            /\ calls' = Append(calls, [cmd |-> Head(queue).cmd])
       ELSE UNCHANGED <<own, flight, calls>>
    /\ UNCHANGED <<mode, origin, generation, inside, armed, hoverOpen, closing, dragging,
                   listening, mail, panelVars, pointerVars, strayed, events, faults>>

\* An answer to a request that was overtaken changes nothing but the queue.
Answered ==
    /\ flight # NoFlight /\ flight.answer # None
    /\ flight' = NoFlight
    /\ own' = IF flight.answer = "error" THEN own \ {flight.id} ELSE own
    /\ IF flight.id = generation /\ flight.answer = "error"
       THEN /\ mode' = flight.op.mode /\ origin' = flight.op.origin
            /\ armed' = IF flight.op.cmd = "collapse" THEN flight.op.armed ELSE armed
       ELSE UNCHANGED <<mode, origin, armed>>
    /\ UNCHANGED <<generation, queue, inside, hoverOpen, closing, dragging, listening, calls,
                   mail, panelVars, pointerVars, strayed, events, faults>>

-----------------------------------------------------------------------------
(* The application serves a command of the window.                                        *)
Served(cmd) == calls # <<>> /\ Head(calls).cmd = cmd /\ calls' = Tail(calls)
Answer(a) == flight' = [flight EXCEPT !.answer = a]

Crossed == flight.sent # generation \/ ForeignWaits \/ dragMode # None

\* companion_chat_set_state, companion_chat_open_focused and companion_chat_rollup: done;
\* nothing done; or the panel moved and the rest failed.
ServeTransition ==
    \E cmd \in {"expand", "focus", "collapse"} :
        /\ Served(cmd)
        /\ LET m == IF cmd = "collapse" THEN "collapsed" ELSE "expanded"
               told == [kind |-> "state", mode |-> m, id |-> flight.id]
           IN  \/ /\ SetMode(m, dock, TRUE) /\ Emit(told) /\ Answer("ok")
                  /\ strayed' = Crossed
                  /\ UNCHANGED faults
               \/ /\ Fails /\ Answer("error")
                  /\ strayed' = (strayed \/ ~flight.op.sure)
                  /\ UNCHANGED <<mail, frame, morph, monitor>>
               \/ /\ Fails /\ SetMode(m, dock, TRUE) /\ Answer("error")
                  /\ \/ UNCHANGED mail
                     \/ cmd = "focus" /\ Emit(told)
                  /\ strayed' = TRUE
    /\ UNCHANGED <<mode, origin, generation, queue, own, inside, armed, hoverOpen, closing,
                   dragging, listening, dock, dragMode, pointerVars, events>>

\* companion_chat_pointer_ready
PointerReady ==
    /\ Served("pointerReady")
    /\ Emit([kind |-> "pointer", at |-> pointer])
    /\ ahead' = (pointer # tracker)
    /\ UNCHANGED <<windowVars, panelVars, pointer, tracker, strayed, events, faults>>

\* companion_chat_drag_start: the mode is told from the size.
DragStart ==
    /\ Served("dragStart")
    /\ dragMode' \in CurrentModes
    /\ strayed' = (strayed \/ dragMode # None \/ dragMode' # ModeOf(frame))
    /\ UNCHANGED <<windowVars, mail, frame, morph, monitor, dock, pointerVars, events, faults>>

\* companion_chat_drag_frame
DragFrame ==
    /\ Served("dragFrame")
    /\ frame' = DragFrameAt(Head(calls).at)
    /\ morph' = NoFrame
    /\ monitor' = Head(calls).at.monitor
    /\ UNCHANGED <<windowVars, mail, dock, dragMode, pointerVars, strayed, events, faults>>

\* companion_chat_drag_end: the mode is the one from before the drag, the dock the nearest,
\* and the preference may not be saved. The window is told that the drag is over.
DragEnd ==
    /\ Served("dragEnd")
    /\ dragMode' = None
    /\ \/ \E seen \in Seen :
             LET place == Nearest(monitor, seen)
             IN  /\ SetMode(dragMode, place, TRUE)
                 /\ \/ dock' = place /\ Emit([kind |-> "dragOver"])
                       /\ UNCHANGED <<strayed, faults>>
                    \/ UNCHANGED <<dock, mail>> /\ Fails /\ strayed' = TRUE
       \/ Fails /\ strayed' = TRUE /\ UNCHANGED <<frame, morph, monitor, dock, mail>>
    /\ UNCHANGED <<windowVars, pointerVars, events>>

-----------------------------------------------------------------------------
(* What happens to the panel without the window: open_companion_focused and               *)
(* show_companion_collapsed, a changed scale factor, and a dock chosen in the settings.   *)
Outside(m) ==
    /\ Happens
    /\ SetMode(m, dock, m = "expanded")
    /\ Emit([kind |-> "state", mode |-> m, id |-> 0])
    /\ strayed' = (dragMode # None \/ ~listening)
    /\ UNCHANGED <<windowVars, calls, dock, dragMode, pointerVars, faults>>

Redock(d) ==
    /\ Happens
    /\ \E m \in CurrentModes :
          /\ SetMode(m, d, FALSE)
          /\ \/ dock' = d /\ UNCHANGED faults
                /\ strayed' = (strayed \/ m # ModeOf(frame))
             \/ d # dock /\ UNCHANGED dock /\ Fails /\ strayed' = TRUE
    /\ UNCHANGED <<windowVars, calls, mail, dragMode, pointerVars>>

-----------------------------------------------------------------------------
(* The pointer: it moves; AppKit calls the tracker, which publishes what it sees.         *)
PointerMoves ==
    /\ Happens
    /\ pointer' = IF pointer = "in" THEN "out" ELSE "in"
    /\ UNCHANGED <<windowVars, calls, mail, panelVars, tracker, ahead, strayed, faults>>

PublishPointer ==
    /\ tracker # pointer
    /\ tracker' = pointer /\ ahead' = FALSE
    /\ Emit([kind |-> "pointer", at |-> pointer])
    /\ UNCHANGED <<windowVars, calls, panelVars, pointer, strayed, events, faults>>

-----------------------------------------------------------------------------
(* The window handles what it is told.                                                     *)
Listen ==
    /\ ~listening
    /\ listening' = TRUE
    /\ calls' = Append(calls, [cmd |-> "pointerReady"])
    /\ UNCHANGED <<mode, origin, generation, queue, flight, own, inside, armed, hoverOpen,
                   closing, dragging, mail, panelVars, pointerVars, strayed, events,
                   faults>>

HandlePointer ==
    /\ mail # <<>> /\ Head(mail).kind = "pointer"
    /\ mail' = Tail(mail)
    /\ inside' = (Head(mail).at = "in")
    /\ IF inside' /\ ~inside /\ HoverOpens(TRUE, hoverOpen, dragging)
       THEN OpenPassive
       ELSE /\ armed' = (armed \/ ~inside')
            /\ UNCHANGED <<mode, origin, generation, queue>>
    /\ UNCHANGED <<flight, own, hoverOpen, closing, dragging, listening, calls, panelVars,
                   pointerVars, strayed, events, faults>>

HandleState ==
    /\ mail # <<>> /\ Head(mail).kind = "state"
    /\ mail' = Tail(mail)
    /\ IF Foreign(Head(mail))
       THEN /\ generation' = generation + 1
            /\ mode' = Head(mail).mode
            /\ origin' = IF mode' = "expanded" THEN "focused" ELSE None
            /\ armed' = IF mode' = "expanded" THEN armed ELSE ~inside
            /\ UNCHANGED own
       ELSE /\ own' = own \ {Head(mail).id}
            /\ UNCHANGED <<generation, mode, origin, armed>>
    /\ UNCHANGED <<queue, flight, inside, hoverOpen, closing, dragging, listening, calls,
                   panelVars, pointerVars, strayed, events, faults>>

\* The end of a drag ends also one begun since, whose own end the panel is never told.
HandleDragOver ==
    /\ mail # <<>> /\ Head(mail).kind = "dragOver"
    /\ mail' = Tail(mail)
    /\ dragging' = FALSE
    /\ UNCHANGED <<mode, origin, generation, queue, flight, own, inside, armed, hoverOpen,
                   closing, listening, calls, panelVars, pointerVars, strayed, events,
                   faults>>

\* A drag begins with ten points of movement and ends with the button.
Drag ==
    /\ Used /\ ~dragging
    /\ dragging' = TRUE
    /\ origin' = IF origin = "hover" THEN "focused" ELSE origin
    /\ calls' = Append(calls, [cmd |-> "dragStart"])
    /\ UNCHANGED <<mode, generation, queue, flight, own, inside, armed, hoverOpen, closing,
                   listening, mail, panelVars, pointerVars, strayed, faults>>

Moved ==
    /\ dragging /\ Happens
    /\ \E p \in Points : calls' = Append(calls, [cmd |-> "dragFrame", at |-> p])
    /\ UNCHANGED <<windowVars, mail, panelVars, pointerVars, strayed, faults>>

Drop ==
    /\ dragging
    /\ dragging' = FALSE
    /\ calls' = Append(calls, [cmd |-> "dragEnd"])
    /\ UNCHANGED <<mode, origin, generation, queue, flight, own, inside, armed, hoverOpen,
                   closing, listening, mail, panelVars, pointerVars, strayed, events,
                   faults>>

-----------------------------------------------------------------------------
Next ==
    \/ Click \/ OpenFocused \/ LoadHover
    \/ \E how \in {"auto", "manual"} : BeginCollapse(how) \/ Collapse(how)
    \/ Promote
    \/ Dequeue \/ Answered
    \/ ServeTransition \/ PointerReady \/ DragStart \/ DragFrame \/ DragEnd \/ AnimationEnds
    \/ \E m \in Modes : Outside(m)
    \/ \E d \in Settings \cup {dock} : Redock(d)
    \/ PointerMoves \/ PublishPointer
    \/ Listen \/ HandlePointer \/ HandleState \/ HandleDragOver
    \/ Drag \/ Moved \/ Drop

Spec == Init /\ [][Next]_vars

-----------------------------------------------------------------------------
TypeOK ==
    /\ mode \in Modes /\ origin \in {None, "hover", "focused"}
    /\ generation \in Nat /\ own \subseteq 1..generation
    /\ inside \in BOOLEAN /\ armed \in BOOLEAN /\ hoverOpen \in BOOLEAN
    /\ dragging \in BOOLEAN /\ listening \in BOOLEAN /\ closing \subseteq {"auto", "manual"}
    /\ monitor \in Monitors /\ dock \in Docks /\ dragMode \in Modes \cup {None}
    /\ pointer \in {"in", "out"} /\ tracker \in {"in", "out", None}

AtRest ==
    /\ queue = <<>> /\ flight = NoFlight /\ closing = {}
    /\ calls = <<>> /\ mail = <<>> /\ ~dragging /\ dragMode = None

\* At rest the panel has the size of the mode the window shows and the place of the dock in
\* the preferences, in spite of requests that overtook one another or failed
\* (Companion.svelte:204, companion_panel.rs:295). Excepted, until the next request that is
\* served alone: one served while an opening from outside was on its way to the window or a
\* drag was under way; one that failed half-way, or whose fallback was itself a guess; a
\* mode told from a size in mid-animation, or from the size of a drag that never ended.
FrameFollowsMode == AtRest /\ ~strayed => frame = FrameAt(monitor, mode, dock)

\* Once the tracker has published where the pointer is, the window knows it, also when it
\* began to listen later (Companion.svelte:836), unless the snapshot it asked for was taken
\* before the tracker was called and nothing was published since.
PointerKnown ==
    listening /\ mail = <<>> /\ calls = <<>> /\ tracker = pointer /\ ~ahead =>
        inside = (pointer = "in")

\* A panel let go where it is docked stays docked there (companion_panel.rs:608), on every
\* screen and in every mode that is reached.
DocksStable == \A d \in Docks : Nearest(monitor, FrameAt(monitor, mode, d)) = d
====
