----------------------------- MODULE InlineRewrite -----------------------------
(***************************************************************************)
(* A rewrite from the key that opens it to the text put into the composer: *)
(* InlineCoordinator, which holds at most one session under a mutex, and   *)
(* the tasks around it that know a session by its number only.  A reply    *)
(* shows its progress inside the composer, as frames that woof owns and    *)
(* has to take out again.  The user types, looks elsewhere, closes the     *)
(* overlay, asks again and holds the key to dictate while all this runs.   *)
(*                                                                         *)
(* One composer stands for the retained element of every session.  What a  *)
(* delivery does inside is InlineDelivery; here it is one step, and so is  *)
(* what Dictation has of a session between its beginning and its end.      *)
(***************************************************************************)
EXTENDS Naturals

CONSTANTS
    Submits,        \* bound: requests of the overlay in flight
    MaxSessions,    \* bound: sessions ever begun
    MaxEvents,      \* bound: edits and switches of the user
    MaxFaults       \* bound: calls into macOS that fail, generations that fail

VARIABLES
    nextId,         \* InlineCoordinator::next_id
    active,         \* InlineCoordinator::active, NoSession for none
    cancelled,      \* sessions whose CancellationToken was cancelled
    text,           \* what the composer holds
    focus,          \* "target", "controller" (the edit window), "other"
    prep,           \* prepare_inline_visible_context of each session
    submit,         \* per request: the session it snapshotted, and where it is
    refusing,       \* sessions whose terminal refusal is about to be shown
    noticed,        \* sessions for which "delivery-unconfirmed" was shown
    overtaken,      \* sessions ended by a held key that could not restore the composer
    events, faults

vars == <<nextId, active, cancelled, text, focus, prep, submit, refusing, noticed,
          overtaken, events, faults>>

Sessions == 1..MaxSessions
Frames == 0..2                          \* REPLY_PROGRESS_FRAMES
User(n) == [by |-> "user", n |-> n, of |-> 0]
Frame(s, k) == [by |-> "frame", n |-> k, of |-> s]
Result(s) == [by |-> "answer", n |-> 0, of |-> s]
Empty == User(0)
Texts == {User(n) : n \in 0..(MaxEvents + 1)}
         \cup {Frame(s, k) : s \in Sessions, k \in Frames} \cup {Result(s) : s \in Sessions}

NoSession == [id |-> 0, task |-> "none", context |-> FALSE, inFlight |-> FALSE,
              original |-> Empty, expected |-> Empty, progress |-> FALSE,
              frame |-> 0, owned |-> {}]

TypeOK ==
    /\ nextId \in 0..MaxSessions
    /\ active \in [id : 0..MaxSessions, task : {"none", "reply", "draft", "dictation"},
                   context : BOOLEAN, inFlight : BOOLEAN, original : Texts, expected : Texts,
                   progress : BOOLEAN, frame : Frames, owned : SUBSET Frames]
    /\ cancelled \subseteq Sessions
    /\ text \in Texts /\ focus \in {"target", "controller", "other"}
    /\ prep \in [Sessions -> {"none", "fetch", "focus", "done"}]
    /\ submit \in [Submits -> [of : 0..MaxSessions,
                               at : {"idle", "prepared", "running", "animating", "answered",
                                     "ready", "failing", "ended"}]]
    /\ refusing \subseteq Sessions \X BOOLEAN
    /\ noticed \subseteq Sessions /\ overtaken \subseteq Sessions
    /\ events \in 0..MaxEvents /\ faults \in 0..MaxFaults

Init ==
    /\ nextId = 0 /\ active = NoSession /\ cancelled = {}
    /\ text \in {Empty, User(1)}
    /\ focus = "target"
    /\ prep = [s \in Sessions |-> "none"]
    /\ submit = [t \in Submits |-> [of |-> 0, at |-> "idle"]]
    /\ refusing = {} /\ noticed = {} /\ overtaken = {}
    /\ events = 0 /\ faults = 0

Fault == faults < MaxFaults /\ faults' = faults + 1
NoFault == UNCHANGED faults
At(t, place) == submit' = [submit EXCEPT ![t].at = place]
Mine(t) == active.id = submit[t].of /\ active.id # 0

-----------------------------------------------------------------------------
(***************************************************************************)
(* Frames in the composer.  Both writes go through Accessibility only, and *)
(* only while the edit window has the keyboard.                            *)
(***************************************************************************)
\* Whatever stands in the composer is put back.
RestoreFaulty(s, ok) ==
    \/ ~s.progress /\ ok /\ UNCHANGED text /\ NoFault
    \/ s.progress /\ focus = "controller" /\ ok /\ text' = s.original /\ NoFault
    \/ s.progress /\ focus # "controller" /\ ~ok /\ UNCHANGED text /\ NoFault
    \/ s.progress /\ ~ok /\ Fault /\ UNCHANGED text

\* restore_reply_progress and restore_whole_draft_preview: only a frame this
\* session may have written is replaced, by the text the session had found.
Restore(s, ok) ==
    LET owned == text \in {Frame(s.id, k) : k \in s.owned}
        clean == ~s.progress \/ text = s.original
    IN  \/ clean /\ ok /\ UNCHANGED text /\ NoFault
        \/ ~clean /\ owned /\ focus = "controller" /\ ok /\ text' = s.original /\ NoFault
        \/ ~clean /\ (~owned \/ focus # "controller") /\ ~ok /\ UNCHANGED text /\ NoFault
        \/ s.progress /\ ~ok /\ Fault
           /\ text' \in {text} \cup (IF owned /\ focus = "controller" THEN {s.original} ELSE {})

Restored(s) == [s EXCEPT !.progress = FALSE, !.frame = 0, !.owned = {}, !.expected = s.original]

\* replace_whole_draft_preview: written; refused with nothing written (softly,
\* when the composer is not writable that way); or an error after the write
\* was begun.
Preview(s, k, outcome) ==
    LET reachable == focus = "controller" /\ text = s.expected
    IN  \/ outcome = "written" /\ reachable /\ text' = Frame(s.id, k) /\ NoFault
        \/ outcome = "refused" /\ ~reachable /\ UNCHANGED text /\ NoFault
        \/ outcome = "unable" /\ Fault /\ UNCHANGED text
        \/ outcome = "unsure" /\ reachable /\ Fault /\ text' \in {text, Frame(s.id, k)}

-----------------------------------------------------------------------------
(***************************************************************************)
(* The end of a session.                                                   *)
(***************************************************************************)
\* cancel_active: the token first, then the frames, then the element.
Cancel(unconfirmed) ==
    /\ cancelled' = cancelled \cup ({active.id} \ {0})
    /\ Restore(active, ~unconfirmed)
CancelActive(unconfirmed) == active' = NoSession /\ Cancel(unconfirmed)

\* Only that the rewrite failed is said.
RefuseFaulty(s, unconfirmed) == refusing' = refusing \cup {<<s, FALSE>>}

\* show_terminal_inline_refusal, unless a newer session has been begun.
Refuse(s, unconfirmed) == refusing' = refusing \cup {<<s, unconfirmed>>}

ShowRefusal(r) ==
    /\ r \in refusing
    /\ refusing' = refusing \ {r}
    /\ IF nextId = r[1] /\ active.id = 0
       THEN /\ noticed' = noticed \cup (IF r[2] THEN {r[1]} ELSE {})
            /\ focus' = IF focus = "controller" THEN "other" ELSE focus
       ELSE UNCHANGED <<noticed, focus>>
    /\ UNCHANGED <<nextId, active, cancelled, text, prep, submit, overtaken, events, faults>>

\* edit_mode_close, and caret_overlay_cancel of this session.
Close ==
    /\ active.id # 0
    /\ \E unconfirmed \in BOOLEAN :
          /\ CancelActive(unconfirmed)
          /\ IF unconfirmed THEN Refuse(active.id, TRUE) ELSE UNCHANGED refusing
    /\ UNCHANGED <<nextId, focus, prep, submit, noticed, overtaken, events>>

-----------------------------------------------------------------------------
(***************************************************************************)
(* The beginning.                                                          *)
(***************************************************************************)
\* cancel_modifier_flow, of a key that is cancelled or refused, of a held key
\* while dictation is switched off, and of handle_inline_rewrite_trigger, which
\* cancels whatever there is; a frame that stays is announced, before the next
\* session takes the overlay over.
Trigger ==
    /\ active.id # 0
    /\ \E unconfirmed \in BOOLEAN :
          /\ CancelActive(unconfirmed)
          /\ noticed' = noticed \cup (IF unconfirmed THEN {active.id} ELSE {})
    /\ UNCHANGED <<nextId, focus, prep, submit, refusing, overtaken, events>>

\* begin_with: an empty composer is asked for a reply.
Begin ==
    /\ active.id = 0 /\ nextId < MaxSessions
    /\ focus = "target"
    /\ nextId' = nextId + 1
    /\ active' = [NoSession EXCEPT !.id = nextId + 1, !.original = text, !.expected = text,
                  !.task = IF text = Empty THEN "reply" ELSE "draft"]
    /\ prep' = [prep EXCEPT ![nextId + 1] = "fetch"]
    /\ UNCHANGED <<cancelled, text, focus, submit, refusing, noticed, overtaken, events, faults>>

\* handle_modifier_hold_started: begin_with ends the session that is open, and
\* an editable composer gets one of dictation.  When frames stay in the composer
\* it gives up at once: the refusal names no session, and the windows are hidden.
Hold ==
    /\ \/ /\ focus = "target" /\ nextId < MaxSessions
          /\ Cancel(FALSE)
          /\ nextId' = nextId + 1
          /\ active' = [NoSession EXCEPT !.id = nextId + 1, !.task = "dictation",
                                         !.original = text', !.expected = text']
          /\ UNCHANGED <<focus, overtaken>>
       \/ /\ active.id # 0 /\ CancelActive(FALSE)
          /\ UNCHANGED <<nextId, focus, overtaken>>
       \/ /\ active.id # 0 /\ CancelActive(TRUE)
          /\ overtaken' = overtaken \cup {active.id}
          /\ focus' = IF focus = "controller" THEN "other" ELSE focus
          /\ UNCHANGED nextId
    /\ UNCHANGED <<prep, submit, refusing, noticed, events>>

\* The recording ends: nothing was said, the session is cancelled, or the words
\* are delivered to the composer, which may fail after they were written.
DictationEnds ==
    /\ active.task = "dictation"
    /\ active' = NoSession /\ cancelled' = cancelled \cup {active.id}
    /\ LET reachable == focus = "target" /\ text = active.expected IN
          \/ UNCHANGED <<text, faults>>
          \/ reachable /\ text' = Result(active.id) /\ NoFault
          \/ reachable /\ Fault /\ text' \in {text, Result(active.id)}
    /\ UNCHANGED <<nextId, focus, prep, submit, refusing, noticed, overtaken, events>>

\* prepare_inline_visible_context, once the daemon has answered or not: the
\* target is validated again before the overlay takes the focus.
Prepare(s) ==
    /\ prep[s] = "fetch"
    /\ IF active.id # s
       THEN /\ prep' = [prep EXCEPT ![s] = "done"]
            /\ UNCHANGED <<active, cancelled, text, focus, refusing, faults>>
       ELSE IF focus = "target" /\ text = active.expected
       THEN /\ prep' = [prep EXCEPT ![s] = IF active.task = "reply" THEN "focus" ELSE "done"]
            /\ \E available \in BOOLEAN : active' = [active EXCEPT !.context = available]
            /\ focus' \in {"controller", "target"}
            /\ UNCHANGED <<cancelled, text, refusing, faults>>
       ELSE /\ prep' = [prep EXCEPT ![s] = "done"]
            /\ \E unconfirmed \in BOOLEAN : CancelActive(unconfirmed)
            /\ Refuse(s, FALSE)
            /\ UNCHANGED focus
    /\ UNCHANGED <<nextId, submit, noticed, overtaken, events>>

\* wait_for_edit_focus, up to its last poll.
AwaitFocus(s) ==
    /\ prep[s] = "focus"
    /\ prep' = [prep EXCEPT ![s] = "done"]
    /\ IF active.id # s \/ focus = "controller"
       THEN UNCHANGED <<active, cancelled, text, refusing, faults>>
       ELSE \E unconfirmed \in BOOLEAN : CancelActive(unconfirmed) /\ Refuse(s, FALSE)
    /\ UNCHANGED <<nextId, focus, submit, noticed, overtaken, events>>

-----------------------------------------------------------------------------
(***************************************************************************)
(* edit_mode_submit.                                                       *)
(***************************************************************************)
\* prepare_rewrite: one request per session.  The overlay knows the session
\* once its edit-init has been published.
Submit(t) ==
    /\ submit[t].at = "idle"
    /\ active.id # 0 /\ prep[active.id] = "done" /\ focus = "controller"
    /\ ~active.inFlight
    /\ active' = [active EXCEPT !.inFlight = TRUE]
    /\ submit' = [submit EXCEPT ![t] = [of |-> active.id, at |-> "prepared"]]
    /\ UNCHANGED <<nextId, cancelled, text, focus, prep, refusing, noticed, overtaken, events,
                   faults>>

\* finish_reply_progress_start_failure: the frame may have been written, and is
\* taken out again or not.
StartUnsure(t) ==
    /\ focus = "controller" /\ text = active.expected /\ Fault
    /\ \/ UNCHANGED <<text, active>> /\ (At(t, "running") \/ At(t, "failing"))
       \/ /\ text' \in {text, Frame(active.id, 0)}
          /\ active' = [active EXCEPT !.progress = TRUE, !.owned = {0}]
          /\ At(t, "failing")

\* What edit_mode_submit_inner refuses: an empty instruction, or a reply
\* without context.  Then start_reply_progress.
Start(t) ==
    /\ submit[t].at = "prepared"
    /\ \/ ~(Mine(t) /\ active.context) /\ At(t, "failing") /\ UNCHANGED <<active, text, faults>>
       \/ Mine(t) /\ active.task = "draft" /\ At(t, "running")
          /\ UNCHANGED <<active, text, faults>>
       \/ /\ Mine(t) /\ active.task = "reply" /\ active.context
          /\ \/ Preview(active, 0, "written") /\ At(t, "animating")
                /\ active' = [active EXCEPT !.expected = Frame(active.id, 0), !.progress = TRUE,
                                            !.owned = {0}]
             \/ Preview(active, 0, "refused") /\ At(t, "failing") /\ UNCHANGED active
             \/ Preview(active, 0, "unable") /\ At(t, "running") /\ UNCHANGED active
             \/ StartUnsure(t)
    /\ UNCHANGED <<nextId, cancelled, focus, prep, refusing, noticed, overtaken, events>>

\* advance_reply_progress at a tick, or one of the polls for the focus, in the
\* loop of perform_inline_assistance_with_reply_progress: an error cancels.
Tick(t) ==
    /\ submit[t].at = "animating"
    /\ LET next == (active.frame + 1) % 3
           gives_up == /\ cancelled' = cancelled \cup {submit[t].of}
                       /\ At(t, "failing")
       IN  \/ /\ Mine(t) /\ Preview(active, next, "written")
              /\ active' = [active EXCEPT !.expected = Frame(active.id, next), !.frame = next,
                                          !.owned = {next}]
              /\ UNCHANGED <<cancelled, submit>>
           \/ /\ Mine(t) /\ (Preview(active, next, "refused") \/ Preview(active, next, "unable"))
              /\ gives_up /\ UNCHANGED active
           \/ /\ Mine(t) /\ Preview(active, next, "unsure")
              /\ active' = [active EXCEPT !.owned = @ \cup {next}]
              /\ gives_up
           \/ ~Mine(t) /\ gives_up /\ UNCHANGED <<active, text, faults>>
    /\ UNCHANGED <<nextId, focus, prep, refusing, noticed, overtaken, events>>

\* The generation ends, or is cancelled.
Generated(t) ==
    /\ submit[t].at \in {"running", "animating"}
    /\ \/ At(t, "answered") /\ NoFault
       \/ submit[t].of \in cancelled /\ At(t, "failing") /\ NoFault
       \/ Fault /\ At(t, "failing")
    /\ UNCHANGED <<nextId, active, cancelled, text, focus, prep, refusing, noticed, overtaken,
                   events>>

\* The token is read before the lock is taken.
Ready(t) ==
    /\ submit[t].at = "answered" /\ submit[t].of \notin cancelled
    /\ At(t, "ready")
    /\ UNCHANGED <<nextId, active, cancelled, text, focus, prep, refusing, noticed, overtaken,
                   events, faults>>

\* The session is kept as it was left.
RetryFaulty(s) == Restored(s)

\* The session may be asked again.
Retry(s) == [Restored(s) EXCEPT !.inFlight = FALSE]

\* rewrite_failed: the session stays, for another try, if its frames are out of
\* the composer; otherwise it ends, and says so.
RewriteFailed(t) ==
    /\ submit[t].at = "failing" \/ (submit[t].at = "answered" /\ submit[t].of \in cancelled)
    /\ At(t, "ended")
    /\ IF ~Mine(t) THEN UNCHANGED <<active, cancelled, text, refusing, faults>>
       ELSE \E ok \in BOOLEAN :
          /\ Restore(active, ok)
          /\ IF ok
             THEN /\ active' = Retry(active)
                  /\ UNCHANGED <<cancelled, refusing>>
             ELSE /\ active' = NoSession /\ cancelled' = cancelled \cup {active.id}
                  /\ Refuse(active.id, TRUE)
    /\ UNCHANGED <<nextId, focus, prep, noticed, overtaken, events>>

\* The session is not looked for again.
DeliverableFaulty(t) == submit[t].at = "ready" /\ active.id # 0

\* has_rewrite_session, under the lock that the delivery keeps.
Deliverable(t) == submit[t].at = "ready" /\ Mine(t) /\ active.inFlight

Stale(t) ==
    /\ submit[t].at = "ready" /\ ~(Mine(t) /\ active.inFlight)
    /\ At(t, "ended")
    /\ UNCHANGED <<nextId, active, cancelled, text, focus, prep, refusing, noticed, overtaken,
                   events, faults>>

\* deliver_and_release, InlineDelivery in one step: delivered; refused with the
\* composer untouched, and the frames taken out; or an error that may have
\* written.  An Accessibility permission withdrawn after the write is taken
\* for a refusal.
Delivery(t) ==
    LET s == active
        answer == Result(submit[t].of)
        reachable == focus \in {"controller", "target"} /\ text = s.expected
    IN  \/ reachable /\ text' = answer /\ NoFault /\ UNCHANGED refusing
        \/ ~reachable /\ \E ok \in BOOLEAN : Restore(s, ok) /\ Refuse(s.id, ~ok)
        \/ reachable /\ Fault /\ text' \in {text, answer} /\ Refuse(s.id, TRUE)
        \/ reachable /\ ~s.progress /\ Fault /\ text' = answer /\ Refuse(s.id, FALSE)

\* The edit window must still have the keyboard; it is hidden first, and what
\* gets the focus then is not ours to say.
Deliver(t) ==
    /\ Deliverable(t)
    /\ At(t, "ended")
    /\ active' = NoSession /\ cancelled' = cancelled \cup {active.id}
    /\ IF focus # "controller"
       THEN /\ \E ok \in BOOLEAN : Restore(active, ok) /\ Refuse(active.id, ~ok)
            /\ UNCHANGED focus
       ELSE /\ Delivery(t)
            /\ focus' \in {"target", "other"}
    /\ UNCHANGED <<nextId, prep, noticed, overtaken, events>>

-----------------------------------------------------------------------------
(***************************************************************************)
(* The user.                                                               *)
(***************************************************************************)
UserTypes ==
    /\ focus = "target" /\ events < MaxEvents
    /\ events' = events + 1
    /\ text' = User(events + 2)
    /\ UNCHANGED <<nextId, active, cancelled, focus, prep, submit, refusing, noticed, overtaken,
                   faults>>

UserSwitches ==
    /\ events < MaxEvents
    /\ events' = events + 1
    /\ focus' \in {"target", "other", "controller"} \ {focus}
    /\ focus' = "controller" => \E s \in Sessions : prep[s] \in {"focus", "done"} /\ active.id = s
    /\ UNCHANGED <<nextId, active, cancelled, text, prep, submit, refusing, noticed, overtaken,
                   faults>>

Next ==
    \/ Close \/ Trigger \/ Begin \/ Hold \/ DictationEnds
    \/ \E s \in Sessions : Prepare(s) \/ AwaitFocus(s)
    \/ \E r \in Sessions \X BOOLEAN : ShowRefusal(r)
    \/ \E t \in Submits :
          \/ Submit(t) \/ Start(t) \/ Tick(t) \/ Generated(t) \/ Ready(t)
          \/ RewriteFailed(t) \/ Stale(t) \/ Deliver(t)
    \/ UserTypes \/ UserSwitches

Spec == Init /\ [][Next]_vars

-----------------------------------------------------------------------------
(***************************************************************************)
(* Properties.                                                             *)
(***************************************************************************)
\* "cleanup never races or clears a user edit": whatever fails, a step of woof
\* replaces only what the session had found, or a frame of that session; and an
\* answer goes where it was asked for.
EditKept ==
    [][text' # text =>
          \/ events' # events                             \* the user types
          \/ /\ text = active.original \/ (text.by = "frame" /\ text.of = active.id)
             /\ text'.by = "answer" => text'.of = active.id]_vars

\* After the session ended, a frame is left in the composer only with the word
\* that it may be: "delivery-unconfirmed" was shown, is about to be, or a
\* newer session has taken the overlay.  Of a frame that could not be taken out
\* when a held key ended its session nothing is said (commands.rs:2229-2250).
MarkerAccounted ==
    text.by = "frame" /\ active.id # text.of =>
        \/ text.of \in noticed \/ <<text.of, TRUE>> \in refusing \/ nextId > text.of
        \/ text.of \in overtaken

\* rewrite_in_flight is cleared, or the session ended, whatever becomes of the
\* request: the overlay can always ask again.
InFlightHasRequest ==
    active.inFlight =>
        \E t \in Submits : submit[t].of = active.id /\ submit[t].at \notin {"idle", "ended"}
=============================================================================
