------------------------------- MODULE Dictation -------------------------------
(***************************************************************************)
(* Recordings and the sessions they are dictated into.  Two mutexes, the   *)
(* one of the transcription coordinator and the one of the inline          *)
(* coordinator, are taken one after the other and never together, by the   *)
(* thread that watches the modifier keys, by the commands of the windows   *)
(* and by the task of each recording: every step between two of them is a  *)
(* step of its own.                                                        *)
(***************************************************************************)
EXTENDS Naturals, Sequences

CONSTANTS
    MaxRecordings,   \* bound: recordings
    MaxSessions,     \* bound: inline sessions
    MaxEvents        \* bound: commands of the windows, and failures of the
                     \* microphone and of the network

VARIABLES
    active,          \* TranscriptionCoordinator: the recording, or 0
    recs,            \* each recording and its task
    held, owner,     \* InlineCoordinator: modifier_hold_active, and
                     \* modifier_transcription_id or 0
    session,         \* InlineCoordinator: the active session
    sessions,        \* how many there were
    down,            \* a hold was started and not ended (see Gestures)
    actor,           \* the thread of the keys and the thread of the windows
    events

vars == <<active, recs, held, owner, session, sessions, down, actor, events>>
inline == <<held, owner, session>>

Actors == {"keys", "windows"}
Steps == {"idle", "aim", "take", "reserve", "attach", "abort", "finalize", "cancel", "emit", "effect",
          "wipe", "rewrite"}
Phases == {"Opening", "Listening", "Finalizing", "Cancelling"}
Tasks == {"none", "start", "opened", "run", "stalled", "overflow", "text", "blank", "bad",
          "wipe", "done"}

NoSession == [id |-> 0, kind |-> "none"]
Idle == [at |-> "idle", rec |-> 0, home |-> 0, rewrite |-> FALSE, whole |-> FALSE]

\* A recording; home and into are history: the session its hold began, the one
\* its text went into; late: the hold was cancelled when it had ended already;
\* ends: the final events that were told.
Recording(trigger, home) ==
    [target |-> IF trigger = "modifier_inline" THEN "Inline" ELSE "Companion",
     modifier |-> trigger # "manual", phase |-> "Opening", mic |-> "none", token |-> FALSE,
     task |-> "none", home |-> home, into |-> 0, left |-> FALSE, wiped |-> FALSE,
     ends |-> 0]

TypeOK ==
    /\ active \in 0..Len(recs) /\ Len(recs) <= MaxRecordings
    /\ \A i \in DOMAIN recs :
          recs[i] \in [target : {"Inline", "Companion"}, modifier : BOOLEAN, phase : Phases,
                       mic : {"none", "open", "stopped"}, token : BOOLEAN, task : Tasks,
                       home : 0..MaxSessions, into : 0..MaxSessions, left : BOOLEAN,
                       wiped : BOOLEAN, ends : Nat]
    /\ held \in BOOLEAN /\ owner \in 0..Len(recs)
    /\ session \in [id : 0..MaxSessions, kind : {"none", "dictation", "rewrite"}]
    /\ sessions \in 0..MaxSessions /\ down \in BOOLEAN
    /\ actor \in [Actors -> [at : Steps, rec : 0..MaxRecordings, home : 0..MaxSessions,
                             rewrite : BOOLEAN, whole : BOOLEAN]]
    /\ events \in 0..MaxEvents

Init ==
    /\ active = 0 /\ recs = <<>> /\ held = FALSE /\ owner = 0 /\ session = NoSession
    /\ sessions = 0 /\ down = FALSE /\ actor = [a \in Actors |-> Idle]
    /\ events = 0

Event == events < MaxEvents /\ events' = events + 1
Rec(a) == actor[a].rec
At(a, step) == actor[a].at = step
Goto(a, step) == actor' = [actor EXCEPT ![a].at = step]
Return(a) == actor' = [actor EXCEPT ![a] = Idle]

-----------------------------------------------------------------------------
(***************************************************************************)
(* TranscriptionCoordinator, one operation under its mutex.                *)
(***************************************************************************)
Reserved(trigger, home) ==
    /\ active = 0 /\ Len(recs) < MaxRecordings
    /\ recs' = Append(recs, Recording(trigger, home))
    /\ active' = Len(recs) + 1

\* request_finalize and request_limit; a microphone that is not open yet is
\* stopped by attach_capture.
Finalized(r) ==
    IF r.phase \in {"Opening", "Listening"}
    THEN [r EXCEPT !.phase = "Finalizing", !.mic = IF @ = "open" THEN "stopped" ELSE @]
    ELSE r

\* request_cancel and overflow_active
CancelledRec(r) == [r EXCEPT !.phase = "Cancelling", !.ends = @ + 1]

\* complete, fail, start_failed: every end is told, even of a recording that
\* was cancelled.
EndedFaulty(r, what) == [r EXCEPT !.token = TRUE, !.ends = @ + 1, !.task = what]

Ended(r, what) ==
    IF r.phase = "Cancelling" THEN [r EXCEPT !.token = TRUE, !.task = "done"]
    ELSE [r EXCEPT !.token = TRUE, !.ends = @ + 1, !.task = what]

-----------------------------------------------------------------------------
(***************************************************************************)
(* InlineCoordinator, one operation under its mutex.                       *)
(***************************************************************************)
\* begin_native; the field of the focus may be refused, or not be editable.
Begin(kind) ==
    /\ sessions < MaxSessions /\ sessions' = sessions + 1
    /\ session' = [id |-> sessions + 1, kind |-> kind]

Dropped == session' = NoSession /\ UNCHANGED sessions

\* What the next two pass over: recordings under way that nobody has cancelled.
Wiped(rs) == [i \in DOMAIN rs |->
    [rs[i] EXCEPT !.wiped = @ \/ (rs[i].phase # "Cancelling" /\ rs[i].task # "done")]]

CancelAll == held' = FALSE /\ owner' = 0 /\ session' = NoSession

\* The recording stays the hold's.
CancelDictationFaulty ==
    /\ held' = FALSE /\ UNCHANGED owner
    /\ session' = IF session.kind = "dictation" THEN NoSession ELSE session

CancelDictation ==
    /\ held' = FALSE /\ owner' = 0
    /\ session' = IF session.kind = "dictation" THEN NoSession ELSE session

-----------------------------------------------------------------------------
(***************************************************************************)
(* The thread of the keys: HoldToTalkStarted and HoldToTalkReleased.       *)
(***************************************************************************)
\* A recording whose text is still to come does not keep a hold from starting.
HoldStartedFaulty ==
    /\ At("keys", "idle") /\ ~down
    /\ down' = TRUE
    /\ IF held THEN UNCHANGED <<held, actor>>
       ELSE held' = TRUE /\ Goto("keys", "aim")
    /\ UNCHANGED <<active, recs, owner, session, sessions, events>>

\* begin_modifier_hold
HoldStarted ==
    /\ At("keys", "idle") /\ ~down
    /\ down' = TRUE
    /\ IF held \/ owner # 0 THEN UNCHANGED <<held, actor>>
       ELSE held' = TRUE /\ Goto("keys", "aim")
    /\ UNCHANGED <<active, recs, owner, session, sessions, events>>

\* begin_native(Dictation); an error ends like a hold that is not wanted.
Aim ==
    /\ At("keys", "aim")
    /\ \/ Begin("dictation")
          /\ actor' = [actor EXCEPT !["keys"].at = "reserve", !["keys"].home = sessions + 1]
       \/ Dropped /\ Goto("keys", "reserve")
       \/ Dropped /\ Goto("keys", "take")
    /\ UNCHANGED <<active, recs, held, owner, down, events>>

Reserve ==
    /\ At("keys", "reserve")
    /\ LET home == actor["keys"].home IN
       IF active # 0 THEN Goto("keys", "abort") /\ UNCHANGED <<active, recs>>
       ELSE /\ Reserved(IF home = 0 THEN "modifier_chat" ELSE "modifier_inline", home)
            /\ actor' = [actor EXCEPT !["keys"].at = "attach", !["keys"].rec = Len(recs) + 1]
    /\ UNCHANGED <<inline, sessions, down, events>>

\* attach_modifier_transcription, and the task is spawned.
Attach ==
    /\ At("keys", "attach")
    /\ owner' = Rec("keys")
    /\ recs' = [recs EXCEPT ![Rec("keys")].task = "start",
                            ![Rec("keys")].wiped =
                                ~held \/ recs[Rec("keys")].phase = "Cancelling"]
    /\ Return("keys")
    /\ UNCHANGED <<active, held, session, sessions, down, events>>

\* cancel_inline_modifier_target
Abort ==
    /\ At("keys", "abort")
    /\ CancelAll /\ recs' = Wiped(recs)
    /\ Return("keys")
    /\ UNCHANGED <<active, sessions, down, events>>

HoldReleased ==
    /\ At("keys", "idle") /\ down
    /\ down' = FALSE
    /\ held' = FALSE
    /\ actor' = IF held /\ owner # 0
                THEN [actor EXCEPT !["keys"].at = "finalize", !["keys"].rec = owner]
                ELSE actor
    /\ UNCHANGED <<active, recs, owner, session, sessions, events>>

\* finalize_transcription_session
Finalize ==
    /\ At("keys", "finalize")
    /\ recs' = IF active = Rec("keys")
               THEN [recs EXCEPT ![active] = Finalized(@)] ELSE recs
    /\ Return("keys")
    /\ UNCHANGED <<active, inline, sessions, down, events>>

-----------------------------------------------------------------------------
(***************************************************************************)
(* cancel_modifier_state, by either thread.                                *)
(***************************************************************************)
\* take_modifier_transcription
Take(a, rewrite) ==
    /\ held' = FALSE /\ owner' = 0
    /\ recs' = IF owner = 0 THEN recs ELSE [recs EXCEPT ![owner].left = TRUE]
    /\ actor' = [actor EXCEPT ![a].at = IF owner = 0 THEN "wipe" ELSE "cancel",
                              ![a].rec = owner, ![a].rewrite = rewrite, ![a].whole = TRUE]

\* A hold that is cancelled; secure input or a permission that is refused; a
\* double tap, which goes on to the rewrite.
GestureCancels ==
    /\ At("keys", "idle")
    /\ down' = FALSE
    /\ \E rewrite \in (IF down THEN {FALSE} ELSE BOOLEAN) :
          (rewrite => sessions < MaxSessions) /\ Take("keys", rewrite)
    /\ UNCHANGED <<active, session, sessions, events>>

\* The flow of Aim's errors.
Taken ==
    /\ At("keys", "take")
    /\ Take("keys", FALSE)
    /\ UNCHANGED <<active, session, sessions, down, events>>

\* cancel_transcription_session, transcription_cancel
CancelRec(a) ==
    /\ At(a, "cancel")
    /\ IF active = Rec(a) /\ active # 0 /\ recs[active].phase # "Cancelling"
       THEN /\ recs' = [recs EXCEPT ![active] = CancelledRec(@)]
            /\ Goto(a, IF recs[active].target = "Inline" THEN "emit" ELSE "effect")
       ELSE /\ IF actor[a].whole THEN Goto(a, "wipe") ELSE Return(a)
            /\ UNCHANGED recs
    /\ UNCHANGED <<active, inline, sessions, down, events>>

\* cancel_inline_after_terminal, of the Cancelled event
Emit(a) ==
    /\ At(a, "emit")
    /\ CancelDictation /\ recs' = Wiped(recs)
    /\ Goto(a, "effect")
    /\ UNCHANGED <<active, sessions, down, events>>

\* apply_transcription_effect stops the microphone and cancels after that.
Effect(a) ==
    /\ At(a, "effect")
    /\ recs' = [recs EXCEPT ![Rec(a)].token = TRUE,
                            ![Rec(a)].mic = IF @ = "open" THEN "stopped" ELSE @]
    /\ IF actor[a].whole THEN Goto(a, "wipe") ELSE Return(a)
    /\ UNCHANGED <<active, inline, sessions, down, events>>

Wipe(a) ==
    /\ At(a, "wipe")
    /\ CancelAll /\ recs' = Wiped(recs)
    /\ IF actor[a].rewrite THEN Goto(a, "rewrite") ELSE Return(a)
    /\ UNCHANGED <<active, sessions, down, events>>

\* handle_inline_rewrite_trigger, its second half
Rewrite ==
    /\ At("keys", "rewrite")
    /\ Begin("rewrite") \/ Dropped
    /\ Return("keys")
    /\ UNCHANGED <<active, recs, held, owner, down, events>>

-----------------------------------------------------------------------------
(***************************************************************************)
(* The commands of the windows.                                            *)
(***************************************************************************)
Command ==
    /\ At("windows", "idle")
    /\ Event

\* transcription_start
Start ==
    /\ Command
    /\ active = 0 /\ Len(recs) < MaxRecordings
    /\ recs' = Append(recs, [Recording("manual", 0) EXCEPT !.task = "start"])
    /\ active' = Len(recs) + 1
    /\ UNCHANGED <<inline, sessions, down, actor>>

\* transcription_finalize
FinalizeActive ==
    /\ Command /\ active # 0
    /\ recs' = [recs EXCEPT ![active] = Finalized(@)]
    /\ UNCHANGED <<active, inline, sessions, down, actor>>

\* transcription_cancel
CancelActive ==
    /\ Command /\ active # 0
    /\ actor' = [actor EXCEPT !["windows"].at = "cancel", !["windows"].rec = active]
    /\ UNCHANGED <<active, recs, inline, sessions, down>>

\* caret_overlay_cancel
Dismiss ==
    /\ Command
    /\ Take("windows", FALSE)
    /\ UNCHANGED <<active, session, sessions, down>>

\* stop_modifier_monitor, once the thread of the keys has ended
StopMonitor ==
    /\ Command /\ At("keys", "idle") /\ ~down
    /\ actor' = [actor EXCEPT !["windows"].at = "wipe"]
    /\ UNCHANGED <<active, recs, inline, sessions, down>>

-----------------------------------------------------------------------------
(***************************************************************************)
(* The task of recording i.                                                *)
(***************************************************************************)
Step(i, task) == recs[i].task = task
Running(i) == recs[i].task \in {"run", "stalled"}

\* continue_transcription_start up to the microphone; a start that fails ends
\* the recording, and that of a hold drops its session afterwards.
Open(i) ==
    /\ Step(i, "start")
    /\ \/ /\ ~recs[i].token
          /\ recs' = [recs EXCEPT ![i].task = "opened", ![i].mic = "open"]
          /\ UNCHANGED <<active, events>>
       \/ /\ IF recs[i].token THEN UNCHANGED events ELSE Event
          /\ LET r == Ended(recs[i], "bad") IN
             recs' = [recs EXCEPT ![i] =
                 IF r.task = "done" /\ r.modifier THEN [r EXCEPT !.task = "wipe"] ELSE r]
          /\ active' = 0
    /\ UNCHANGED <<inline, sessions, down, actor>>

\* The microphone is not stopped by what was asked before it was open.
AttachCaptureFaulty(i) ==
    /\ Step(i, "opened")
    /\ recs' = [recs EXCEPT ![i].task = "run", ![i].phase = IF @ = "Opening" THEN "Listening" ELSE @]
    /\ UNCHANGED <<active, inline, sessions, down, actor, events>>

\* attach_capture
AttachCapture(i) ==
    /\ Step(i, "opened")
    /\ recs' = [recs EXCEPT ![i] =
           IF @.phase = "Opening" THEN [@ EXCEPT !.task = "run", !.phase = "Listening"]
           ELSE [@ EXCEPT !.task = "run", !.mic = "stopped"]]
    /\ UNCHANGED <<active, inline, sessions, down, actor, events>>

\* An event that is too large: overflow_active.
Overflow(i) ==
    /\ Step(i, "run") /\ recs[i].phase # "Cancelling" /\ Event
    /\ recs' = [recs EXCEPT ![i] = [CancelledRec(@) EXCEPT !.token = TRUE, !.task = "overflow"]]
    /\ UNCHANGED <<active, inline, sessions, down, actor>>

Overflowed(i) ==
    /\ Step(i, "overflow")
    /\ IF recs[i].target = "Inline"
       THEN CancelDictation /\ recs' = Wiped([recs EXCEPT ![i].task = "run"])
       ELSE recs' = [recs EXCEPT ![i].task = "run"] /\ UNCHANGED inline
    /\ UNCHANGED <<active, sessions, down, actor, events>>

\* TranscriptionSession::run does not return any more unless it is cancelled: it waits for
\* room in the queue that only it empties, or the client for a send that nothing bounds.
Stall(i) ==
    /\ Step(i, "run") /\ ~recs[i].token /\ Event
    /\ recs' = [recs EXCEPT ![i].task = "stalled"]
    /\ UNCHANGED <<active, inline, sessions, down, actor>>

\* MAX_TRANSCRIPTION_DURATION; only the microphone is stopped.
Limit(i) ==
    /\ Running(i) /\ active = i /\ ~recs[i].token
    /\ recs[i].phase = "Listening"
    /\ recs' = [recs EXCEPT ![i] = Finalized(@)]
    /\ UNCHANGED <<active, inline, sessions, down, actor, events>>

\* TranscriptionSession::run returns: with a transcript, which may be empty,
\* with the cancellation, or with a failure.
Finish(i) ==
    /\ Running(i)
    /\ \/ /\ Step(i, "run") /\ recs[i].mic = "stopped" /\ UNCHANGED events
          /\ \E what \in {"text", "blank"} : recs' = [recs EXCEPT ![i] = Ended(@, what)]
       \/ /\ IF recs[i].token THEN UNCHANGED events ELSE Step(i, "run") /\ Event
          /\ recs' = [recs EXCEPT ![i] = Ended(@, "bad")]
    /\ active' = 0
    /\ UNCHANGED <<inline, sessions, down, actor>>

Done(i) == recs' = [recs EXCEPT ![i].task = "done"]

\* complete_inline_dictation with a transcript
TellText(i) ==
    /\ Step(i, "text")
    /\ IF recs[i].target = "Companion" THEN Done(i) /\ UNCHANGED inline
       ELSE /\ owner' = 0 /\ UNCHANGED held
            /\ IF session.kind = "dictation"
               THEN /\ session' = NoSession
                    /\ recs' = Wiped([recs EXCEPT ![i].task = "done", ![i].into = session.id])
               ELSE recs' = Wiped([recs EXCEPT ![i].task = "wipe"]) /\ UNCHANGED session
    /\ UNCHANGED <<active, sessions, down, actor, events>>

\* complete_inline_dictation without one
TellBlank(i) ==
    /\ Step(i, "blank")
    /\ IF recs[i].target = "Companion" THEN Done(i) /\ UNCHANGED inline
       ELSE /\ owner' = 0 /\ UNCHANGED held
            /\ session' = IF session.kind = "dictation" THEN NoSession ELSE session
            /\ recs' = Wiped([recs EXCEPT ![i].task = "done"])
    /\ UNCHANGED <<active, sessions, down, actor, events>>

\* The failure leaves the session behind.
TellBadFaulty(i) ==
    /\ Step(i, "bad")
    /\ recs' = [recs EXCEPT ![i].task = IF recs[i].mic = "none" /\ recs[i].modifier THEN "wipe"
                                        ELSE "done"]
    /\ UNCHANGED <<active, inline, sessions, down, actor, events>>

\* cancel_inline_after_terminal, of a failure or an overflow
TellBad(i) ==
    /\ Step(i, "bad")
    /\ LET after == [recs EXCEPT ![i].task = IF @ = "bad" /\ recs[i].mic = "none" /\ recs[i].modifier
                                             THEN "wipe" ELSE "done"] IN
       IF recs[i].target = "Inline" THEN CancelDictation /\ recs' = Wiped(after)
       ELSE recs' = after /\ UNCHANGED inline
    /\ UNCHANGED <<active, sessions, down, actor, events>>

\* cancel_inline_modifier_target
TaskWipe(i) ==
    /\ Step(i, "wipe")
    /\ CancelAll
    /\ recs' = Wiped([recs EXCEPT ![i].task = "done"])
    /\ UNCHANGED <<active, sessions, down, actor, events>>

Task(i) ==
    \/ Open(i) \/ AttachCapture(i) \/ Overflow(i) \/ Overflowed(i) \/ Stall(i) \/ Finish(i)
    \/ TellText(i) \/ TellBlank(i) \/ TellBad(i) \/ TaskWipe(i)

TaskOf(i) == i \in DOMAIN recs /\ Task(i)
LimitOf(i) == i \in DOMAIN recs /\ Limit(i)

Flow(a) == CancelRec(a) \/ Emit(a) \/ Effect(a) \/ Wipe(a)

Next ==
    \/ HoldStarted \/ Aim \/ Reserve \/ Attach \/ Abort \/ HoldReleased \/ Finalize
    \/ GestureCancels \/ Taken \/ Rewrite
    \/ \E a \in Actors : Flow(a)
    \/ Start \/ FinalizeActive \/ CancelActive \/ Dismiss \/ StopMonitor
    \/ \E i \in 1..MaxRecordings : TaskOf(i) \/ LimitOf(i)

Spec == Init /\ [][Next]_vars

\* Handlers and tasks go on, a session that is not stalled ends once its
\* microphone is stopped or it is cancelled (see AudioStream), and the timer
\* fires.  Nobody has to release a key or to press a button.
Fairness ==
    /\ WF_vars(Aim) /\ WF_vars(Reserve) /\ WF_vars(Attach) /\ WF_vars(Abort)
    /\ WF_vars(Finalize) /\ WF_vars(Taken) /\ WF_vars(Rewrite)
    /\ \A a \in Actors : WF_vars(Flow(a))
    /\ \A i \in 1..MaxRecordings :
          /\ WF_vars(TaskOf(i))
          /\ WF_vars(LimitOf(i))

FairSpec == Spec /\ Fairness

-----------------------------------------------------------------------------
(***************************************************************************)
(* Properties.                                                             *)
(***************************************************************************)
\* complete, fail, request_cancel and overflow_active race for the end of a
\* recording: the windows hear of exactly one.
OneEnding ==
    \A i \in DOMAIN recs :
        /\ recs[i].ends <= 1
        /\ recs[i].task = "done" => recs[i].ends = 1

\* complete releases the coordinator before the text is delivered: it goes into
\* the session of its own hold or nowhere, unless its hold was cancelled and the
\* text came before the cancellation was through.
TextGoesHome ==
    \A i \in DOMAIN recs :
        recs[i].into \in {0, recs[i].home} \/ recs[i].left \/ recs[i].wiped

AllIdle ==
    /\ active = 0 /\ \A a \in Actors : At(a, "idle")
    /\ \A i \in DOMAIN recs : Step(i, "done")

\* "Hold the selected modifier while speaking": with nothing under way, the
\* next hold is heard.
HoldIsHeard == AllIdle /\ ~down => ~held /\ owner = 0

\* The same, unless the hold was for the companion, or was cancelled between its
\* reservation and its attachment.
HoldIsHeardInline ==
    AllIdle /\ ~down /\ owner # 0 => recs[owner].target = "Companion" \/ recs[owner].wiped

\* No dictation session outlives what it was begun for.
SessionsEnd == AllIdle /\ ~down => session.kind # "dictation"

\* A microphone that a hold opened is off once the key was let go and what that
\* began is through, unless a cancellation meant for something else passed over
\* the hold: then it is open up to MAX_TRANSCRIPTION_DURATION.
MicrophoneOff ==
    ~down /\ (\A a \in Actors : At(a, "idle")) =>
        \A i \in DOMAIN recs :
            recs[i].modifier /\ Running(i) /\ recs[i].mic = "open" /\ ~recs[i].token =>
                recs[i].wiped

\* Whatever the user does or leaves undone, the microphone of every recording is off in
\* the end, and every recording ends unless it is stalled: no timer ends that one, only
\* a cancellation does, and no other recording starts before.
UnderWay(i) == i \in DOMAIN recs /\ ~Step(i, "done")
Listens(i) == UnderWay(i) /\ recs[i].mic = "open"
Stuck(i) == UnderWay(i) /\ Step(i, "stalled") /\ ~recs[i].token
RecordingsEnd ==
    \A i \in 1..MaxRecordings :
        /\ Listens(i) ~> ~Listens(i)
        /\ UnderWay(i) ~> ~UnderWay(i) \/ Stuck(i)
=============================================================================
