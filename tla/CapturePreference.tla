--------------------------- MODULE CapturePreference ---------------------------
(***************************************************************************)
(* Whether capture is paused is known three times: in the preferences of   *)
(* the desktop process, which its file always agrees with; in the daemon,  *)
(* whose controller starts as its arguments say; and on the label of the   *)
(* tray menu.  The commands that move it (pause, resume, both ends of the  *)
(* onboarding, the query) and the replay that the supervisor makes in each *)
(* generation run one at a time under capture_transition, and talk to the  *)
(* daemon over requests that the desktop gives up after fifteen seconds: a *)
(* request given up may still be carried out.                              *)
(*                                                                         *)
(* `told` is a history variable: the label was last set from the daemon's  *)
(* own word, and nothing has happened since that the desktop could not     *)
(* have seen.                                                              *)
(***************************************************************************)
EXTENDS Naturals

CONSTANTS
    Commands,     \* bound: commands the windows and the tray issue, each once
    Syncs,        \* bound: replays of the preference in flight
    MaxFaults     \* bound: requests given up, failed writes, lost daemons

VARIABLES
    pref,         \* Preferences: [paused, done]
    live,         \* the daemon's CaptureController is paused
    tray,         \* the label says paused
    lock,         \* who holds capture_transition
    task,         \* per task: [kind, at, goal, after]
    wire,         \* requests the daemon has not taken yet
    applied,      \* applied_generation is the current generation
    inFlight,     \* the replay that in_flight_generation stands for
    told,
    hiccups       \* the faults so far

vars == <<pref, live, tray, lock, task, wire, applied, inFlight, told, hiccups>>

None == "none"
Tasks == Commands \cup Syncs
Kinds == {"pause", "resume", "skip", "finish", "query", "replay"}
Places == {"idle", "waiting", "enter", "request", "posted", "carried", "overtaken",
           "observe", "ended"}
\* What the task does with the outcome of its request.
Afters == {"leave", "save", "undo", "restore"}
Preferences == [paused : BOOLEAN, done : BOOLEAN]
Requests == [from : Tasks, goal : BOOLEAN, late : BOOLEAN]
Idle == [kind |-> "query", at |-> "idle", goal |-> FALSE, after |-> "leave"]

TypeOK ==
    /\ pref \in Preferences /\ live \in BOOLEAN /\ tray \in BOOLEAN
    /\ lock \in Tasks \cup {None}
    /\ task \in [Tasks -> [kind : Kinds, at : Places, goal : BOOLEAN, after : Afters]]
    /\ wire \subseteq Requests
    /\ applied \in BOOLEAN /\ inFlight \in Syncs \cup {None}
    /\ told \in BOOLEAN /\ hiccups \in 0..MaxFaults

Init ==
    /\ pref \in Preferences
    /\ live \in BOOLEAN
    /\ tray = pref.paused
    /\ lock = None
    /\ task = [t \in Tasks |-> Idle]
    /\ wire = {}
    /\ applied = FALSE /\ inFlight = None
    /\ told = FALSE
    /\ hiccups = 0

Fault == hiccups < MaxFaults /\ hiccups' = hiccups + 1
Become(t, changes) == task' = [task EXCEPT ![t] = changes]
At(t, place) == Become(t, [task[t] EXCEPT !.at = place])

-----------------------------------------------------------------------------
(***************************************************************************)
(* Who enters: the commands, and the replay of each generation.            *)
(***************************************************************************)
Issue(t) ==
    /\ t \in Commands /\ task[t].at = "idle"
    /\ \E k \in Kinds \ {"replay"} : Become(t, [Idle EXCEPT !.kind = k, !.at = "waiting"])
    /\ UNCHANGED <<pref, live, tray, lock, wire, applied, inFlight, told, hiccups>>

\* CapturePauseSync::begin, from a healthy phase.
BeginReplay(t) ==
    /\ t \in Syncs /\ task[t].at = "idle"
    /\ ~applied /\ inFlight = None
    /\ inFlight' = t
    /\ Become(t, [Idle EXCEPT !.kind = "replay", !.at = "waiting"])
    /\ UNCHANGED <<pref, live, tray, lock, wire, applied, told, hiccups>>

\* The lock is not waited for.
AcquireShared(t) ==
    /\ task[t].at = "waiting"
    /\ lock' = t
    /\ At(t, "enter")
    /\ UNCHANGED <<pref, live, tray, wire, applied, inFlight, told, hiccups>>

Acquire(t) ==
    /\ task[t].at = "waiting" /\ lock = None
    /\ lock' = t
    /\ At(t, "enter")
    /\ UNCHANGED <<pref, live, tray, wire, applied, inFlight, told, hiccups>>

\* A replay that failed stays in flight.
FinishReplayFaulty(t, succeeded) ==
    /\ applied' = IF inFlight = t THEN succeeded ELSE applied
    /\ inFlight' = IF inFlight = t /\ succeeded THEN None ELSE inFlight

\* CapturePauseSync::finish, which a newer generation makes idle.
FinishReplay(t, succeeded) ==
    /\ applied' = IF inFlight = t THEN succeeded ELSE applied
    /\ inFlight' = IF inFlight = t THEN None ELSE inFlight

\* The command returns and drops the lock; a replay's task may serve again.
Leave(t, succeeded) ==
    /\ lock' = None
    /\ Become(t, IF t \in Syncs THEN Idle ELSE [Idle EXCEPT !.at = "ended"])
    /\ IF t \in Syncs THEN FinishReplay(t, succeeded) ELSE UNCHANGED <<applied, inFlight>>

Ask(t, goal, after) ==
    /\ Become(t, [task[t] EXCEPT !.at = "request", !.goal = goal, !.after = after])
    /\ UNCHANGED <<lock, applied, inFlight>>

-----------------------------------------------------------------------------
(***************************************************************************)
(* What each command does first.                                           *)
(***************************************************************************)
\* UiState::update: the file is replaced before the value in memory.
Write(next) == pref' = next /\ UNCHANGED hiccups
WriteFails == Fault /\ UNCHANGED pref

EnterPause(t) ==
    /\ task[t].at = "enter"
    /\ \/ task[t].kind = "pause"
       \/ task[t].kind = "skip" /\ ~pref.done
    /\ \/ Write([pref EXCEPT !.paused = TRUE])
          /\ Ask(t, TRUE, IF task[t].kind = "skip" THEN "save" ELSE "leave")
       \/ WriteFails /\ Leave(t, FALSE)
    /\ UNCHANGED <<live, tray, wire, told>>

EnterResume(t) ==
    /\ task[t].at = "enter" /\ task[t].kind = "resume"
    /\ Ask(t, FALSE, "save")
    /\ UNCHANGED <<pref, live, tray, wire, told, hiccups>>

\* synchronize_persisted_capture_pause
EnterReplay(t) ==
    /\ task[t].at = "enter" /\ task[t].kind = "replay"
    /\ Ask(t, pref.paused, "leave")
    /\ UNCHANGED <<pref, live, tray, wire, told, hiccups>>

\* The preflight of finish_onboarding may refuse, or not answer.
EnterFinish(t) ==
    /\ task[t].at = "enter" /\ task[t].kind = "finish" /\ ~pref.done
    /\ Ask(t, FALSE, "save") \/ Leave(t, FALSE)
    /\ UNCHANGED <<pref, live, tray, wire, told, hiccups>>

\* An onboarding that was done already shows the preference, whatever the
\* daemon answers.
EnterDone(t) ==
    /\ task[t].at = "enter" /\ task[t].kind \in {"skip", "finish"} /\ pref.done
    /\ tray' = pref.paused
    /\ told' = FALSE
    /\ Leave(t, TRUE)
    /\ UNCHANGED <<pref, live, wire, hiccups>>

\* capture_is_paused
EnterQuery(t) ==
    /\ task[t].at = "enter" /\ task[t].kind = "query"
    /\ \/ tray' = live /\ told' = TRUE /\ UNCHANGED hiccups
       \/ tray' = pref.paused /\ told' = FALSE /\ Fault
    /\ Leave(t, TRUE)
    /\ UNCHANGED <<pref, live, wire>>

-----------------------------------------------------------------------------
(***************************************************************************)
(* request_capture_transition, and the daemon's side of it.                *)
(***************************************************************************)
Post(t) ==
    /\ task[t].at = "request"
    /\ wire' = wire \cup {[from |-> t, goal |-> task[t].goal, late |-> FALSE]}
    /\ At(t, "posted")
    /\ UNCHANGED <<pref, live, tray, lock, applied, inFlight, told, hiccups>>

\* capture_pause and capture_resume in the daemon: requests on different
\* connections are carried out in any order.
CarryOut(r) ==
    /\ r \in wire
    /\ wire' = wire \ {r}
    /\ live' = r.goal
    /\ IF r.late
       THEN /\ told' = FALSE
            /\ task' = [t \in Tasks |-> IF task[t].at = "carried"
                                       THEN [task[t] EXCEPT !.at = "overtaken"] ELSE task[t]]
       ELSE At(r.from, "carried") /\ UNCHANGED told
    /\ UNCHANGED <<pref, tray, lock, applied, inFlight, hiccups>>

\* A resume is refused while Accessibility is not ready in the daemon.
Refuse(r) ==
    /\ r \in wire /\ ~r.goal
    /\ wire' = wire \ {r}
    /\ IF r.late THEN UNCHANGED task ELSE At(r.from, "observe")
    /\ UNCHANGED <<pref, live, tray, lock, applied, inFlight, told, hiccups>>

GiveUp(t) ==
    /\ task[t].at \in {"posted", "carried", "overtaken"}
    /\ Fault
    /\ wire' = {[r EXCEPT !.late = @ \/ r.from = t] : r \in wire}
    /\ At(t, "observe")
    /\ UNCHANGED <<pref, live, tray, lock, applied, inFlight, told>>

\* What follows the outcome of the request.
Undo(t) == Ask(t, TRUE, "undo") /\ UNCHANGED <<pref, hiccups>>

Finished == [paused |-> FALSE, done |-> TRUE]
Saved(kind) ==
    CASE kind = "skip"   -> [pref EXCEPT !.done = TRUE]
      [] kind = "resume" -> [pref EXCEPT !.paused = FALSE]
      [] kind = "finish" -> Finished

Succeeded(t) ==
    \/ task[t].after \in {"leave", "undo"} /\ Leave(t, TRUE) /\ UNCHANGED <<pref, hiccups>>
    \/ /\ task[t].after = "restore"
       /\ \/ Write([paused |-> TRUE, done |-> FALSE])
          \/ WriteFails
       /\ Leave(t, FALSE)
    \/ /\ task[t].after = "save"
       /\ \/ Write(Saved(task[t].kind)) /\ Leave(t, TRUE)
          \/ WriteFails /\ IF task[t].kind = "finish" THEN Ask(t, TRUE, "restore")
                                                      ELSE Leave(t, FALSE)
    \/ task[t].after = "save" /\ task[t].kind = "finish" /\ Undo(t)

Answer(t) ==
    /\ task[t].at \in {"carried", "overtaken"}
    /\ tray' = task[t].goal
    /\ told' = (task[t].at = "carried")
    /\ Succeeded(t)
    /\ UNCHANGED <<live, wire>>

\* A failed request shows what the daemon says, or else the opposite of what
\* was wanted; the attempts to undo say paused in any case.
Observe(t) ==
    /\ task[t].at = "observe"
    /\ \/ tray' = live /\ told' = TRUE /\ UNCHANGED hiccups
       \/ tray' = ~task[t].goal /\ told' = FALSE /\ Fault
    /\ CASE task[t].kind = "finish" /\ task[t].after = "save" -> Ask(t, TRUE, "undo")
         [] OTHER -> Leave(t, FALSE)
    /\ task[t].after \notin {"undo", "restore"}
    /\ UNCHANGED <<pref, live, wire>>

ObserveUndo(t) ==
    /\ task[t].at = "observe" /\ task[t].after \in {"undo", "restore"}
    /\ tray' = TRUE
    /\ told' = FALSE
    /\ \/ task[t].after = "undo" /\ UNCHANGED <<pref, hiccups>>
       \/ /\ task[t].after = "restore"
          /\ \/ Write([paused |-> TRUE, done |-> FALSE])
             \/ WriteFails
    /\ Leave(t, FALSE)
    /\ UNCHANGED <<live, wire>>

-----------------------------------------------------------------------------
(***************************************************************************)
(* The daemon is replaced: by the supervisor, in a new generation, started *)
(* as the preference says at some moment of the attempt; or, if it is not  *)
(* the supervisor's, by somebody else between two probes.                  *)
(***************************************************************************)
Interrupted ==
    task' = [t \in Tasks |-> IF task[t].at \in {"posted", "carried", "overtaken"}
                             THEN [task[t] EXCEPT !.at = "observe"] ELSE task[t]]

NewDaemon ==
    /\ Fault
    /\ live' \in BOOLEAN
    /\ wire' = {} /\ told' = FALSE
    /\ Interrupted
    /\ \/ applied' = FALSE /\ inFlight' = None
       \/ UNCHANGED <<applied, inFlight>>
    /\ UNCHANGED <<pref, tray, lock>>

Next ==
    \/ \E t \in Tasks :
          \/ Issue(t) \/ BeginReplay(t) \/ Acquire(t)
          \/ EnterPause(t) \/ EnterResume(t) \/ EnterReplay(t)
          \/ EnterFinish(t) \/ EnterDone(t) \/ EnterQuery(t)
          \/ Post(t) \/ GiveUp(t) \/ Answer(t) \/ Observe(t) \/ ObserveUndo(t)
    \/ \E r \in wire : CarryOut(r) \/ Refuse(r)
    \/ NewDaemon


\* A replay is begun at every healthy probe; requests are answered or given up,
\* a failed one shows something; commands take the lock in turn.
Fairness ==
    /\ \A t \in Syncs : WF_vars(BeginReplay(t))
    /\ \A t \in Tasks :
          /\ SF_vars(Acquire(t))
          /\ WF_vars(EnterPause(t) \/ EnterResume(t) \/ EnterReplay(t) \/ EnterFinish(t)
                     \/ EnterDone(t) \/ EnterQuery(t))
          /\ WF_vars(Post(t)) /\ WF_vars(Answer(t)) /\ WF_vars(Observe(t) \/ ObserveUndo(t))
    /\ WF_vars(\E r \in wire : CarryOut(r))

Spec == Init /\ [][Next]_vars
FairSpec == Spec /\ Fairness

-----------------------------------------------------------------------------
(***************************************************************************)
(* Properties.                                                             *)
(***************************************************************************)
\* Once no transition is under way, a label and a preference that both say
\* paused are true of the daemon that runs: capture never goes on behind them.
\* The exceptions are the ones `told` and a request given up stand for.
PauseHolds ==
    lock = None /\ told /\ pref.paused /\ tray => live

\* CapturePauseSync: a daemon that has not been told that capture is paused is
\* told in the end, however many replays failed or were overtaken.  (A resume
\* may be refused for ever.)
PauseReplayed ==
    (pref.paused /\ ~applied) ~> (applied \/ ~pref.paused)
=============================================================================
