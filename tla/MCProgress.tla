---- MODULE MCProgress ----
(* What must happen in the end, in parts of the system that share no state with one another:
   Init chooses one part, only that part takes steps, and the others stay in an initial
   state. The storage recovery is the module's own (EXTENDS); the other parts are instances
   with their bounds. Each property holds under the fairness its part states. *)
EXTENDS StorageRecovery

CONSTANTS
    c1, c2, sync,                    \* pause commands and the replay to a new daemon
    w1, w2,                          \* runs that wait for the key
    dailyRule, flag                  \* a reminder and a task without a date

VARIABLES
    component,
    pref, pauseLive, tray, lock, task, pauseWire, applied, inFlight, told, hiccups,
    stopped, failure, worker, frames, dropped, cancelled, streamSession, pending, finished,
    streamSent, commands, client, attempt, turn, deadline, item, streamEvents, shown, result,
    streamFaults,
    holdActive, recs, held, owner, holdSession, sessions, down, actor, holdEvents,
    sending, chatActive, received, cancelling, responses, requests, chatCurrent, chatEvents,
    chatFaults,
    caller, lookupHolder, joined, heard, cached, lookupCurrent, lookups, stored, runs,
    memoryNow, rows, capture, chronicle, epoch, run, reset, erases, memoryFaults,
    nudgeNow, rules, nudges, enabled, running, poll, panel, submitted, opening, saves,
    nudgeFaults,
    bridgeSent, bridgeWire, closed, bridgePc, mode, counted, bridgeCurrent, initialized, proved,
    launches, waited, elapsed, answers, listener, changes, tokens

Components == {"storage", "pause", "stream", "dictation", "chat", "lookup",
               "memory", "nudges", "bridge"}

TwoIncidents == 1..2

Pause == INSTANCE CapturePreference WITH
    Commands <- {c1, c2}, Syncs <- {sync}, MaxFaults <- 1, live <- pauseLive, wire <- pauseWire

Stream == INSTANCE AudioStream WITH
    FRAME_BUFFER_CAPACITY <- 2, AUDIO_COMMAND_CAPACITY <- 2, MAX_CONNECT_ATTEMPTS <- 2,
    MaxFaults <- 1, session <- streamSession, sent <- streamSent, events <- streamEvents,
    faults <- streamFaults

Hold == INSTANCE Dictation WITH
    MaxRecordings <- 1, MaxSessions <- 1, MaxEvents <- 1, active <- holdActive,
    session <- holdSession, events <- holdEvents

Talk == INSTANCE Chat WITH
    MAX_ATTEMPTS <- 2, MAX_TOOL_ROUNDS <- 1, MaxRequests <- 1, MaxChunks <- 1, MaxFaults <- 1,
    active <- chatActive, current <- chatCurrent, events <- chatEvents, faults <- chatFaults

Lookup == INSTANCE KeyLookup WITH
    Waiters <- {w1, w2}, MaxLookups <- 2, MaxRuns <- 2, holder <- lookupHolder,
    current <- lookupCurrent

Memory == INSTANCE MemoryScheduler WITH
    BACKFILL <- 1, RETENTION <- 0, MaxHour <- 4, MaxRows <- 1, MAX_HOUR_SNAPSHOTS <- 1,
    PROMPT_ROWS <- 1, MaxErases <- 1, MaxFaults <- 1,
    now <- memoryNow, faults <- memoryFaults

Nudge == INSTANCE Nudges WITH
    Rules <- {dailyRule}, Flags <- {flag}, Unshowable <- {}, Kinds <- {"daily"}, DAY <- 1,
    INTERVAL <- 2, RETENTION <- 2, LIMIT <- 1, MaxTime <- 0, MaxSaves <- 1, MaxNudges <- 1,
    MaxFaults <- 1, now <- nudgeNow, faults <- nudgeFaults

Bridge == INSTANCE McpBridge WITH
    MAX_LEADING_BLANK_LINES <- 1, MAX_HEADER_LINES <- 3, DAEMON_STARTUP_TIMEOUT <- 3,
    DAEMON_HEALTH_PROBE_TIMEOUT <- 2, DAEMON_HEALTH_POLL_INTERVAL <- 1,
    Methods <- {"initialize", "call"}, MaxFrames <- 2, MaxPadding <- 0, MaxChanges <- 1,
    sent <- bridgeSent, wire <- bridgeWire, pc <- bridgePc, current <- bridgeCurrent

pauseVars == <<pref, pauseLive, tray, lock, task, pauseWire, applied, inFlight, told, hiccups>>
streamVars == <<stopped, failure, worker, frames, dropped, cancelled, streamSession, pending,
                finished, streamSent, commands, client, attempt, turn, deadline, item, streamEvents, shown,
                result, streamFaults>>
holdVars == <<holdActive, recs, held, owner, holdSession, sessions, down, actor, holdEvents>>
chatVars == <<sending, chatActive, received, cancelling, responses, requests, chatCurrent,
              chatEvents, chatFaults>>
lookupVars == <<caller, lookupHolder, joined, heard, cached, lookupCurrent, lookups, stored,
                runs>>
memoryVars == <<memoryNow, rows, capture, chronicle, epoch, run, reset, erases, memoryFaults>>
nudgeVars == <<nudgeNow, rules, nudges, enabled, running, poll, panel, submitted, opening,
               saves, nudgeFaults>>
bridgeVars == <<bridgeSent, bridgeWire, closed, bridgePc, mode, counted, bridgeCurrent,
                initialized, proved, launches, waited, elapsed, answers, listener, changes, tokens>>
allvars == <<component, vars, pauseVars, streamVars, holdVars, chatVars, lookupVars,
             memoryVars, nudgeVars, bridgeVars>>

\* A part that is not looked at starts in one of its initial states.
PartsInit ==
    /\ component \in Components
    /\ Init /\ (component # "storage" => live.source["wal"] = Absent)
    /\ Pause!Init
    /\ component # "pause" => pauseLive /\ pref = CHOOSE p \in Pause!Preferences : ~p.paused
    /\ Stream!Init
    /\ Hold!Init
    /\ Talk!Init
    /\ Lookup!Init /\ (component # "lookup" => stored)
    /\ Memory!Init
    /\ Nudge!Init /\ (component # "nudges" => enabled)
    /\ Bridge!Init
    /\ component # "bridge" => listener = CHOOSE l \in Bridge!Listeners : TRUE

Step ==
    /\ UNCHANGED component
    /\ IF component = "storage" THEN Next ELSE UNCHANGED vars
    /\ IF component = "pause" THEN Pause!Next ELSE UNCHANGED pauseVars
    /\ IF component = "stream" THEN Stream!Next ELSE UNCHANGED streamVars
    /\ IF component = "dictation" THEN Hold!Next ELSE UNCHANGED holdVars
    /\ IF component = "chat" THEN Talk!Next ELSE UNCHANGED chatVars
    /\ IF component = "lookup" THEN Lookup!Next ELSE UNCHANGED lookupVars
    /\ IF component = "memory" THEN Memory!Next ELSE UNCHANGED memoryVars
    /\ IF component = "nudges" THEN Nudge!Next ELSE UNCHANGED nudgeVars
    /\ IF component = "bridge" THEN Bridge!Next ELSE UNCHANGED bridgeVars

PartsSpec == PartsInit /\ [][Step]_allvars

\* A capture pause the user asked for holds, and each daemon is told of it in the end.
PauseKept ==
    /\ [](component = "pause" => Pause!TypeOK /\ Pause!PauseHolds)
    /\ component = "pause" /\ Pause!Fairness => Pause!PauseReplayed

\* A transcript is reported whole or not at all, and a recording that was stopped ends,
\* unless its loop waits for room that only it can make.
StreamSound ==
    /\ [](component = "stream" => Stream!TypeOK /\ Stream!TranscriptWhole)
    /\ component = "stream" /\ Stream!Fairness => Stream!StoppedEndsUnlessStalled

\* Every microphone is off in the end, every recording ends unless its session is stalled,
\* every chat request and every tool call ends, and an answer in several rounds is whole.
RequestsEnd ==
    /\ [](component = "chat" => Talk!AnswerWhole)
    /\ component = "dictation" /\ Hold!Fairness => Hold!RecordingsEnd
    /\ component = "chat" /\ Talk!Fairness => Talk!RequestsEnd
    /\ component = "bridge" /\ Bridge!Fairness => Bridge!CallsEnd

\* One key lookup runs at a time, every run that waits for it hears of its end, every period
\* with rows is summarised in the end, and a reminder that is ready is shown in the end.
BackgroundWorkDone ==
    /\ [](component = "lookup" => Lookup!TypeOK /\ Lookup!OneLookup)
    /\ component = "lookup" /\ Lookup!Fairness => Lookup!WaiterWakes
    /\ component = "memory" /\ Memory!Fairness => Memory!HistoryCatchesUp
    /\ component = "nudges" /\ Nudge!Fairness => Nudge!EveryNudgeShown
====
