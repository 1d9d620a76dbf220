# woof in TLA+

woof is a local memory for macOS: a daemon (`woof_d`) reads what is on the
screen, stores it in SQLite, lets a language model summarise it, and serves it
to a desktop application (Tauri), to an inline rewriter and to an MCP bridge.
This directory holds TLA+ modules translated from the Rust source, the TLC
configurations that check them on small instances, and theorems that TLAPS
checks for every value of the constants. `PROJECT.json` lists the runs, for each
property a mutated definition that violates it, the source lines behind each
definition, the disagreements met, and the hazards that the properties are for.

To check: `tlc -workers 2 -config gates.cfg MCDaemonData` (the other runs
likewise, the module of each is in the table of runs) and
`tlapm DaemonDataProofs.tla` (and the other modules with proofs, whose names end
in `Proofs`).

## Inventory

`src/apps/woof_d` is the daemon, `src/apps/woof` the desktop application,
`src/apps/woof-mcp` the MCP bridge, `src/crates/*` their libraries.

| component | state | operations | what is hard | what makes it correct |
|---|---|---|---|---|
| gates of the daemon (`woof_d/src/lib.rs`, `memory.rs`) | `capture_policy_gate`, `persisted_config`, `StorageMutationBarrier` with its `data_epoch`, `MemoryGenerationGate` | pause, resume, exclusions, retention, contextual read, delete-all | guards held across awaits and moved into blocking closures; a handler dropped at any await | no data is read or stored behind a pause or a deletion; no circular wait |
| capture task (`woof_d/src/lib.rs`, `woof-capture/src/engine.rs`) | pending merge window, active snapshot id, policy and epochs seen; time ledger and workflows | read the screen, merge, upsert, account | its own state outlives pauses, deletions and policy changes; clocks that go back | no row bridges a pause; an erased row is not recreated; no second counted twice |
| screen reader and redaction (`woof-capture/src/macos.rs`, `redact.rs`) | nothing that lasts | read a window in two passes, replace private values and put them back | the screen changes during the read; a model that alters placeholders | nothing of an excluded page is kept; no private value leaves |
| memory generation (`memory.rs`, `woof-storage`) | registered run tokens, chronicles, wiki pages, entities and relations | gather, complete (network), commit, roll up | minutes between the prompt and the commit; erasure in between | nothing that was removed survives in a summary; no partial roll-up; links are grounded |
| memory scheduler (`memory.rs`) | due and historical periods, key lookup in flight | plan, look up the key | waiters and cancellation of one shared lookup; rows that come late or do not fit | a summary lacks only rows that came late or did not fit; every period with rows is summarised in the end; no waiter is lost |
| retention | policy, cutoff | prune on request and periodically | a cutoff decided before a wait | what expired stays expired |
| storage recovery (`woof-storage/src/lib.rs`) | database, sidecar, incident directories with a phase file | reconcile, open or quarantine, purge | kills, power losses, unsynced renames, other processes | no original is lost before a purge; a start is never stuck |
| semantic index (`woof-search`, `semantic.rs`) | index in memory and on disk against the database | add, refresh, remove, rebuild, search | two stores, one of which may fail | no erased text stays searchable unless its deletion was answered with an error; no stale vector |
| reminders (`woof-storage`, `notifications.rs`) | rules, flags, nudges, cards | materialise, list, show, mark, dismiss | daemon and desktop fail apart | one per slot; shown once; dismissed for good; shown in the end |
| desktop supervisor (`supervisor.rs`) | machine, child, generation, deadline | probe, spawn, restart, back off, shut down | a mutex that is released around probes, spawns and kills | one child, noticed when it ends; service restored; no orphan |
| capture preference (`commands.rs`, `state.rs`) | persisted `capture_paused`, onboarding steps | pause, resume, replay to each new daemon | late requests, restarts | capture never goes on behind a label that says paused |
| inline rewriting (`inline.rs`, `commands.rs`, `woof-inline`) | session, progress marker, clipboard, modifier machine | gesture, capture, submit, retry, deliver, cancel | stale focus, late completions, other users of the clipboard | text goes where it was taken from, once; the clipboard comes back |
| transcription (`transcription.rs`, `woof-audio`, `realtime.rs`) | recordings, frame buffers, turns | reserve, attach, finalize, cancel, reconnect | late events, overflow, a stalled loop, a hold released early | one ending; the text goes home; the microphone closes |
| chat (`commands.rs`, `woof-llm`, `Companion.svelte`) | request, rounds, token, shown text | send, stream, call tools, cancel | cancellation against streamed deltas | an answer is whole; requests end |
| MCP bridge (`woof-mcp`) | framing, session, gate | read, answer, probe, launch, ask | two framings, a daemon that hangs or is somebody else's | one answer per request in order; the token goes to a proven daemon |
| companion panel (`companion_panel.rs`, `commands.rs`, `Companion.svelte`) | mode and pending requests of the window; frame, dock and drag of the panel | open, collapse, drag, redock, hover | the window changes first and asks afterwards; openings from outside | panel and window agree at rest; the pointer is known |
| router and authentication, configuration, login item, scripts, vendored `wry` | | | stateless, or one call each | left to unit tests |

How they interact: the desktop talks to the daemon only by authenticated HTTP on
port 3334, and owns it as a child process whose standard input it holds open.
Inside the daemon, handlers, capture task, retention task and memory runs share
the storage behind the gates. The daemon binds the port first and opens the
storage second, so that the recovery protocol never runs in two daemons. The
MCP bridge is a third process, which opens the application when no daemon
proves itself.

## Modules

| module | extends / instantiates | what it is |
|---|---|---|
| `FairLocks` | | tokio's fair `RwLock` and `Mutex`: a queue of requests, granted in order. External: modelled from how the daemon uses them. |
| `DaemonData` | `FairLocks` | every task of the daemon that touches captured data. |
| `DaemonDataProofs` | `DaemonData`, `TLAPS` | what a queue of a fair lock preserves; type correctness; the safety theorems: locks, pauses, erasure, exclusion, sessions, retention, memory. |
| `DatabaseVault` | | the abstract promise of the recovery: versions of the database are usable, displaced or purged. |
| `StorageRecovery` | `DatabaseVault` (INSTANCE) | the recovery protocol, step by step on a file system that can lose unsynced entries. |
| `StorageRecoveryProofs` | `StorageRecovery`, `WellFoundedInduction`, `TLAPS` | type correctness; a usable database is not removed; originals are kept; a purge is final; the recovery implements `DatabaseVault`; what a start finds. |
| `Supervisor` | | `DaemonSupervisor` and the processes it starts. |
| `SupervisorProofs` | `Supervisor`, `TLAPS` | its type correctness and its safety theorems. |
| `CapturePreference` | | the preference, its commands under one lock, its replay to each daemon. |
| `MemoryScheduler` | | due and historical periods, hours and roll-ups against captures, retention and erasure. |
| `KeyLookup` | | the shared key lookup: coordinator, waiters, registration before inspection. |
| `WikiMemory` | | pages, entities and relations one hour derives and commits. |
| `WorkLedger` | | durations of captures in hourly buckets, recurring patterns and their reminders. |
| `Nudges` | | rules and flags that fall due in the daemon, shown and marked by the desktop. |
| `SearchIndex` | | the vector index in memory and on disk beside the database; hybrid search. |
| `CaptureReader` | | the two passes over a window that may change at any node. |
| `Redaction` | | placeholders: redact, send, validate, restore. |
| `Gestures` | | abstract: a hold begins, then is released or cancelled; taps in between. |
| `ModifierMonitor` | `Gestures` (INSTANCE) | event tap, its queue and flags, and the gesture machine, which implement it. |
| `InlineDelivery` | | one delivery of a text by accessibility or by the clipboard, against a live target. |
| `InlineRewrite` | | sessions of a rewrite, progress marker, controller window, requests and retries. |
| `Dictation` | | inline sessions and recordings, the talk key, the coordinator and its tasks. |
| `DictationProofs` | `Dictation`, `TLAPS` | one ending, text that goes home, no session and no microphone left. |
| `AudioStream` | | one audio session: frames, overflow, commands, turns, reconnects. |
| `Chat` | | requests with tool rounds and retries, and the window that shows them. |
| `ChatProofs` | `Chat`, `TLAPS` | an answer is whole; one request lives at a time. |
| `McpBridge` | | both framings, the MCP session, the daemon gate, tool calls. |
| `CompanionPanel` | | the companion window's modes and requests, and the panel's frame, dock, drags and pointer. |
| `MCDaemonData`, `MCStorageRecovery`, `MCSupervisor` | their component | the small instances of one component. |
| `MCDaemonParts` | `StorageRecovery` (EXTENDS), six INSTANCEs | seven parts of the daemon side by side. |
| `DaemonPartsProofs` | `MCDaemonParts`, `FiniteSetTheorems`, `WellFoundedInduction`, `TLAPS`, an INSTANCE of proofs | no summary without its parts, none over removed rows; retention: for the parts side by side. |
| `MCDesktopParts` | `McpBridge` (EXTENDS), eight INSTANCEs | nine parts around the user side by side. |
| `DesktopPartsProofs` | `MCDesktopParts`, `FiniteSetTheorems`, `TLAPS`, two INSTANCEs of proofs | the theorems about the chat, the dictation, the delivery, the reader and the rewrite, for the parts side by side. |
| `DesktopEdgesProofs` | `MCDesktopParts`, `FiniteSetTheorems`, `TLAPS` | the theorems about the parts to which others speak first: the bridge, the modifier keys and the panel. |
| `MCProgress` | `StorageRecovery` (EXTENDS), eight INSTANCEs | what must end or come in the end, in nine parts. |

### DaemonData

A task (`Cap`, `Pruner`, one per memory run, one per HTTP request) has a place
`pc[t]`; an action is the code between two awaits. `lock` holds the six locks;
`Await` joins a queue, and an action guarded by `Holds` continues after the
grant. `Disconnect` is axum dropping the future of a handler: it is possible at
every place where the future is polled, and impossible inside the closures and
spawned tasks that own their guards. `control` is `CaptureController` with the
settings in force, `loop` the locals of the capture task, `rows` the snapshots
table, `chronicle` the snapshot ids behind the committed hour memory, `run` what
a memory run has read, `history` what the properties remember.

Time is counted in observations: screen read number n is observation n, a
snapshot is the interval it merged, and a retention policy is a number of
observations. Merging (`CapturePipeline::process`) depends on the application
and on one boolean, within the window or not; similarity and redaction are data.
`PruneFails` is an error after the commit of the transaction (checkpoint or
VACUUM) when `VacuumMayFail`, otherwise an error before it.

### StorageRecovery

`live` is the file system as processes see it, `disk` what is on the medium,
`unsynced` which directory entries may still be undone. A `Crash` kills the
process and keeps `live`; a `PowerLoss` chooses for each unsynced entry whether
it survives. Versions of the database are numbered; copies are `Partial` while
being written and `Zeroed` once overwritten by the purge. `Contested` lets
another process write, replace or remove the database and its sidecar at any
moment; `TornState` lets a kill fall between overwriting and unlinking a
`state.json`, which the purge does in two steps and the other runs in one.

A removal compares the identity of a file in one step (`RemoveCompared`) and unlinks
whatever has its name in another (`RemoveOriginal`). What another process writes in
between is lost, in the code as in the model (storage lib.rs:3165-3167);
`history.overtaken` remembers such versions, and the properties except them and
nothing else. An original that somebody removes in between ends the start
(`RemoveFailed`).

Abstractions that a reader should know: the writes of a killed process reach
the medium before a later power loss; the quarantine root exists; the limit of
256 incidents (storage lib.rs:3434) is never met. Without the first, a kill
between the rename of a `Ready` phase and the sync of its directory, a restart
that finalizes, and then a power loss would undo the phase after the originals
were removed (lib.rs:3124).

### Supervisor

Each critical section of the `Mutex` is one action; each health probe, spawn and
kill outside of it is an action of its own (`Probe`, `Check`, `Spawn`, `Kill`),
so that everything may happen in between. The monitor, the `daemon_health`
commands, the sleeping tasks of `schedule_restart` and the shutdown are tasks.
The `u64` generation is compared only with the value a task took with it; the
model keeps who holds the current value (`current`), and a new generation takes
it from all. `daemon` says what became of each process: `starting` (not bound
yet), `opening` (bound, storage not open), `up`, `hung` (does not answer),
`killed` (may still hold the port and answer), `gone`. `External` is a `woof_d`
that somebody else started. Left out: counters and exit codes for display, the
length of the backoff, what the panel shows (decided under the lock and shown
after it, so that two tasks may show their decisions in the opposite order), and
the probes with which a manual restart waits for the old child. The replay of
the preference is a module of its own.

### CapturePreference

`pref` is the file and `UiState`, `live` the daemon's flag, `tray` the label,
`wire` the requests the daemon has not carried out. A command takes
`capture_transition` (`lock`), and its place `at` is the next await. A request
that was given up stays on the wire and may be carried out late. `told` is a
ghost: the label was set from an answer of the daemon that runs and no late
request came after it. `NewDaemon` is a replacement by the supervisor (which
starts `CapturePauseSync` afresh) or by somebody else (which does not).

### MemoryScheduler, KeyLookup, WikiMemory, WorkLedger

`MemoryScheduler` counts time in hours; an hour, a week of two hours and a month
of three stand for the five levels, since each level relates only to the one
below.
`Containing`, `Children`, `Due`, `Cutoff` and `Historical` are the pure
functions of `memory.rs`; `Consider` is one period of `run_due_once` up to its
network call, `Commit` what follows under the barrier. `chronicle` remembers with
each summary the rows it was made from (`of`) and those there were when it was
begun (`known`). An hour is made from at most `MAX_HOUR_SNAPSHOTS` rows
(memory.rs:219) and from what fits into a prompt of 60,000 characters (memory.rs:220):
`Fits` lets any set be read that is the whole hour or has at least `PROMPT_ROWS`
rows. A capture is observed (`Observe`, `Coalesce`) and persisted later
(`Persist`), with the time at which its sequence began; so a row may come into an
hour that has its summary, or be refreshed after it.

`KeyLookup` has one action per poll of `wait`: registering with the `Notify`,
inspecting the outcome, awaiting; `Take` and `Abandon` are the finish of the
lookup and the cancellation of a run that waits.

`WikiMemory` abstracts a name to its slug and its evidence: which entities the
snapshots of an hour name, alone and together. `Upsert`, `Insert` and `Related`
are the statements of `commit_hour_memory` with their conflict targets.

`WorkLedger` counts half seconds; the ledger maps hour and title to time.
`Spread` is `record_time_ledger_delta`, stated as the part of the interval that
lies in each hour. `ids`, `elapsed`, `backwards`, `announced` and `bounds` are
ghosts of its properties.

### Nudges, SearchIndex

`Nudges` composes the automation task of the daemon with the poll of the
desktop. A nudge's key is `<<"rule", rule, slot>>` or `<<"flag", flag, 0>>`; its
status goes from pending to ready, delivered, seen, dismissed or expired.
`submitted` counts what the notification centre was asked to show. woof, the
menu-bar program with its daemon, may be quit between two requests.

`SearchIndex` holds `rows` (SQLite), `memory` and `disk` (the index),
`failed`, the rows whose capture or deletion was answered with an error before the
index followed, and `masked`, rows whose text changed within the second that the
container has of them while the container was not saved. Captures may follow one
another within a second, and the clock may go back. A deletion may commit and then
leave the index alone (`NotRebuilt`: VACUUM, checkpoint or export fail), and a
container that cannot be saved may withstand its removal, too (`Rebuild`). A vector
is its text and the revision of the embedding; its neighbours are any order of the
candidates.
`Rank` and `Score` translate the fusion of the two rankings.

### CaptureReader, Redaction

`CaptureReader` reads a window of one document with a frame in it, element by
element; the user may switch windows, navigate page or frame, refocus, show a
protected field or lock the screen between any two calls. `urls` and `urlsAgain`
are the two walks whose observations must agree, `text` what was copied and
from which page. `past` is everything the screen has shown since the capture began
that the reader could have asked for, and `returned` that something of it came
back after it had gone: questions asked at two moments cannot tell that from a
screen that stood still, so the properties leave such captures aside.

`Redaction` treats a text as a sequence of items: plain words, private values
and labelled secrets, which may lie in one another. The model's answer is any
sequence of the placeholders it was given, dropped, repeated or invented.

### Inline: Gestures, ModifierMonitor, InlineDelivery, InlineRewrite, Dictation

`ModifierMonitor` separates the tap's callback (which enqueues and sets flags)
from the thread that drains it (`Poll`, `Handle`). Its output implements
`Gestures`, which says in which order holds, releases, taps and cancellations
may come. `InlineDelivery` is one call of the delivery, its steps interleaved
with edits, focus changes, copies by others and secure input. `InlineRewrite`
has sessions by id, prepared in tasks that fetch the screen context, and
requests that answer late. A held talk key ends a session (`Hold`) and opens one of
dictation in its place; `overtaken` are the sessions that could not put their text
back then, of which nothing is said. `Dictation` has the actors that may cancel: the
gesture thread, the windows and the tasks of the recordings; `owner` is
`modifier_transcription_id`, `active` the inline session. A running recording may
stall (`Stall`, the full queue of session.rs:309): its microphone can still be
stopped, but only a cancellation ends it.

### AudioStream, Chat, McpBridge

`AudioStream` is the `select!` loop of `session.rs`, the microphone's buffer and
the connection of `realtime.rs`; `item` and `turn` follow a transcript from
partial to committed. `Chat` interleaves the window with the backend task of one
request: events are delivered in the order issued. `McpBridge` reads lines with
blank lines and headers before them, and its clock ticks only while it waits for
the daemon; `Listeners` are the processes that may hold the port.

### CompanionPanel

The window's half is `activeMode`, `openOrigin` and the queue of native
transitions of `Companion.svelte`; the application's half is the frame of the
window, `DRAG_MODE` and the dock in the preferences. `calls` are the commands of
the window, which the main thread serves in order; `mail` the events on their
way to the window. `FrameAt`, `Nearest` and `ModeOf` translate the geometry in
whole points; while an animation runs (`morph`), a size read from the window is
that of either end. `strayed` is a ghost: it marks what `FrameFollowsMode`
excepts, and the next request that is served undisturbed clears it. Left out:
opacity, focus, concealment of the collapsed panel, and the state "hidden", which
nobody asks for. Users reach the window once it listens; hover opening is a
preference that is read once.

## Runs

Small components that share no state are checked side by side: the variable
`component` is chosen by `Init`, only that part takes steps, the others stay in
an initial state. The state space is the sum, not the product, and each property
speaks of one part (`component = "nudges" => ...`). Nothing is lost by it,
because the parts have no action and no variable in common; where they do
interact, the interaction is inside one module (captures, retention and memory in
`DaemonData`; daemon and desktop in `Nudges` and `CapturePreference`; window and
backend in `Chat`).

| run | module | properties | what it shows |
|---|---|---|---|
| `gates` | MCDaemonData | TypeOK, PauseQuiescent, ErasesAlone, ErasedStaysErased, NoSpanAcrossPause, ResetFlagOwned, ExclusionHonoured, ExpiredRowStaysExpired | two concurrent requests of any kind but retention, or the retention task with one request that sets the policy; one memory run, every disconnection |
| `progress` | MCDaemonData | EveryRequestEnds | no circular wait among the six locks, with a network that may never answer |
| `owned` | MCSupervisor | TypeOK, OneChild, ChildIsWatched, WaitHasTimer, SpawningEnds | monitor, one command, two pending restarts, shutdown, one fault |
| `restored` | MCSupervisor | ServiceRestored, NoOrphan | two faults, the limit of three probes of the code, under fairness |
| `daemon` | MCDaemonParts | IncidentsSound, UsableStays, NoExpiredInMemory, SummariesSound, GraphSound, NudgesSound, IndexSound, WorkSound | recovery beside a process that writes; retention; summaries; wiki; reminders; index; ledger |
| `desktop` | MCDesktopParts | DeliverySound, RewriteSound, KeysSound, DictationSound, ChatSound, BridgeSound, TextSound, ReaderSound, PanelSound | what users, windows, network and devices may do between two steps |
| `endings` | MCProgress | StorageSound, MovesAtOnce, StartCompletes, PauseKept, StreamSound, RequestsEnd, BackgroundWorkDone | three kills or power losses; and every liveness property of the parts |
| `vacuum`, `resume` | MCDaemonData | NoExpiredInMemory, LastRequestWins (violated) | see Disagreements |
| `torn`, `leftover` | MCStorageRecovery | NeverStuck (violated) | see Disagreements |
| `slug` | MCDaemonParts | EveryHourInstalled (violated) | see Disagreements |

Each property is stated above its definition. In words: a pause is acknowledged
only when nothing is being read or stored; delete-all erases alone, and what it
erased never returns, neither as a row nor in a summary; no row spans a pause; a
raised reset flag has an owner that will lower it; no row is written for an
application that the list in force excludes; a row removed by retention does not
come back and is in no summary; every request ends. A start of the daemon never
refuses for good and in the end opens a database; what was displaced stays in
quarantine until it is purged, and a reported purge left no copy; a fresh
database never meets an old write-ahead log; a database that works is not taken
away, unless somebody puts it there between a comparison and its unlink. A sidecar that runs is the supervisor's child or in the hands of a task
that will register or kill it; its end will be noticed; a restart is announced
exactly while a task will make it; `spawning` is lowered by whoever raised it.

The parts: capture does not go on behind a label and a preference that both say
paused, and every generation of the daemon is told (`PauseKept`). A summary lacks no
row of its period, at any level, but those that came after it or one beneath it was
begun and those that did not fit into their hour's prompt; none speaks of an
erased row; and in the end every period with rows has its summary
(`SummariesSound`, `BackgroundWorkDone`). A relation has evidence that names both
ends (`GraphSound`). One reminder for each slot, shown once, dismissed for good,
and shown in the end (`NudgesSound`, `BackgroundWorkDone`). A row that the daemon
has indexed has the vector of its present text, a deleted row is in neither index
unless its deletion was answered with an error, and a hit better in both rankings
comes first (`IndexSound`). The ledger holds
every recorded second once, and a pattern the user decided about is not proposed
again (`WorkSound`). The clipboard comes back, the answer goes in at most once,
and a failure that is reported as harmless was (`DeliverySound`). A rewrite leaves
edits by others alone, its marker is removed or reported, but for one that a held key
could not take out (`RewriteSound`). The
monitor's events pair, and a reported hold is of a key that is down
(`KeysSound`). A recording ends once and its text goes to the session that asked,
no microphone is left open (`DictationSound`). An answer is whole and belongs to
its request (`ChatSound`); a transcript is whole or a failure (`StreamSound`).
The bridge answers in order, and sends its token only in a call that has seen a
proof (`BridgeSound`). No private value leaves, and each comes back where it was
(`TextSound`). Nothing of an excluded page or of another window is kept
(`ReaderSound`). The companion panel comes to rest in the mode its window shows,
at its dock, and the window knows where the pointer is (`PanelSound`). Microphones are switched off, and recordings (unless stalled), chat requests and
tool calls end (`RequestsEnd`).

### Bounds

- `DaemonData`: two requests cover each pair of handlers; a third adds only
  queueing. One memory run suffices because `runSerial` admits one at a time.
  Two observations are a row before and an extension or a row after a pause or
  deletion; three let a row expire, be extended and be followed by another. The
  CONSTRAINT of `gates` (`WithinBound`) therefore allows three wherever a finite
  retention is in force or asked for, and there at most one request, which sets
  the retention; elsewhere two observations and two requests. One application,
  excluded or not.
- `StorageRecovery`: two incidents are the one that an earlier start left and a
  new one; four versions are the original, its replacement and two more
  quarantines (three in `daemon`, where somebody else writes as well). Three interruptions allow a kill of the start that follows
  a kill of the start that follows a kill.
- `Supervisor`: one command against monitor, timers and shutdown: four tasks on
  the lock. Two sidecars are the old and the new one. `owned` uses two
  unhealthy probes in place of three, which only shortens the count;
  `restored` uses three. `Timers` and `Pids` bound what is in flight: a spawn
  waits for a free identifier, which every run provides in the end.
- `CapturePreference`: two commands and the replay, one fault (an unanswered
  request, a failed write or a new daemon).
- `MemoryScheduler`: three rows and three hours, a prompt that holds two rows, so
  that an hour can be crowded, rows of a week of two hours lie in one or both, and a
  month of three hours overlaps two weeks, as real months do; `endings` has one row,
  four hours and no retention. One erasure, one failure. A backfill of one period leaves the others to the historical lane.
- `WikiMemory`: two names, two types, two hours. `KeyLookup`: two waiters, two
  lookups. `WorkLedger`: two titles, two captures, times around an hour's and a
  day's end, two repeats make a pattern. `Nudges`: one rule, two days, two saves,
  a page of one (the code lists eight), so that one nudge can starve another.
- `SearchIndex`: two rows, two texts of which one has no embedding, two
  revisions, two seconds, one fault, candidates for both. A search changes nothing
  and does not look at the revision: the CONSTRAINT of `daemon` (`WithinBound`) has
  searches with one revision, each the last thing that happens.
- `Redaction`: drafts and answers of three items, of the kinds that touch one
  another. `CaptureReader`: two windows, three pages (one
  excluded, one like the open one), one change of any sort; two and three
  changes, with rules on titles, a document without a URL and a window of Slack, were
  checked apart from the other parts.
- `CompanionPanel`: three requests of the window are one overtaken by a second
  that is overtaken by a third; two events from outside the protocol, one
  failure; two screens, one left of the other, of odd width, with negative
  coordinates, and two places to drag to. Three events were checked once
  (ten million states) and show nothing more.
- Inline, `Dictation`, `AudioStream`, `Chat`, `McpBridge`: two sessions,
  recordings, requests or frames each, since every hazard found relates one to
  its successor; one or two events and one fault. Capacities of queues (32
  commands, buffers of frames) and limits of attempts are two, which only brings
  the limit nearer. `endings` uses one of each. Rounds of tools: none in `desktop`, where
  two messages meet retries and cancellations, and one in `endings`; the theorem
  about the chat has any number.

Deadlock is checked in every run but those where something really stops: of
`Supervisor`, when the desktop and its daemon have gone, and of the parts of the
desktop and of `endings`, whose users and clocks are bounded. In `daemon` a bounded
part that has come to its end says so (`BoundReached`), so that recovery and
retention are still checked for deadlock.

### Fairness

- `DaemonData`, `FairSpec`: tasks that are runnable run, and guards are granted
  in queue order, which tokio's locks guarantee. No fairness for the
  network (`RunComplete`), nor for requests to arrive, nor for clients to leave.
- `StorageRecovery`, `Fairness`: a start that is not killed goes on. Kills are
  bounded by `MaxCrashes`, so in the end one is not.
- `Supervisor`, `FairSpec`: a task under way goes on (its awaits have
  timeouts: 350 ms to connect, 900 ms for a probe, 30 s of backoff at most), the
  monitor polls, events of a child are delivered, and a process that was
  started, killed or left by its parent notices. No fairness for users, faults
  or the recovery of a hung daemon. `ServiceRestored` further assumes that in
  the end no foreign daemon holds the port without answering, and that no child
  is given up that is merely slow; without the second the model has a
  loop in which each child is killed while it opens its storage (a recovery or
  rebuild longer than three probes, supervisor.rs:183).
- The parts in `endings`: each module names its `Fairness`, and its liveness
  property is checked as `component = "..." /\ Fairness => Property` under
  `PartsSpec`. In all of them tasks under way are polled and timers fire; users,
  clients, the network and devices owe nothing, except where the code sets a
  timeout, which then is what is fair. `CapturePreference`: commands take the
  lock in turn (tokio's mutex is fair), hence strong fairness of `Acquire`.
  `MemoryScheduler`: runs are started and the network answers or fails.
  `KeyLookup`: the Keychain answers. `Nudges`: both polls go on, and woof is
  started again after it was quit.
  `Dictation`: its tasks and threads go on, and a recording ends once its microphone
  is off, unless it is stalled; of a stalled one nothing is assumed.

## Disagreements

Five runs are kept that end in a violation.

- `vacuum`: `enforce_retention_locked` leaves by `?` when VACUUM fails after the
  commit of a prune, and does not advance `data_epoch`; a summary of the removed
  rows may still be stored. `delete_all_data` has the same exit (lib.rs:1769).
- `resume`: `delete_all_data` reads `is_paused` and pauses in two steps, and
  resume takes no gate; a resume acknowledged in between is undone.
- `torn`: purging destroys `state.json` by overwriting it before it is unlinked;
  a kill in between leaves a file that every later start refuses.
- `leftover`: a first attempt that met a changed source leaves a pending
  incident; a kill in the second attempt, once it has moved the database away,
  makes every later start refuse that incident.
- `slug`: `kg_entities` is keyed by slug, and its upsert resolves conflicts by
  name and type only; two pages with one slug make every attempt to install the
  hour fail, and the days and weeks above it wait for ever.

### Observations

Met while modelling, stated in the modules where a property leaves them aside,
and not made runs of their own:

- A talk key held in the companion records but is not heard inline: the
  identity of its recording stays set, and the key is deaf until the next
  cancellation (`HoldIsHeard` of `Dictation`; inline.rs:620-690). A stale
  `cancel_all` of a failed start ends a newer session (commands.rs:2270-2276).
- Left and right modifier share one flag: a hold of one goes on while only the
  other is down (`HeldKeyIsDown` of `ModifierMonitor`, monitor.rs:719-734). The
  cancellation of a disabled tap does not discard its queue.
- An audio session whose command queue is full waits for room that only its own
  loop can make, until it is cancelled (`Stalled` of `AudioStream`, `Stall` of
  `Dictation`, session.rs:309); a stop does not end it, neither does the limit of a
  recording (commands.rs:2964-2977), and no other recording starts before.
- A row that keeps growing after its hour was summarised adds text that is in no
  summary. Neither is a row that is persisted when its hour has one already, because
  it waited for the barrier or for the window to change, or one beyond the 200 rows or
  60,000 characters of an hour (memory.rs:219-220); memory.rs:1166-1168 defers a
  roll-up in order not to seal "a permanently partial rollup". A period that always fails keeps
  older ones of its lane from being generated; expiry of any row drops every
  chronicle, so that finite retention regenerates them.
- A key lookup that was left by a cancelled run is consumed by the next one, even
  if the key has changed since (`KeyLookup`).
- A rule's slot that passes while the daemon is off is not made up for
  (`NoSlotMissed` of `Nudges`, storage lib.rs:2661-2674, against
  docs/architecture.md:27); eight nudges that cannot be shown starve the rest
  (notifications.rs:607-616).
- A row whose text has no embedding makes the build of the index fail as a whole,
  and with it the start of the daemon (`Rebuildable` of `SearchIndex`, against
  docs and VECTOR_FORMAT.md:3). A refresh after a failed upsert renews the time
  of a stale vector. With a `capture_interval_ms` below a second (main.rs:118 allows
  100), or a clock that is set back, a row may change its text twice within one; a
  crash between row and vector then leaves a stale vector that `index_matches` takes
  for current (semantic.rs:232; `masked`). After a deletion that fails once it has
  committed (lib.rs:1769, 1962) the erased words stay in the index until it is built
  anew.
- Private values nested in one another leave markers that cannot be restored
  (`MarkersRestore` of `Redaction`, redact.rs:339), and a rewrite of a text with a
  labelled secret is refused for the markers it must keep
  (`KeptMarkersAccepted`, commands.rs:2653, 2752).
- The second walk over the URLs of a window stops at the outer document, so that
  a navigation of a frame in the meantime is not seen (`FramesStayOut` of
  `CaptureReader`, macos.rs:447, 1434).
- A talk key held while a reply is being drafted ends the session; if the marker
  cannot be taken out then, the refusal names no session and nothing tells that
  temporary text may remain (commands.rs:2229-2250), while docs/security.md:33 says
  that this is reported (`overtaken` of `InlineRewrite`).
- A retry after an error during a rewrite finds its token cancelled and fails
  (`InlineRewrite`, commands.rs:2580); a permission lost after the text was
  written is reported as untouched (inline.rs:750, accessibility.rs:483); between
  the check of the target and the write there is no compare-and-set.
- The label falls back to the opposite of a request when the daemon's state
  cannot be read, and a resume whose preference cannot be written leaves the
  daemon capturing under a preference that says paused (`CapturePreference`); a
  daemon that somebody else replaces within one generation is not told.
- The bridge sends its request to whoever listens after a proven probe
  (woof-mcp lib.rs:222-232); `TokenGuarded` asks for the proof of the call, not
  of the connection. One request that waits for a daemon delays all others.
- With finite retention an expired row also removes the decisions about
  workflows, and a dismissed pattern may be proposed again (`WorkLedger`).
- The companion window and its panel disagree until the next undisturbed request
  when an opening from outside crosses a request of the window, when a command
  fails after it has moved the panel, when a request whose predecessor is not
  settled fails and falls back to a mode that never was, when the window
  collapses or opens during a drag, or when a drag or a new dock reads the mode
  from the size of an animation (`strayed` of `CompanionPanel`;
  companion_panel.rs:433, 496). The event that ends a drag also ends one
  begun since, and the panel then stays where it was dragged
  (Companion.svelte:861). A snapshot of the
  pointer does not update the tracker, so that a pointer that leaves again before
  the tracker is called is taken to be still there (`ahead`).
- Local times that do not exist or exist twice are `expect`ed or dropped
  (memory.rs:1369, 1503; woof_d lib.rs:2716); the modules count hours evenly.

## Proofs

Proved with TLAPS, for any number of tasks, applications, observations,
sidecars, incidents, requests, faults and kills, and any policies:

- `DaemonDataProofs`, queues: joining and leaving keep the order of a queue and the
  grants of those ahead; whoever holds a lock for writing is alone (`WriterIsAlone`).
- `DaemonDataProofs!TypeCorrect`: `Spec => []TypeOK`. `TypeOK` is inductive:
  besides types it says that a candidate row exists where the
  capture task needs one (`CandidateKnown`).
- `DaemonDataProofs`, locks: `PauseQuiescent` and `ErasesAlone` are not
  inductive: they speak of places, while exclusion comes from locks. The
  strengthening is `LocksFollowCode`: at each place a task is in the queue of
  exactly the locks that the code says, in exactly that mode, granted or waiting
  (`Writing`, `Reading`, `Waits` tabulate it). `LocksFollowTheCode` proves it
  inductive with one lemma per group of actions, and `WriterIsAlone` does the
  rest; `BarrierFollowsTheCode` is the same for the storage barrier.
  `ResetFlagIsOwned` needs that the flag is raised only between two places;
  `ExclusionIsHonoured` that the policy the capture task applies under its lease
  is the one in force (`Admitted`).
- `DaemonDataProofs`, what the capture task carries: `ErasureIsFinal`
  (`ErasedStaysErased`) follows old observations everywhere they could hide
  (`Erased`): in rows, in the committed memory, in prompts that the epoch still
  lets through, in the candidate row, and in the pending span and active id
  unless the task is behind the data epoch and will drop them.
  `SpansKeepToOneSession` (`NoSpanAcrossPause`) needs `Continuous`: a row whose
  id the loop, or the candidate on its way to the database, still has began
  after the last pause, unless the loop is behind the continuity epoch and will
  let go of it. `RetentionIsFinal` (`ExpiredRowStaysExpired`) needs `Retained`: a
  cutoff is decided from the past, a removed row ends before it, ids are
  unique, and what the task may still extend reaches the newest observation.
  `MemoryOutlivesNoSource` (`NoExpiredInMemory`) needs `Live`: a prompt read in
  the present epoch has no expired row, unless the pruning that removed it still
  holds the barrier and will advance the epoch. It assumes that nothing fails
  after the commit of a pruning, and the run `vacuum` shows why. The run
  `daemon` checks `NoExpiredInMemory` in its instance of `DaemonData`, and
  `DaemonPartsProofs!MemoryIsRetained` proves it there.
- `StorageRecoveryProofs`: `RecoveryIsTyped`; `UsableIsNeverRemoved`
  (`UsableStays`), from `Displaced`: what an incident lists as the database
  is a file that `Storage::open` refused, only versions that were born are
  anywhere, and between comparison and unlink a file is the one compared, gone or
  overtaken (`Compared`); `OriginalsAreKept`, from `Safeguarded`: at most what one call was
  about is unsynced, an incident whose phase is `Ready` or later on the medium is
  durable with all its copies, and `Protocol` says at each place of the call what
  the two views of its incident agree on. Both hold with other writers.
- `StorageRecoveryProofs`, purges: `PurgeIsFinal`, from `Purged`: process and medium know
  the same directories except the one being made or removed, a purge has all
  incidents before it, and neither copies nor the files from which new
  copies come hold a purged version. With it `IncidentsAreSound`, the three
  invariants of the run `daemon`. `RecoveryImplementsVault` (`MovesAtOnce`): each
  step is a step of `DatabaseVault` or leaves its variables alone. `Vaulting` says what
  the mapping needs: an incident that counts lists a database and holds what
  it lists; a database missing from its place is in the vault; one that is open
  was never refused. A third writer can put a refused version back, so
  this assumes `~Contested`, as the run `endings` does.
- `StorageRecoveryProofs!StartsAreSound` (`StorageSound`): no start is ever stuck
  and a fresh database has no foreign sidecar. `Orderly` is the whole
  argument of reconciliation: at most one incident is unfinished, no `state.json`
  is damaged, the files beside a `Ready` incident are those it lists or are
  gone, and a missing database means an incident that accounts for it. Well-founded
  order is used for the least incident of a directory listing. It assumes
  `~Contested` and `~TornState`: the runs `leftover` and `torn` violate it
  without one or the other.
- `DaemonPartsProofs!SummariesAreSound` (`SummariesSound`), for any limits of an
  hour. A row that what was read lacks is late, or its hour was crowded, or a
  stored summary beneath lacks it for one of these reasons (`LackedBeneath`,
  `SummaryWhole`); while a run's epoch is the present one, that holds of what it
  read, and all of it is live (`RunIsWhole`); a roll-up with a part that has rows and
  no summary is deferred, so that a row it lacks is lacked by the part it began in, and
  what is stored keeps the property (`AllSummariesWhole`): rows keep the time at which
  they began however late they are written. That the parts of a period tile it is arithmetic. The due
  periods take a least, the historical ones a latest row, which exist because
  finite sets of numbers have them. A step of the composition is a step of the
  scheduler or leaves it alone. `MemoryIsRetained` of the same module shows
  that the instance of `DaemonData` with proofs and the one the run checks have
  the same definitions.
- `SupervisorProofs`: `SupervisorConsistent` proves `Supervised` inductive, and
  `OneChild`, `ChildIsWatched`, `WaitHasTimer` and `SpawningEnds` follow. The
  strengthening is `OneAtATime`: a pending restart, an attempt to spawn and a
  child exclude each other, and after the shutdown there is none. It is why a
  healthy answer that drops a pending restart cannot take the generation from a
  child, and why an attempt that was overtaken finds itself stale. `Custodian`
  names the tasks that hold a sidecar nobody has registered; each step hands
  every running sidecar from one of them, or from the supervisor, to another.
- `DesktopEdgesProofs!BridgeIsSound` (`BridgeSound`): the invariant has a part for
  each stage of a request. `Framed`: on the wire, headers announce a body and
  nothing else does, so that a reader in the middle of a frame finds its text.
  `InOrder`: what is on the wire was sent and not read, in order.
  `Reading` and `Answering`: the request in hand has the framing it is answered
  in, earlier ones that wanted an answer have one, later ones none. `Gated` and
  `Session`: a call is in an initialized session and asks only with a
  proof. TLC checked `Inductive` on a small instance before it was proved.
- `ChatProofs!ChatIsSound` (`ChatSound`): what the window hears names no request, so
  that a whole answer rests on order. `OneOpen`: a response that can still be
  whole is the active one. `LastWord`: an answer or an error is the last event of
  its request, so that nothing is appended after it. `ShownSoFar`: for that response,
  the pieces shown and the deltas on their way are together the pieces the call
  has passed on, each once and in order. `Counted`: a retry
  comes only while none of a stream's text was passed on, and so repeats none.
  `OneLive` needs nothing else: the token of a request is raised in the step that
  replaces it. `DesktopPartsProofs` carries this over to the parts side by side,
  where the bounds of the chat are constants.
- `DictationProofs!DictationIsWhole` and `DesktopPartsProofs!DictationIsSound`
  (`DictationSound`), for any number of recordings, sessions and interruptions.
  The two mutexes are never held together, so the six promises are kept by what
  somebody is still going to do, and the invariant says who. `RecordSound`: a recording
  is active until its end is told, and told once. `RecordHome`: as long as its text may
  come, the hold is its own, or was cancelled. `Watched`: a microphone that is open after
  its cancellation has the thread that cancelled it, and one whose key was let go has the
  thread that finalizes it. `FlowsSound`: while a hold is begun, none is attached.
  `HoldsSound`: a session of a dictation has a recording whose end drops it, or a
  thread on its way to drop it (`Ending`). TLC checked `DictationInv` before it was proved.
- `DesktopPartsProofs!DeliveryIsSound` (`DeliverySound`), for any number of
  faults and disturbances. `ClipboardOwed`: while the clipboard is lent
  and its change count is the one the delivery left, the snapshot is what the user
  last copied; with another count the clipboard itself is. `InsertedSoFar`: up to the paste or
  the first keystroke nothing is in; a paste that ends in an error other than
  secure input has posted nothing, so that the keystrokes which replace it put the
  text in once. What is in is counted over the text and the posted keys, so
  that handling a key moves one piece and adds none (`KeyHandled`).
- `DesktopPartsProofs!ReaderIsSound` (`ReaderSound`), for any windows, pages,
  rules and number of changes. `ReaderAimed`: title, target, URLs and surface were
  decided before any text was read. `ReaderSteady`: what the screen shows
  again after `past` held it, it showed all along unless `returned`; so a
  title, a list of URLs and a state of secure input that the last questions find as
  the first ones did were those of every text between. The attempt
  corrected the property: `returned` used to compare whole pages, and a page
  could then give way to an excluded one and to a third page that shows the
  title and URLs of the first, unnoticed by the code and by `returned`; it now
  compares each answer the reader can get. It assumes that only
  documents are excluded by their URL (`ReaderBounds`).
- `DesktopPartsProofs!RewriteIsSound` (`RewriteSound`), for any number of submissions,
  sessions, edits by others and failures. `SessionKept` says who may have written
  what stands in the composer: a frame is of a session there has been, one of the
  session's own only while a marker is on the way, and what the session expects
  before it writes is its original or a frame of its own. `RequestsKept`: at most one
  live request has a session, which is in flight as long; so a marker always has a request
  that will take it out, or that was told it may be left. A held key is one more way
  to end a session (`CancelDoes` is shared by all of them), and its dictation one more
  writer (`DictationDoes`).
- `DesktopEdgesProofs!KeysIsSound` (`KeysSound`), for any capacity of the queue, any
  delays, and any number of changes and faults. `ReportsFit`: what is about to be
  reported makes what was reported true of the machine; with it each step is a step of
  `Gestures` or a stutter, so that `HoldsPaired` is a refinement proved step by
  step. `LastWord`: what the machine knows of the key is the last word on
  it that is neither on its way, nor in the queue, nor lost, and what is lost is
  flagged. `TurnsTaken`: a loss resets the machine before the queue is read,
  and a tap that was disabled is enabled again only with a machine that was reset.
- `DesktopEdgesProofs!PanelIsSound` (`PanelSound`), for any screens that hold an
  expanded panel (`PanelBounds`) and any number of transitions, happenings and
  failures. `Agreed`: window and panel agree but for what is on its way between
  them. The last event that the window takes for somebody else's has the panel's
  mode; without one the newest request, queued or in flight, decides; without
  either the modes are equal. `RequestsOrdered` and `CallsOrdered` say why an
  answer cannot be taken for another's: numbers grow along the queue, and one
  request of the window's is with the application. That a panel stays at its dock
  (`DocksStay`) is arithmetic over the distances to the four docks.
- `DaemonPartsProofs!IndexIsSound` (`IndexSound`), for any rows, texts, revisions
  and number of faults. A start trusts `index_matches`, which compares the number of
  records with the number of rows and each row's `seen` with its record's, and no text.
  `Faithful` is why that is enough: a key has one record, of one revision, which
  holds the text of its row if it names the row's second, unless the row is in
  `failed` or, for the container, in `masked`. With it `MatchFits` shows, by
  counting, that a container that passes has a record for each row and no other.
  `SharesFall`: the share of a rank falls strictly with it up to a hundred
  candidates (the code takes 30) in the model's millionths, so that a row both
  rankings prefer has the higher score. Nothing is assumed of the clock.

The assumptions are the named ASSUMEs of the modules (tasks are distinct, kinds
are known, bounds are numbers) and the hypotheses named above. The proofs also
found something that TLC cannot: TLA+ does not order the arms of a CASE, and TLC
takes the first that applies. Definitions whose guards overlapped
(`Reply` and `ReadHeader` of `McpBridge`, `Revision` and `Handled` of
`InlineDelivery`) meant less than they should, and are chains of IF now.

Only model-checked: `CapturePreference`, `KeyLookup`, `WikiMemory`, `WorkLedger`,
`Nudges`, `Redaction` and `AudioStream`. Liveness (`EveryRequestEnds`, `ServiceRestored`, `NoOrphan`, and
the properties of `endings`) and ENABLED are out of the prover's reach and stay
with TLC, as would be facts by induction over data, or about RECURSIVE
operators; the modules declare none. `GraphSound` of `WikiMemory`
rests on what folds over a sequence of statements compute, and the ledger of
`WorkSound` on sums over sets of buckets, which are such inductions; so does
`TextSound`, whose operators walk a text, and `NudgesSound`, for the due rules
are turned into rows by a fold.

## Plan

Done: the gates with proofs, the recovery with its refinement and its proofs, the
supervisor, the memory scheduler, the bridge, the chat, the dictation, the
delivery, the rewrite, the keys, the panel, the reader and the index with proofs, and the parts of
daemon and desktop above.

A theorem to come: of `WorkSound`, that no pattern is proposed again after the user
decided about it.

Worth modelling still: the search by geometry for the visible context
(woof-capture model.rs), the router's checks as one decision table, and the
focus rules of the companion window.

## Not modelled

The router and its authentication (a stateless check in front of each handler),
SQL that is one statement over one table, the login item,
the rest of the Svelte interface, build scripts, and the vendored `wry`. What a
text says is data everywhere: similarity, prompts, summaries, the neighbours of
a vector, the lists of the capture policy. So is how local time maps to hours.
Which thread the toolkit runs a command on is outside the source: a command on
the main thread that locks the inline mutex while its holder asks the window for
its state (commands.rs:1590, 1853) is a hazard that no module covers.
`PROJECT.json` gives the reasons component by component.
