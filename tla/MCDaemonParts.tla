---- MODULE MCDaemonParts ----
(* Small instances of the parts of the daemon that share no state with one another, checked
   side by side: Init chooses one part, only that part takes steps, and the others stay in
   an initial state. The storage recovery is the module's own (EXTENDS); the other parts are
   instances with their bounds. *)
EXTENDS StorageRecovery

CONSTANTS
    Components,                              \* the parts a run looks at
    ada, bob, person, project, SameSlug,     \* names, kinds and clashing slugs of wiki pages
    dailyRule,                               \* a reminder
    IndexIds, Contents, Featureless, Vectors,  \* captured rows, their texts and embeddings
    Candidates, IndexSeconds, Upsets,        \* of a search, and bounds of the index
    mail, code,                              \* window titles
    cap, pruner, memoryRuns, callers, programs, ages, forever, Observations,
                                             \* tasks, applications, policies, screen reads
    Backfill, Retention, LastHour, Captures, Erases, Failures, \* the schedule and its bounds
    HourRows, PromptRows                     \* the most rows of an hour, and of a full prompt

ASSUME DaemonTasks ==
    /\ cap # pruner /\ {cap, pruner} \cap (memoryRuns \cup callers) = {}
    /\ memoryRuns \cap callers = {}
    /\ Observations \in Nat /\ ages \subseteq Nat \ {0} /\ forever \notin Nat
\* A foreground sequence without a row has no id; embeddings are numbered from 1; a search
\* ranks 30 candidates.
ASSUME IndexBounds ==
    /\ IsFiniteSet(IndexIds) /\ "none" \notin IndexIds /\ 1 \in Vectors
    /\ IndexSeconds \in Nat \ {0} /\ Upsets \in Nat /\ Candidates \in 1..100
ASSUME ScheduleBounds ==
    /\ Backfill \in Nat /\ LastHour \in Nat /\ Captures \in Nat
    /\ HourRows \in Nat /\ PromptRows \in Nat

VARIABLES
    component,
    lock, taskPc, request, reply, control, dataEpoch, obs, loop, rows, summary, resetRequested,
    token, generation, cutoff, wasPaused, requestHistory,
    memoryNow, memoryRows, capture, chronicle, epoch, run, reset, erases, memoryFaults,
    pages, entities, relations, seen, hours,
    nudgeNow, rules, nudges, enabled, running, poll, panel, submitted, opening, saves,
    nudgeFaults,
    indexNow, indexRows, active, up, memory, indexFile, revision, failed, masked, asked, answer,
    indexFaults,
    clock, pending, snapshots, ledger, workflows, workNudges, ids, elapsed, backwards,
    announced, wipes, bounds

TwoIncidents == 1..2
Everything == {"storage", "retention", "memory", "wiki", "nudges", "index", "work"}
WikiOnly == {"wiki"}
NoName == {}
BothNames == {ada, bob}

\* Requests that set the retention, and the periodic task; the run `gates` has the other
\* requests, `vacuum` the failure of VACUUM.
Daemon == INSTANCE DaemonData WITH
    Cap <- cap, Pruner <- pruner, Runs <- memoryRuns, Requests <- callers,
    Kinds <- {"retention"}, Apps <- programs, Policies <- ages, MaxObs <- Observations,
    VacuumMayFail <- FALSE, Forever <- forever, pc <- taskPc, chronicle <- summary,
    run <- generation, history <- requestHistory

Memory == INSTANCE MemoryScheduler WITH
    BACKFILL <- Backfill, RETENTION <- Retention, MaxHour <- LastHour, MaxRows <- Captures,
    MAX_HOUR_SNAPSHOTS <- HourRows, PROMPT_ROWS <- PromptRows, MaxErases <- Erases,
    MaxFaults <- Failures, now <- memoryNow, rows <- memoryRows,
    faults <- memoryFaults

Wiki == INSTANCE WikiMemory WITH
    Names <- {ada, bob}, Types <- {person, project}, MaxEvidence <- 2, MaxEntities <- 2,
    MaxHours <- 2

Nudge == INSTANCE Nudges WITH
    Rules <- {dailyRule}, Flags <- {}, Unshowable <- {}, Kinds <- {"daily"},
    DAY <- 2, INTERVAL <- 2, RETENTION <- 2, LIMIT <- 1, MaxTime <- 2, MaxSaves <- 2,
    MaxNudges <- 2, MaxFaults <- 1, now <- nudgeNow, faults <- nudgeFaults

Index == INSTANCE SearchIndex WITH
    Ids <- IndexIds, Texts <- Contents, Zero <- Featureless, Revisions <- Vectors,
    SEARCH_CANDIDATES <- Candidates, MaxTime <- IndexSeconds,
    MaxFaults <- Upsets, now <- indexNow, rows <- indexRows, disk <- indexFile,
    faults <- indexFaults

Ledger == INSTANCE WorkLedger WITH
    Titles <- {mail, code}, HOUR <- 2, DAY <- 4, WINDOW <- 1, REPEATS <- 2, LOOKBACK <- 100,
    RETENTION <- 2, MaxTime <- 5, MaxRows <- 2, MaxSets <- 1, MaxFaults <- 1,
    nudges <- workNudges

daemonVars == <<lock, taskPc, request, reply, control, dataEpoch, obs, loop, rows, summary,
                resetRequested, token, generation, cutoff, wasPaused, requestHistory>>
memoryVars == <<memoryNow, memoryRows, capture, chronicle, epoch, run, reset, erases,
                memoryFaults>>
wikiVars == <<pages, entities, relations, seen, hours>>
nudgeVars == <<nudgeNow, rules, nudges, enabled, running, poll, panel, submitted, opening, saves,
               nudgeFaults>>
indexVars == <<indexNow, indexRows, active, up, memory, indexFile, revision, failed, masked,
               asked, answer, indexFaults>>
ledgerVars == <<clock, pending, snapshots, ledger, workflows, workNudges, ids, elapsed,
                backwards, announced, wipes, bounds>>
allvars == <<component, vars, daemonVars, memoryVars, wikiVars, nudgeVars, indexVars,
             ledgerVars>>

\* A part that is not looked at starts in one of its initial states.
PartsInit ==
    /\ component \in Components
    /\ Init /\ (component # "storage" => live.source["wal"] = Absent)
    /\ Daemon!Init
    /\ component # "retention" =>
          ~control.paused /\ control.blacklist = {} /\ control.retention = forever
    /\ Memory!Init /\ Wiki!Init /\ Ledger!Init
    /\ Nudge!Init /\ (component # "nudges" => enabled)
    /\ Index!Init /\ (component # "index" => revision = 1)

Step ==
    /\ UNCHANGED component
    /\ IF component = "storage" THEN Next ELSE UNCHANGED vars
    /\ IF component = "retention" THEN Daemon!Next ELSE UNCHANGED daemonVars
    /\ IF component = "memory" THEN Memory!Next ELSE UNCHANGED memoryVars
    /\ IF component = "wiki" THEN Wiki!Next ELSE UNCHANGED wikiVars
    /\ IF component = "nudges" THEN Nudge!Next ELSE UNCHANGED nudgeVars
    /\ IF component = "index" THEN Index!Next ELSE UNCHANGED indexVars
    /\ IF component = "work" THEN Ledger!Next ELSE UNCHANGED ledgerVars

\* The bounds on time, events and faults end every part but the storage recovery and the
\* retention, which must always have a step.
BoundReached == component \notin {"storage", "retention"} /\ UNCHANGED allvars

PartsSpec == PartsInit /\ [][Step \/ BoundReached]_allvars

\* The bound of the run `daemon` on searches, which are the same with any embeddings and leave
\* no trace: they are made with the first, and nothing follows their answers.
Searched == revision = 1 \/ asked = Index!Quiet
WithinBound == Searched /\ answer = <<>>

\* No summary in memory was made from a row that retention removed.
NoExpiredInMemory == component = "retention" => Daemon!NoExpiredInMemory

\* A stored summary lacks no row of its period, but for the rows that came after it, or one
\* beneath it, was begun, and those that did not fit into their hour's prompt; and no summary
\* says anything of a row that was erased.
SummariesSound ==
    component = "memory" => Memory!TypeOK /\ Memory!NoPartialRollup /\ Memory!NoGhost

\* Every link of the graph is backed by evidence both ends share, and every page is in the
\* graph.
GraphSound == component = "wiki" => Wiki!TypeOK /\ Wiki!GroundedLinks /\ Wiki!PageInGraph

\* One reminder for each time a rule falls due, one notification for each reminder, and a
\* closed reminder stays closed.
NudgesSound ==
    /\ [](component = "nudges" => Nudge!TypeOK /\ Nudge!SlotOnce /\ Nudge!SubmittedOnce)
    /\ Nudge!ClosedStaysClosed

\* A vector the search uses is the one of the row's present text, and a row that was erased
\* is in neither index, whatever crashed or failed between the row and its vector, but for
\* what was answered with an error and for a text that replaced another within the second the
\* container names; and a row that is better in both rankings comes first.
IndexSound ==
    /\ [](component = "index" =>
            Index!TypeOK /\ Index!VectorsCurrent /\ Index!ErasedLeavesIndex)
    /\ Index!Dominant

\* No second of work is counted twice or lost, and a work pattern the user decided about is
\* not proposed again.
WorkSound == component = "work" => Ledger!TypeOK /\ Ledger!LedgerSound /\ Ledger!PatternsSound

\* Every hour the model summarised is installed (storage lib.rs:1229).
EveryHourInstalled == Wiki!EveryHourInstalled
====
