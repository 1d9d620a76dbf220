------------------------------- MODULE WorkLedger ------------------------------
(***************************************************************************)
(* What the time report and the work patterns are made of.  Every capture  *)
(* that is stored adds the time since the one before it to the hours it    *)
(* fell in, and looks whether its window has come back often enough to be  *)
(* proposed as a pattern, with a reminder; the user accepts or dismisses   *)
(* the pattern.  The clock is the wall clock, which may be set; captures   *)
(* are taken in milliseconds and stored in seconds, here two ticks each.   *)
(***************************************************************************)
EXTENDS Integers, Sequences, FiniteSets, TLC, FiniteSetsExt, Functions

CONSTANTS
    Titles,    \* windows: app, domain and title, whose names differ
    HOUR,      \* the hour of the ledger, in ticks
    DAY,       \* the day of the patterns, in ticks
    WINDOW,    \* coalesce_window_ms
    REPEATS,   \* occurrences that make a pattern
    LOOKBACK,  \* how far back they are counted
    RETENTION, \* retention_days; 0: forever
    MaxTime,   \* bound: the clock
    MaxRows,   \* bound: snapshots
    MaxSets,   \* bound: times that the clock is set
    MaxFaults  \* bound: captures that cannot be stored

SECOND == 2

VARIABLES
    clock,      \* the wall clock
    pending,    \* CapturePipeline: pending, with active_snapshot_id
    snapshots,  \* snapshots and activity_events, by snapshot_id
    ledger,     \* time_ledger
    workflows,  \* workflows, by name
    nudges,     \* nudges of the patterns: status, by dedupe_key
    ids,        \* how many snapshots and workflows there have been
    elapsed,    \* time that has really passed, and what the clock was set forward by
    backwards,  \* what the clock was set back by
    announced,  \* how often each pattern was announced
    wipes,      \* how often retention has dropped the generated memory
    bounds      \* times the clock was set, captures not stored

vars == <<clock, pending, snapshots, ledger, workflows, nudges, ids, elapsed, backwards,
          announced, wipes, bounds>>

None == [id |-> 0]

Init ==
    /\ clock = HOUR /\ pending = None
    /\ snapshots = <<>> /\ ledger = <<>> /\ workflows = <<>> /\ nudges = <<>>
    /\ ids = [snapshots |-> 0, workflows |-> 0]
    /\ elapsed = 0 /\ backwards = 0 /\ wipes = 0
    /\ announced = [t \in Titles |-> 0]
    /\ bounds = [sets |-> 0, faults |-> 0]

-----------------------------------------------------------------------------
(***************************************************************************)
(* CapturePipeline::process: one sequence of captures of one window is one *)
(* snapshot, from its start.                                               *)
(***************************************************************************)
\* div_euclid(1_000)
Seconds(t) == (t \div SECOND) * SECOND

Candidate(title) ==
    LET again == /\ pending # None /\ pending.title = title
                 /\ clock - pending.last <= WINDOW IN
    IF again
    THEN [id |-> pending.id, title |-> title, started |-> pending.started, last |-> clock,
          duration |-> Max({clock - pending.started, pending.duration})]
    ELSE [id |-> ids.snapshots + 1, title |-> title, started |-> clock, last |-> clock, duration |-> 0]

\* record_capture: the rows of the snapshot and its activity event
Stored(c) ==
    LET known == c.id \in DOMAIN snapshots
        old == snapshots[c.id] IN
    (c.id :> [title |-> c.title,
              captured |-> IF known THEN old.captured ELSE Seconds(c.started),
              last |-> IF known THEN Max({old.last, Seconds(c.last)}) ELSE Seconds(c.last),
              duration |-> IF known THEN Max({old.duration, c.duration}) ELSE c.duration])
    @@ snapshots

\* record_capture: duration_delta
Delta(c) ==
    LET before == IF c.id \in DOMAIN snapshots THEN snapshots[c.id].duration ELSE 0 IN
    Max({c.duration - before, 0})

\* local_hour_bucket
HourOf(t) == (t \div HOUR) * HOUR

\* time_report, for one hour
Reported(hour) ==
    FoldSet(LAMBDA k, sum : sum + ledger[k], 0, {k \in DOMAIN ledger : k[1] = hour})

\* record_time_ledger_delta: backwards from the last capture, hour by hour.
Spread(last, seconds) ==
    LET hours == {HourOf(t) : t \in (last - seconds)..(last - 1)}
        within(h) == Min({last, h + HOUR}) - Max({last - seconds, h}) IN
    [h \in hours |-> within(h)]

\* record_time_ledger_bucket
Added(c) ==
    LET spread == Spread(Seconds(c.last), Delta(c))
        new == [k \in {<<h, c.title>> : h \in DOMAIN spread} |-> spread[k[1]]] IN
    [k \in DOMAIN ledger \union DOMAIN new |->
        (IF k \in DOMAIN ledger THEN ledger[k] ELSE 0) + (IF k \in DOMAIN new THEN new[k] ELSE 0)]

\* detect_workflow: often enough, and on two days or over an hour
Recurs(rows, c) ==
    LET seen == {i \in DOMAIN rows :
                    rows[i].title = c.title /\ rows[i].last >= Seconds(c.last) - LOOKBACK}
        from == Min({rows[i].captured : i \in seen})
        upTo == Max({rows[i].last : i \in seen})
        days == {rows[i].captured \div DAY : i \in seen} IN
    /\ Cardinality(seen) >= REPEATS
    /\ Cardinality(days) >= 2 \/ upTo - from >= HOUR

IsNewFaulty(title) == TRUE

\* detect_workflow: created
IsNew(title) == title \notin DOMAIN workflows

\* detect_workflow and the reminder that record_capture adds; what is known of a
\* pattern is brought up to date, its status stays.
Noticed(c) ==
    IF Recurs(Stored(c), c) /\ IsNew(c.title)
    THEN LET id == ids.workflows + 1 IN
         /\ workflows' = (c.title :> [id |-> id, status |-> "proposed"]) @@ workflows
         /\ nudges' = (id :> "pending") @@ nudges
         /\ announced' = [announced EXCEPT ![c.title] = @ + 1]
    ELSE UNCHANGED <<workflows, nudges, announced>>

UnsavedFaulty(c) == c

\* update_capture_continuity_after_persist: a capture that was not stored ends its
\* sequence.
Unsaved(c) == None

-----------------------------------------------------------------------------
\* A capture is processed and stored.
Capture(title) ==
    LET c == Candidate(title) IN
    /\ ids.snapshots < MaxRows \/ c.id <= ids.snapshots
    /\ pending' = c
    /\ snapshots' = Stored(c)
    /\ ledger' = Added(c)
    /\ Noticed(c)
    /\ ids' = [snapshots |-> Max({ids.snapshots, c.id}),
               workflows |-> Max({0} \union DOMAIN nudges' \union {ids.workflows})]
    /\ UNCHANGED <<clock, elapsed, backwards, wipes, bounds>>

\* It is processed and cannot be stored.
CaptureLost(title) ==
    /\ bounds.faults < MaxFaults
    /\ bounds' = [bounds EXCEPT !.faults = @ + 1]
    /\ pending' = Unsaved([Candidate(title) EXCEPT !.id = ids.snapshots + 1])
    /\ UNCHANGED <<clock, snapshots, ledger, workflows, nudges, ids, elapsed, backwards,
                   announced, wipes>>

\* clear_capture_continuity: capture is paused, skipped or fails.
Interrupt ==
    /\ pending # None
    /\ pending' = None
    /\ UNCHANGED <<clock, snapshots, ledger, workflows, nudges, ids, elapsed, backwards,
                   announced, wipes, bounds>>

\* set_workflow_status, from update_work_pattern: only a proposed pattern is decided,
\* and its reminder is closed with it.
Decide(title, status) ==
    /\ title \in DOMAIN workflows /\ workflows[title].status = "proposed"
    /\ workflows' = [workflows EXCEPT ![title].status = status]
    /\ nudges' = [n \in DOMAIN nudges |->
                     IF n = workflows[title].id /\ nudges[n] \in {"pending", "ready"}
                     THEN "dismissed" ELSE nudges[n]]
    /\ UNCHANGED <<clock, pending, snapshots, ledger, ids, elapsed, backwards, announced, wipes, bounds>>

\* The reminder is shown and closed as any other one (Nudges).
Show(n) ==
    /\ n \in DOMAIN nudges
    /\ \/ nudges[n] = "pending" /\ nudges' = [nudges EXCEPT ![n] = "ready"]
       \/ nudges[n] = "ready" /\ nudges' = [nudges EXCEPT ![n] = "dismissed"]
    /\ UNCHANGED <<clock, pending, snapshots, ledger, workflows, ids, elapsed, backwards,
                   announced, wipes, bounds>>

\* prune_expired_data: one expired row drops what was generated from all of them.
Prune ==
    LET cutoff == Seconds(clock) - RETENTION
        old == {i \in DOMAIN snapshots : snapshots[i].last < cutoff}
        hours == {k \in DOMAIN ledger : k[1] < cutoff}
        none == old = {} /\ hours = {} IN
    /\ RETENTION > 0 /\ ~none
    /\ snapshots' = [i \in DOMAIN snapshots \ old |-> snapshots[i]]
    /\ ledger' = [k \in DOMAIN ledger \ hours |-> ledger[k]]
    /\ workflows' = <<>> /\ nudges' = <<>>
    /\ wipes' = wipes + 1
    /\ UNCHANGED <<clock, pending, ids, elapsed, backwards, announced, bounds>>

Tick ==
    /\ clock < MaxTime
    /\ clock' = clock + 1 /\ elapsed' = elapsed + 1
    /\ UNCHANGED <<pending, snapshots, ledger, workflows, nudges, ids, backwards, announced,
                   wipes, bounds>>

\* The user, or the time service, sets the clock.
SetClock ==
    /\ bounds.sets < MaxSets
    /\ bounds' = [bounds EXCEPT !.sets = @ + 1]
    /\ \E t \in HOUR..MaxTime :
           /\ clock' = t
           /\ elapsed' = elapsed + Max({t - clock, 0})
           /\ backwards' = backwards + Max({clock - t, 0})
    /\ UNCHANGED <<pending, snapshots, ledger, workflows, nudges, ids, announced, wipes>>

Next ==
    \/ \E t \in Titles : Capture(t) \/ CaptureLost(t) \/ \E s \in {"accepted", "dismissed"} : Decide(t, s)
    \/ \E n \in DOMAIN nudges : Show(n)
    \/ Interrupt \/ Prune \/ Tick \/ SetClock

Spec == Init /\ [][Next]_vars

-----------------------------------------------------------------------------
TypeOK ==
    /\ clock \in HOUR..MaxTime
    /\ \A k \in DOMAIN ledger : k[2] \in Titles /\ ledger[k] \in Nat
    /\ \A i \in DOMAIN snapshots : i \in 1..ids.snapshots /\ snapshots[i].duration \in Nat
    /\ \A t \in DOMAIN workflows : workflows[t].status \in {"proposed", "accepted", "dismissed"}

TotalOf(f) == FoldSet(LAMBDA k, sum : sum + f[k], 0, DOMAIN f)

\* The time that is reported is time that has passed: whatever is interrupted, lost
\* or stored again, and however the clock is set, no stretch of work is counted twice.
NothingTwice == TotalOf(ledger) <= elapsed

\* Until something expires, the hours add up to what the snapshots lasted.
LedgerMatches ==
    wipes = 0 => TotalOf(ledger) = TotalOf([i \in DOMAIN snapshots |-> snapshots[i].duration])

\* The windows share an hour: together they are not given more than the hour, the
\* second that the rounding may move, and what the clock was set back by.
HoursFit ==
    \A k \in DOMAIN ledger : Reported(k[1]) <= HOUR + SECOND + backwards

\* A pattern is announced once, however often its window comes back, until retention
\* drops what was generated.
AnnouncedOnce == \A t \in Titles : announced[t] <= 1 + wipes

\* A pattern that the user has decided has no open reminder.
DecidedIsQuiet ==
    \A t \in DOMAIN workflows : workflows[t].status # "proposed" =>
        nudges[workflows[t].id] \notin {"pending", "ready"}

LedgerSound == NothingTwice /\ LedgerMatches /\ HoursFit
PatternsSound == AnnouncedOnce /\ DecidedIsQuiet
=============================================================================
