---------------------------- MODULE MemoryScheduler ----------------------------
(***************************************************************************)
(* The schedule of memory: which hours, weeks and months one run of the    *)
(* scheduler summarises, from which rows or summaries, and what capture,   *)
(* retention and a reset do meanwhile.  The calendar is scaled down: time  *)
(* is counted in hours, a week has two of them and a month three, so that  *)
(* a month still ends within a week.  The day and the year, each a whole   *)
(* number of its children as the week is here, are left out.  Of the rows  *)
(* of an hour a prompt holds as many as fit; which ones is any choice, as  *)
(* the order within the hour is not told apart.  The erasures end well:    *)
(* what a VACUUM that fails leaves behind is in DaemonData.                *)
(***************************************************************************)
EXTENDS Naturals, Sequences, FiniteSets, FiniteSetsExt

CONSTANTS
    BACKFILL,   \* MemoryScheduleConfig, the recent periods of every level
    RETENTION,  \* hours that a row is kept, or 0
    MAX_HOUR_SNAPSHOTS,  \* the most rows that an hour is summarised from
    PROMPT_ROWS,         \* the fewest rows that can fill a prompt
    MaxHour,    \* bound: where time stops
    MaxRows,    \* bound: snapshots
    MaxErases,  \* bound: resets and restarts
    MaxFaults   \* bound: generations that fail

VARIABLES
    now,
    rows,       \* the snapshots: where each began, when it was last seen
    capture,    \* the capture task: an observation to persist, or the row of the last
    chronicle,  \* the summaries, each with the rows it was made from and, a ghost, those
                \* that were there when it was
    epoch,      \* StorageMutationBarrier: data_epoch
    run,        \* the run of the scheduler
    reset,      \* a reset was asked for and waits for the run
    erases, faults

vars == <<now, rows, capture, chronicle, epoch, run, reset, erases, faults>>

Levels == {"hour", "week", "month"}
Hours == [hour |-> 1, week |-> 2, month |-> 3]
Child == [week |-> "hour", month |-> "week"]

\* containing_period
Containing(level, t) ==
    LET start == (t \div Hours[level]) * Hours[level] IN
    [level |-> level, start |-> start, end |-> start + Hours[level]]

Within(p, t) == t \in p.start..(p.end - 1)

\* child_periods
Children(p) == {Containing(Child[p.level], t) : t \in p.start..(p.end - 1)}

Row == [at : 0..MaxHour, seen : 0..MaxHour, gone : BOOLEAN]
Live == {r \in DOMAIN rows : ~rows[r].gone}
RowsIn(p) == {r \in Live : Within(p, rows[r].at)}

Done(p) == \E c \in chronicle : c.period = p

Idle ==
    [at |-> "idle", queue |-> <<>>, epoch |-> 0, of |-> {}, known |-> {}, cancelled |-> FALSE]
NoCapture == [pending |-> FALSE, row |-> 0, at |-> 0, seen |-> 0, epoch |-> 0]

Init ==
    /\ now = 0 /\ rows = <<>> /\ capture = NoCapture /\ chronicle = {} /\ epoch = 0
    /\ run = Idle /\ reset = FALSE /\ erases = 0 /\ faults = 0

-----------------------------------------------------------------------------
(***************************************************************************)
(* Time, capture, retention, reset.                                        *)
(***************************************************************************)
Tick ==
    /\ now < MaxHour
    /\ now' = now + 1
    /\ UNCHANGED <<rows, capture, chronicle, epoch, run, reset, erases, faults>>

\* A new foreground sequence, which begins with this observation.
Observe ==
    /\ ~capture.pending /\ ~reset /\ Len(rows) < MaxRows
    /\ capture' = [pending |-> TRUE, row |-> 0, at |-> now, seen |-> now, epoch |-> epoch]
    /\ UNCHANGED <<now, rows, chronicle, epoch, run, reset, erases, faults>>

\* The window is still in front: the sequence began where it did.  An erasure
\* that the task has noticed has ended it.
Coalesce ==
    /\ ~capture.pending /\ ~reset
    /\ capture.row # 0 /\ capture.epoch = epoch /\ now <= capture.seen + 1
    /\ capture' = [capture EXCEPT !.pending = TRUE, !.seen = now]
    /\ UNCHANGED <<now, rows, chronicle, epoch, run, reset, erases, faults>>

\* record_capture, once the mutation barrier is free: the row begins where its
\* sequence began, which may be an hour that is over, also when retention has
\* removed it meanwhile and it is inserted again.
Persist ==
    /\ capture.pending
    /\ LET row == [at |-> capture.at, seen |-> capture.seen, gone |-> FALSE] IN
       IF capture.row = 0
       THEN /\ rows' = Append(rows, row)
            /\ capture' = [capture EXCEPT !.pending = FALSE, !.row = Len(rows) + 1]
       ELSE /\ rows' = [rows EXCEPT ![capture.row] = row]
            /\ capture' = [capture EXCEPT !.pending = FALSE]
    /\ UNCHANGED <<now, chronicle, epoch, run, reset, erases, faults>>

\* The observation is lost, and the sequence with it.
PersistFails ==
    /\ capture.pending
    /\ capture' = NoCapture
    /\ UNCHANGED <<now, rows, chronicle, epoch, run, reset, erases, faults>>

\* enforce_retention with prune_expired_data, under the mutation barrier
Prune ==
    LET expired == {r \in Live : rows[r].seen + RETENTION < now} IN
    /\ RETENTION > 0 /\ expired # {}
    /\ rows' = [r \in DOMAIN rows |-> IF r \in expired THEN [rows[r] EXCEPT !.gone = TRUE]
                                      ELSE rows[r]]
    /\ chronicle' = {}
    /\ epoch' = epoch + 1
    /\ UNCHANGED <<now, capture, run, reset, erases, faults>>

\* delete_all_data with the capture gate its own, and begin_reset up to its wait for
\* the exclusive lease
AskReset ==
    /\ ~reset /\ ~capture.pending /\ erases < MaxErases
    /\ reset' = TRUE /\ erases' = erases + 1
    /\ run' = [run EXCEPT !.cancelled = @ \/ run.at # "idle"]
    /\ UNCHANGED <<now, rows, capture, chronicle, epoch, faults>>

\* delete_all_data and the release of the lease
Reset ==
    /\ reset /\ run.at = "idle"
    /\ reset' = FALSE
    /\ rows' = [r \in DOMAIN rows |-> [rows[r] EXCEPT !.gone = TRUE]]
    /\ chronicle' = {} /\ epoch' = epoch + 1
    /\ UNCHANGED <<now, capture, run, erases, faults>>

\* The daemon ends, at any point, and is started again.
Restart ==
    /\ ~reset /\ erases < MaxErases
    /\ run' = Idle /\ capture' = NoCapture /\ erases' = erases + 1
    /\ UNCHANGED <<now, rows, chronicle, epoch, reset, faults>>

-----------------------------------------------------------------------------
(***************************************************************************)
(* run_due_once.                                                           *)
(***************************************************************************)
End == run' = Idle

\* MemoryGenerationGate::begin_run, and the lookup of the key under way
StartRun ==
    /\ run.at = "idle" /\ ~reset
    /\ run' = [run EXCEPT !.at = "key"]
    /\ UNCHANGED <<now, rows, capture, chronicle, epoch, reset, erases, faults>>

\* due_periods, one level: the periods before the current one, oldest first, as far
\* back as time goes
Due(level) ==
    LET current == Containing(level, now).start
        n == Min({BACKFILL, current \div Hours[level]}) IN
    [k \in 1..n |-> Containing(level, current - (n + 1 - k) * Hours[level])]

CutoffFaulty(level) ==
    LET oldest == (BACKFILL + 1) * Hours[level]
        current == Containing(level, now).start IN
    IF current < oldest THEN 0 ELSE current - oldest

\* historical_cutoff
Cutoff(level) ==
    LET current == Containing(level, now).start IN
    IF current < BACKFILL * Hours[level] THEN 0 ELSE current - BACKFILL * Hours[level]

\* historical_periods, one level: the period of the latest row before the
\* recent ones that has no summary
Historical(level) ==
    LET missing == {rows[r].at : r \in {q \in Live : rows[q].at < Cutoff(level)
                                            /\ ~Done(Containing(level, rows[q].at))}} IN
    IF BACKFILL = 0 \/ missing = {} THEN <<>> ELSE <<Containing(level, Max(missing))>>

\* One list for each level, a level before the one that is made of it.
Lanes(lane) == lane["hour"] \o lane["week"] \o lane["month"]

\* MemoryGenerator::begin_run answers.
HaveKey ==
    /\ run.at = "key" /\ ~run.cancelled
    /\ run' = [run EXCEPT !.at = "next",
                          !.queue = Lanes([level \in Levels |-> Due(level)]) \o
                                    Lanes([level \in Levels |-> Historical(level)])]
    /\ UNCHANGED <<now, rows, capture, chronicle, epoch, reset, erases, faults>>

NoKey ==
    /\ run.at = "key" /\ (run.cancelled \/ faults < MaxFaults)
    /\ End
    /\ faults' = IF run.cancelled THEN faults ELSE faults + 1
    /\ UNCHANGED <<now, rows, capture, chronicle, epoch, reset, erases>>

EndRun ==
    /\ run.at = "next" /\ (run.cancelled \/ run.queue = <<>>)
    /\ End
    /\ UNCHANGED <<now, rows, capture, chronicle, epoch, reset, erases, faults>>

Period == Head(run.queue)
Next_(r) == [r EXCEPT !.at = "next", !.queue = Tail(r.queue), !.of = {}, !.known = {},
                         !.epoch = 0]

Missing(p) == {c \in Children(p) : ~Done(c)}
Overlap(c, p) == {r \in RowsIn(c) : Within(p, rows[r].at)}
DeferredFaulty(p) == FALSE

\* The frontier stays where a child with rows has no summary yet.
Deferred(p) == \E c \in Missing(p) : Overlap(c, p) # {}

\* What fits into the prompt of an hour, and what the summaries of a longer
\* period's children were made from.
Fits(p, of) ==
    /\ of \subseteq RowsIn(p) /\ Cardinality(of) <= MAX_HOUR_SNAPSHOTS
    /\ of = RowsIn(p) \/ Cardinality(of) >= PROMPT_ROWS
Sources(p) ==
    IF p.level = "hour" THEN {of \in SUBSET RowsIn(p) : Fits(p, of)}
    ELSE {UNION {c.of : c \in {d \in chronicle : d.period \in Children(p)}}}

Empty(p) ==
    IF p.level = "hour" THEN RowsIn(p) = {} ELSE \A c \in Children(p) : ~Done(c)

\* generate_hour and generate_rollup, up to the first request
Consider ==
    /\ run.at = "next" /\ run.queue # <<>> /\ ~run.cancelled
    /\ IF \/ Done(Period) \/ Empty(Period)
          \/ (Period.level # "hour" /\ Deferred(Period))
       THEN run' = Next_(run)
       ELSE \E of \in Sources(Period) :
               run' = [run EXCEPT !.at = "generate", !.epoch = epoch, !.of = of, !.known = Live]
    /\ UNCHANGED <<now, rows, capture, chronicle, epoch, reset, erases, faults>>

Answered ==
    /\ run.at = "generate" /\ ~run.cancelled
    /\ run' = [run EXCEPT !.at = "commit"]
    /\ UNCHANGED <<now, rows, capture, chronicle, epoch, reset, erases, faults>>

\* An answer that cannot be used, or a request that fails: the run goes on to
\* the next period.
Failed ==
    /\ run.at = "generate" /\ ~run.cancelled /\ faults < MaxFaults
    /\ run' = Next_(run) /\ faults' = faults + 1
    /\ UNCHANGED <<now, rows, capture, chronicle, epoch, reset, erases>>

\* A key that is refused ends the run; so does its cancellation.
GaveUp ==
    /\ run.at \in {"generate", "commit"}
    /\ run.cancelled \/ (run.at = "generate" /\ faults < MaxFaults)
    /\ End
    /\ faults' = IF run.cancelled THEN faults ELSE faults + 1
    /\ UNCHANGED <<now, rows, capture, chronicle, epoch, reset, erases>>

SameEpochFaulty == TRUE
SameEpoch == run.epoch = epoch

\* commit_hour_memory or insert_chronicle_if_absent, under the barrier
Commit ==
    /\ run.at = "commit" /\ ~run.cancelled
    /\ IF ~SameEpoch
       THEN End /\ UNCHANGED chronicle
       ELSE /\ run' = Next_(run)
            /\ chronicle' = IF Done(Period) THEN chronicle
                            ELSE chronicle \union {[period |-> Period, of |-> run.of, known |-> run.known]}
    /\ UNCHANGED <<now, rows, capture, epoch, reset, erases, faults>>

Next ==
    \/ Tick \/ Observe \/ Coalesce \/ Persist \/ PersistFails \/ Prune
    \/ AskReset \/ Reset \/ Restart
    \/ StartRun \/ HaveKey \/ NoKey \/ EndRun \/ Consider \/ Answered \/ Failed
    \/ GaveUp \/ Commit

Spec == Init /\ [][Next]_vars

\* Time passes, observations are persisted, the runs follow one another, and each
\* request ends.
Fairness ==
    /\ WF_vars(Tick) /\ WF_vars(Persist \/ PersistFails) /\ WF_vars(Reset)
    /\ WF_vars(StartRun) /\ WF_vars(HaveKey \/ NoKey) /\ WF_vars(EndRun) /\ WF_vars(Consider)
    /\ WF_vars(Answered \/ Failed \/ GaveUp) /\ WF_vars(Commit \/ GaveUp)

FairSpec == Spec /\ Fairness

-----------------------------------------------------------------------------
TypeOK ==
    /\ now \in 0..MaxHour
    /\ rows \in Seq(Row) /\ Len(rows) <= MaxRows
    /\ capture \in [pending : BOOLEAN, row : Nat, at : 0..MaxHour, seen : 0..MaxHour, epoch : Nat]
    /\ capture.row # 0 => capture.row \in DOMAIN rows /\ capture.at = rows[capture.row].at
    /\ capture.pending /\ capture.row = 0 => Len(rows) < MaxRows
    /\ \A c \in chronicle :
          /\ c.period.level \in Levels
          /\ c.period = Containing(c.period.level, c.period.start)
          /\ c.of \subseteq DOMAIN rows
    /\ run.at \in {"idle", "key", "next", "generate", "commit"}
    /\ run.at \in {"generate", "commit"} => run.queue # <<>>

\* The row was persisted after the summary was begun.
Late(c, r) == r \notin c.known

\* An hour's rows were more than fit into its prompt.
Crowded(c, r) ==
    c.period.level = "hour" /\ r \notin c.of /\ Cardinality(c.of) >= PROMPT_ROWS

\* The summary itself, and those of the row's shorter periods.
Beneath(c, r) ==
    {c} \cup {d \in chronicle : /\ Hours[d.period.level] < Hours[c.period.level]
                               /\ Within(d.period, rows[r].at)}

\* A summary is made from every row that began in its period, at every level,
\* although rows, summaries and whole stores come and go while it is made; but for
\* rows that did not fit into the prompt of their hour, and rows that came when it, or
\* one that it is made from, was begun.
NoPartialRollup ==
    \A c \in chronicle : \A r \in RowsIn(c.period) \ c.of :
        \E d \in Beneath(c, r) : Late(d, r) \/ Crowded(d, r)

\* What was erased, by the user or by its age, is in no summary: not even in
\* one that was being made meanwhile.
NoGhost == \A c \in chronicle : c.of \subseteq Live

Periods ==
    {p \in {Containing(level, t) : level \in Levels, t \in 0..MaxHour} : p.end <= MaxHour}
Owed(p) == RowsIn(p) # {} /\ ~Done(p)

\* Every period that is over by the time the model ends, and in which a row began, has a
\* summary at last, unless its rows are erased before.
HistoryCatchesUp == \A p \in Periods : Owed(p) ~> ~Owed(p)
================================================================================
