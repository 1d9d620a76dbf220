----------------------------- MODULE DaemonData -----------------------------
(***************************************************************************)
(* Who may touch captured data in woof_d, and when.  The capture loop, the *)
(* authenticated HTTP handlers, the memory generator and the retention     *)
(* service share one SQLite database.  They are kept apart by              *)
(*                                                                         *)
(*   gate         capture_policy_gate, an RwLock: a screen read and the    *)
(*                write that follows it run under a read lease             *)
(*   config       persisted_config, an RwLock used exclusively             *)
(*   barrier      StorageMutationBarrier.lock, a Mutex around every write  *)
(*   resetSerial, runSerial, runGate                                       *)
(*                MemoryGenerationGate, which joins memory runs before a   *)
(*                reset                                                    *)
(*                                                                         *)
(* and by two counters that invalidate work begun too early: data_epoch    *)
(* (rows were removed) and continuity_epoch (capture was paused).          *)
(*                                                                         *)
(* Time is counted in screen reads: read number n is "observation" n, and  *)
(* a snapshot holds the interval of observations that it merged.           *)
(***************************************************************************)
EXTENDS Integers, FairLocks

CONSTANTS
    Cap,             \* the capture task
    Pruner,          \* the retention task
    Runs,            \* tasks inside MemoryScheduler::run_due_once
    Requests,        \* HTTP handlers, each served once
    Kinds,           \* what a handler may be asked
    Apps,            \* applications, the only thing an exclusion list names
    Policies,        \* finite retention windows, counted in observations
    MaxObs,          \* bound: screen reads that return content
    VacuumMayFail,   \* may VACUUM or the checkpoint after a commit fail?
    Forever          \* the retention policy that never expires anything

RequestKinds ==
    {"pause", "resume", "blacklist", "deleteAll", "retention", "inline"}

Tasks == {Cap, Pruner} \cup Runs \cup Requests
Locks == {"gate", "config", "barrier", "resetSerial", "runSerial", "runGate"}

ASSUME TasksDistinct ==
    /\ Cap # Pruner
    /\ Cap \notin Runs \cup Requests
    /\ Pruner \notin Runs \cup Requests
    /\ \A m \in Runs : m \notin Requests
ASSUME KindsKnown == Kinds \subseteq RequestKinds
ASSUME BoundsKnown ==
    /\ MaxObs \in Nat
    /\ Policies \subseteq Nat \ {0}
    /\ VacuumMayFail \in BOOLEAN
    /\ Forever \notin Nat

VARIABLES
    lock,         \* the locks, each with its queue
    pc,           \* where each task is
    request,      \* what each handler was asked: [kind, apps, policy]
    reply,        \* what each handler answered
    control,      \* CaptureController and the settings: see ControlStates
    dataEpoch,    \* StorageMutationBarrier.data_epoch
    obs,          \* observations so far
    loop,         \* the capture task's own state: see LoopStates
    rows,         \* the snapshots table
    chronicle,    \* snapshot ids behind the committed hour memory, or none
    resetRequested,
    token,        \* the cancellation token of each registered run
    run,          \* what each memory run has read: [epoch, prompt]
    cutoff,       \* the cutoff a pruning task decided on
    wasPaused,    \* delete_all_data's local of that name
    history       \* what properties remember: see HistoryStates

vars == <<lock, pc, request, reply, control, dataEpoch, obs, loop, rows, chronicle,
          resetRequested, token, run, cutoff, wasPaused, history>>

Obs == 1..MaxObs
\* One foreground application over the observations first..last.
Spans == [app : Apps, first : Obs, last : Obs]
NoSpan == [first |-> 0]
\* A row of the snapshots table.  Its id is the observation that created it.
Snapshots == [id : Obs, span : Spans]
NoSnapshot == [id |-> 0]
NoMemory == [sources |-> {}, present |-> FALSE]

ControlStates ==
    [paused : BOOLEAN, continuity : Nat, blacklist : SUBSET Apps,
     retention : Policies \cup {Forever}]
\* pending is CapturePipeline.pending, seen its continuity epoch and the
\* loop's, applied the policy in use, active the active_snapshot_id.
LoopStates ==
    [pending : Spans \cup {NoSpan}, active : Obs \cup {0}, seen : Nat,
     epoch : Nat, applied : SUBSET Apps, candidate : Snapshots \cup {NoSnapshot}]
HistoryStates ==
    [pauses : SUBSET (0..MaxObs), \* a pause began right after observation p
     erased : 0..MaxObs,          \* delete-all committed after this observation
     expired : SUBSET Obs,        \* snapshots removed by retention
     wanted : BOOLEAN]            \* paused, as the last pause or resume asked

NoRequest == [kind |-> "none", apps |-> {}, policy |-> Forever]
ToResume == [kind |-> "resume", apps |-> {}, policy |-> Forever]
Asked ==
    [kind : Kinds \cap {"blacklist"}, apps : SUBSET Apps, policy : {Forever}] \cup
    [kind : Kinds \cap {"retention"}, apps : {{}}, policy : Policies \cup {Forever}] \cup
    [kind : Kinds \ {"blacklist", "retention"}, apps : {{}}, policy : {Forever}]

Replies == {"none", "ok", "error", "refused", "unavailable", "dropped"}

RequestPCs ==
    {"new", "pGate", "pPaused", "bGate", "bConfig", "bBarrier", "bSave",
     "rConfig", "rBarrier", "rSave", "rPrune", "rPruned", "iGate", "iRead",
     "dGate", "dSerial", "dFlag", "dQuiesce", "dBarrier", "dPause", "dErase", "dErased",
     "dResume", "dReset", "dRelease", "done"}
RunPCs == {"idle", "registered", "serial", "runGate", "plan", "gather", "llm", "commit"}
CapPCs == {"top", "lease", "read", "persist", "stored", "lost"}
PrunerPCs == {"idle", "barrier", "pruned"}

Init ==
    /\ lock = [l \in Locks |-> FreeLock(Tasks)]
    /\ pc = [t \in Tasks |-> IF t = Cap THEN "top"
                             ELSE IF t \in Requests THEN "new" ELSE "idle"]
    /\ request = [r \in Requests |-> NoRequest]
    /\ reply = [r \in Requests |-> "none"]
    /\ control \in [paused : BOOLEAN, continuity : {0}, blacklist : SUBSET Apps,
                    retention : Policies \cup {Forever}]
    /\ dataEpoch = 0
    /\ obs = 0
    /\ loop = [pending |-> NoSpan, active |-> 0, seen |-> 0, epoch |-> 0,
               applied |-> control.blacklist, candidate |-> NoSnapshot]
    /\ rows = {}
    /\ chronicle = NoMemory
    /\ resetRequested = FALSE
    /\ token = [m \in Runs |-> "none"]
    /\ run = [m \in Runs |-> [epoch |-> 0, prompt |-> {}]]
    /\ cutoff = [t \in {Pruner} \cup Requests |-> 0]
    /\ wasPaused = [r \in Requests |-> FALSE]
    /\ history = [pauses |-> {}, erased |-> 0, expired |-> {}, wanted |-> control.paused]

-----------------------------------------------------------------------------
(***************************************************************************)
(* Steps on locks.  acquire and drop are sets of <<lock, mode>> and of     *)
(* locks; a task never holds two guards of one lock.                       *)
(***************************************************************************)
Goto(t, place) == pc' = [pc EXCEPT ![t] = place]

Await(t, l, m) == lock' = [lock EXCEPT ![l] = Join(@, t, m)]

Drop(t, ls) ==
    lock' = [l \in Locks |-> IF l \in ls THEN Leave(lock[l], t) ELSE lock[l]]

DropAwait(t, ls, l, m) ==
    lock' = [k \in Locks |-> IF k \in ls THEN Leave(lock[k], t)
                             ELSE IF k = l THEN Join(lock[k], t, m) ELSE lock[k]]

(***************************************************************************)
(* Definitions whose name ends in Faulty state a plausible mistake in the  *)
(* one that follows them.  No specification uses them: each shows that a   *)
(* property would notice the mistake.                                      *)
(***************************************************************************)

-----------------------------------------------------------------------------
(***************************************************************************)
(* The capture task: spawn_capture_with_provider.                          *)
(***************************************************************************)
\* CaptureController::pause
Paused(c) ==
    [c EXCEPT !.paused = TRUE, !.continuity = IF c.paused THEN @ ELSE @ + 1]
Resumed(c) == [c EXCEPT !.paused = FALSE]

\* The pause is remembered where it interrupts the observations.
PauseNow(wanted) ==
    /\ control' = Paused(control)
    /\ history' = [history EXCEPT !.pauses = IF control.paused THEN @ ELSE @ \cup {obs},
                                  !.wanted = wanted]

\* clear_capture_continuity
Cleared(l) == [l EXCEPT !.pending = NoSpan, !.active = 0]

\* A pause between two attempts goes unnoticed.
ContinuedFaulty(l) == l

\* clear_for_controller_discontinuity, the loop's and the pipeline's
Continued(l) ==
    IF l.seen = control.continuity THEN l
    ELSE [Cleared(l) EXCEPT !.seen = control.continuity]

\* A pipeline built before rows were removed is replaced.
Refreshed(l) ==
    IF l.epoch = dataEpoch THEN l ELSE [Cleared(l) EXCEPT !.epoch = dataEpoch]

CapIdle ==
    /\ pc[Cap] = "top"
    /\ control.paused
    /\ loop' = Cleared(Continued(loop))
    /\ UNCHANGED <<lock, pc, request, reply, control, dataEpoch, obs, rows, chronicle,
                   resetRequested, token, run, cutoff, wasPaused, history>>

CapAskLease ==
    /\ pc[Cap] = "top"
    /\ ~control.paused
    /\ loop' = Continued(loop)
    /\ Await(Cap, "gate", "read")
    /\ Goto(Cap, "lease")
    /\ UNCHANGED <<request, reply, control, dataEpoch, obs, rows, chronicle,
                   resetRequested, token, run, cutoff, wasPaused, history>>

CapLeasePaused ==
    /\ pc[Cap] = "lease"
    /\ HoldsRead(lock["gate"], Cap)
    /\ control.paused
    /\ loop' = Cleared(loop)
    /\ Drop(Cap, {"gate"})
    /\ Goto(Cap, "top")
    /\ UNCHANGED <<request, reply, control, dataEpoch, obs, rows, chronicle,
                   resetRequested, token, run, cutoff, wasPaused, history>>

CapBeginRead ==
    /\ pc[Cap] = "lease"
    /\ HoldsRead(lock["gate"], Cap)
    /\ ~control.paused
    /\ loop' = [Refreshed(loop) EXCEPT !.applied = control.blacklist]
    /\ Goto(Cap, "read")
    /\ UNCHANGED <<lock, request, reply, control, dataEpoch, obs, rows, chronicle,
                   resetRequested, token, run, cutoff, wasPaused, history>>

\* The read fails, or what it found is excluded, protected, secure or empty.
CapSkip ==
    /\ pc[Cap] = "read"
    /\ loop' = Cleared(Continued(loop))
    /\ Drop(Cap, {"gate"})
    /\ Goto(Cap, "top")
    /\ UNCHANGED <<request, reply, control, dataEpoch, obs, rows, chronicle,
                   resetRequested, token, run, cutoff, wasPaused, history>>

\* CapturePipeline::process: the same application inside the window extends
\* the pending span, anything else starts a snapshot of its own.
Merges(l, app, near) == l.pending # NoSpan /\ near /\ l.pending.app = app

\* The window alone decides, also after the pending span was cleared.
ObservedFaulty(l, app, near, now) ==
    LET span == [app |-> app, first |-> IF near THEN l.pending.first ELSE now, last |-> now]
    IN  [l EXCEPT !.pending = span, !.active = IF near THEN 0 ELSE @,
                  !.candidate = [id |-> IF near /\ l.active # 0 THEN l.active ELSE now,
                                 span |-> span]]

Observed(l, app, near, now) ==
    LET merged == Merges(l, app, near)
        span == [app   |-> app,
                 first |-> IF merged THEN l.pending.first ELSE now,
                 last  |-> now]
        id == IF merged /\ l.active # 0 THEN l.active ELSE now
    IN  [l EXCEPT !.pending = span,
                  !.active = IF merged THEN 0 ELSE @,
                  !.candidate = [id |-> id, span |-> span]]

CapObserve(app, near) ==
    /\ pc[Cap] = "read"
    /\ obs < MaxObs
    /\ ~control.paused
    /\ app \notin loop.applied
    /\ obs' = obs + 1
    /\ loop' = Observed(Continued(loop), app, near, obs + 1)
    /\ Await(Cap, "barrier", "write")
    /\ Goto(Cap, "persist")
    /\ UNCHANGED <<request, reply, control, dataEpoch, rows, chronicle,
                   resetRequested, token, run, cutoff, wasPaused, history>>

\* Storage::record_capture: insert the candidate, or on a conflict of ids keep
\* the row's captured_at and the longer of the two durations.
Extended(row, c) ==
    [id |-> c.id,
     span |-> [app   |-> c.span.app,
               first |-> IF row.span.first < c.span.first THEN row.span.first ELSE c.span.first,
               last  |-> IF row.span.last > c.span.last THEN row.span.last ELSE c.span.last]]

Recorded(c) ==
    LET old == {row \in rows : row.id = c.id}
    IN  (rows \ old) \cup {Extended(row, c) : row \in old}
                     \cup (IF old = {} THEN {c} ELSE {})

CapPersist ==
    /\ pc[Cap] = "persist"
    /\ HoldsWrite(lock["barrier"], Cap)
    /\ Drop(Cap, {"barrier"})
    /\ \/ rows' = Recorded(loop.candidate) /\ Goto(Cap, "stored")
       \/ UNCHANGED rows /\ Goto(Cap, "lost")
    /\ UNCHANGED <<request, reply, control, dataEpoch, obs, loop, chronicle,
                   resetRequested, token, run, cutoff, wasPaused, history>>

\* update_capture_continuity_after_persist, then the lease is dropped.
CapEnd ==
    /\ pc[Cap] \in {"stored", "lost"}
    /\ loop' = IF pc[Cap] = "stored"
               THEN [loop EXCEPT !.active = loop.candidate.id, !.candidate = NoSnapshot]
               ELSE [Cleared(loop) EXCEPT !.candidate = NoSnapshot]
    /\ Drop(Cap, {"gate"})
    /\ Goto(Cap, "top")
    /\ UNCHANGED <<request, reply, control, dataEpoch, obs, rows, chronicle,
                   resetRequested, token, run, cutoff, wasPaused, history>>

CapStep ==
    \/ CapIdle \/ CapAskLease \/ CapLeasePaused \/ CapBeginRead \/ CapSkip
    \/ \E app \in Apps, near \in BOOLEAN : CapObserve(app, near)
    \/ CapPersist \/ CapEnd

-----------------------------------------------------------------------------
(***************************************************************************)
(* The handlers.  Each takes its locks in the order of the code, and may   *)
(* be dropped at an await by a client that disconnects.  A handler that    *)
(* has entered spawn_blocking can no longer be dropped: its guards moved   *)
(* into the closure.                                                       *)
(***************************************************************************)
FirstLock(kind) ==
    CASE kind = "pause"     -> <<"gate", "write", "pGate">>
      [] kind = "blacklist" -> <<"gate", "write", "bGate">>
      [] kind = "deleteAll" -> <<"gate", "write", "dGate">>
      [] kind = "inline"    -> <<"gate", "read", "iGate">>
      [] kind = "retention" -> <<"config", "write", "rConfig">>

Arrive(r, asked) ==
    /\ pc[r] = "new"
    /\ asked.kind \in Kinds \ {"resume"}
    /\ request' = [request EXCEPT ![r] = asked]
    /\ Await(r, FirstLock(asked.kind)[1], FirstLock(asked.kind)[2])
    /\ Goto(r, FirstLock(asked.kind)[3])
    /\ UNCHANGED <<reply, control, dataEpoch, obs, loop, rows, chronicle,
                   resetRequested, token, run, cutoff, wasPaused, history>>

\* capture_resume takes no lease; it is refused until Accessibility is ready.
Resume(r, ready) ==
    /\ pc[r] = "new"
    /\ "resume" \in Kinds
    /\ request' = [request EXCEPT ![r] = ToResume]
    /\ control' = IF ready THEN Resumed(control) ELSE control
    /\ reply' = [reply EXCEPT ![r] = IF ready THEN "ok" ELSE "refused"]
    /\ history' = [history EXCEPT !.wanted = IF ready THEN FALSE ELSE @]
    /\ Goto(r, "done")
    /\ UNCHANGED <<lock, dataEpoch, obs, loop, rows, chronicle, resetRequested,
                   token, run, cutoff, wasPaused>>

\* r answers and drops what it holds.
Answer(r, answer, ls) ==
    /\ reply' = [reply EXCEPT ![r] = answer]
    /\ Drop(r, ls)
    /\ Goto(r, "done")

\* r is granted l at `from` and goes on to wait for k at `to`.
GrantedThenAwait(r, from, l, k, m, to) ==
    /\ pc[r] = from
    /\ HoldsWrite(lock[l], r)
    /\ Await(r, k, m)
    /\ Goto(r, to)
    /\ UNCHANGED <<request, reply, control, dataEpoch, obs, loop, rows, chronicle,
                   resetRequested, token, run, cutoff, wasPaused, history>>

(* capture_pause *)
\* The pause does not wait for the capture lease.
PauseTakeFaulty(r) ==
    /\ pc[r] = "pGate"
    /\ PauseNow(TRUE)
    /\ Goto(r, "pPaused")
    /\ UNCHANGED <<lock, request, reply, dataEpoch, obs, loop, rows, chronicle,
                   resetRequested, token, run, cutoff, wasPaused>>

PauseTake(r) ==
    /\ pc[r] = "pGate"
    /\ HoldsWrite(lock["gate"], r)
    /\ PauseNow(TRUE)
    /\ Goto(r, "pPaused")
    /\ UNCHANGED <<lock, request, reply, dataEpoch, obs, loop, rows, chronicle,
                   resetRequested, token, run, cutoff, wasPaused>>

PauseAnswer(r) ==
    /\ pc[r] = "pPaused"
    /\ Answer(r, "ok", {"gate"})
    /\ UNCHANGED <<request, control, dataEpoch, obs, loop, rows, chronicle,
                   resetRequested, token, run, cutoff, wasPaused, history>>

(* set_blacklist *)
\* The list is replaced without waiting for the capture lease.
BlacklistConfigFaulty(r) ==
    /\ pc[r] = "bGate"
    /\ Await(r, "config", "write")
    /\ Goto(r, "bConfig")
    /\ UNCHANGED <<request, reply, control, dataEpoch, obs, loop, rows, chronicle,
                   resetRequested, token, run, cutoff, wasPaused, history>>

BlacklistConfig(r) == GrantedThenAwait(r, "bGate", "gate", "config", "write", "bConfig")
BlacklistBarrier(r) == GrantedThenAwait(r, "bConfig", "config", "barrier", "write", "bBarrier")

BlacklistStart(r) ==
    /\ pc[r] = "bBarrier"
    /\ HoldsWrite(lock["barrier"], r)
    /\ Goto(r, "bSave")
    /\ UNCHANGED <<lock, request, reply, control, dataEpoch, obs, loop, rows, chronicle,
                   resetRequested, token, run, cutoff, wasPaused, history>>

BlacklistSave(r) ==
    /\ pc[r] = "bSave"
    /\ \/ /\ control' = [control EXCEPT !.blacklist = request[r].apps]
          /\ Answer(r, "ok", {"gate", "config", "barrier"})
       \/ /\ UNCHANGED control
          /\ Answer(r, "error", {"gate", "config", "barrier"})
    /\ UNCHANGED <<request, dataEpoch, obs, loop, rows, chronicle,
                   resetRequested, token, run, cutoff, wasPaused, history>>

(* visible_inline_context *)
InlineStart(r) ==
    /\ pc[r] = "iGate"
    /\ HoldsRead(lock["gate"], r)
    /\ IF control.paused
       THEN Answer(r, "unavailable", {"gate"})
       ELSE Goto(r, "iRead") /\ UNCHANGED <<lock, reply>>
    /\ UNCHANGED <<request, control, dataEpoch, obs, loop, rows, chronicle,
                   resetRequested, token, run, cutoff, wasPaused, history>>

InlineAnswer(r) ==
    /\ pc[r] = "iRead"
    /\ Answer(r, "ok", {"gate"})
    /\ UNCHANGED <<request, control, dataEpoch, obs, loop, rows, chronicle,
                   resetRequested, token, run, cutoff, wasPaused, history>>

(* prune_expired_data and enforce_retention_locked *)
\* The subtraction does not saturate.
CutoffOfFaulty(policy) == obs - policy

CutoffOf(policy) == IF policy < obs THEN obs - policy ELSE 0

PruneLocks(t) == IF t = Pruner THEN {"barrier"} ELSE {"config", "barrier"}
Finish(t, answer) ==
    /\ Drop(t, PruneLocks(t))
    /\ Goto(t, IF t = Pruner THEN "idle" ELSE "done")
    /\ reply' = [r \in Requests |-> IF r = t THEN answer ELSE reply[r]]

\* The boundary is off by one.
ExpiredFaulty(c) == {row \in rows : row.span.last <= c}

Expired(c) == {row \in rows : row.span.last < c}

\* The transaction commits.  Nothing more happens when no row was removed.
PruneCommit(t) ==
    LET expired == Expired(cutoff[t])
    IN  /\ pc[t] = IF t = Pruner THEN "barrier" ELSE "rPrune"
        /\ HoldsWrite(lock["barrier"], t)
        /\ rows' = rows \ expired
        /\ chronicle' = IF expired = {} THEN chronicle ELSE NoMemory
        /\ history' = [history EXCEPT !.expired = @ \cup {row.id : row \in expired}]
        /\ IF expired = {}
           THEN Finish(t, "ok")
           ELSE Goto(t, IF t = Pruner THEN "pruned" ELSE "rPruned") /\ UNCHANGED <<lock, reply>>
        /\ UNCHANGED <<request, control, dataEpoch, obs, loop,
                       resetRequested, token, run, cutoff, wasPaused>>

\* data_epoch moves only when the index was rebuilt.
PruneFinishFaulty(t) ==
    /\ pc[t] = IF t = Pruner THEN "pruned" ELSE "rPruned"
    /\ \/ dataEpoch' = dataEpoch + 1 /\ Finish(t, "ok")
       \/ dataEpoch' = dataEpoch /\ Finish(t, "error")
    /\ UNCHANGED <<request, control, obs, loop, rows, chronicle,
                   resetRequested, token, run, cutoff, wasPaused, history>>

\* The semantic index is rebuilt, or not, and data_epoch moves either way.
PruneFinish(t) ==
    /\ pc[t] = IF t = Pruner THEN "pruned" ELSE "rPruned"
    /\ dataEpoch' = dataEpoch + 1
    /\ \E answer \in {"ok", "error"} : Finish(t, answer)
    /\ UNCHANGED <<request, control, obs, loop, rows, chronicle,
                   resetRequested, token, run, cutoff, wasPaused, history>>

\* The transaction fails, or what follows the commit does: `?` leaves early.
PruneFails(t) ==
    /\ \/ pc[t] = (IF t = Pruner THEN "barrier" ELSE "rPrune") /\ HoldsWrite(lock["barrier"], t)
       \/ VacuumMayFail /\ pc[t] = (IF t = Pruner THEN "pruned" ELSE "rPruned")
    /\ Finish(t, "error")
    /\ UNCHANGED <<request, control, dataEpoch, obs, loop, rows, chronicle,
                   resetRequested, token, run, cutoff, wasPaused, history>>

(* set_retention *)
RetentionBarrier(r) ==
    GrantedThenAwait(r, "rConfig", "config", "barrier", "write", "rBarrier")

RetentionStart(r) ==
    /\ pc[r] = "rBarrier"
    /\ HoldsWrite(lock["barrier"], r)
    /\ cutoff' = [cutoff EXCEPT ![r] =
                     IF request[r].policy = Forever THEN 0 ELSE CutoffOf(request[r].policy)]
    /\ Goto(r, "rSave")
    /\ UNCHANGED <<lock, request, reply, control, dataEpoch, obs, loop, rows, chronicle,
                   resetRequested, token, run, wasPaused, history>>

RetentionSave(r) ==
    /\ pc[r] = "rSave"
    /\ \/ /\ control' = [control EXCEPT !.retention = request[r].policy]
          /\ IF request[r].policy = Forever
             THEN Finish(r, "ok")
             ELSE Goto(r, "rPrune") /\ UNCHANGED <<lock, reply>>
       \/ UNCHANGED control /\ Finish(r, "error")
    /\ UNCHANGED <<request, dataEpoch, obs, loop, rows, chronicle,
                   resetRequested, token, run, cutoff, wasPaused, history>>

(* enforce_retention, called by the automation loop: the policy is read before *)
(* the barrier is asked for.                                                   *)
PrunerBegin ==
    /\ pc[Pruner] = "idle"
    /\ control.retention # Forever
    /\ cutoff' = [cutoff EXCEPT ![Pruner] = CutoffOf(control.retention)]
    /\ Await(Pruner, "barrier", "write")
    /\ Goto(Pruner, "barrier")
    /\ UNCHANGED <<request, reply, control, dataEpoch, obs, loop, rows, chronicle,
                   resetRequested, token, run, wasPaused, history>>

-----------------------------------------------------------------------------
(* delete_all_data and MemoryGenerationGate::begin_reset *)
DeleteSerial(r) == GrantedThenAwait(r, "dGate", "gate", "resetSerial", "write", "dSerial")

DeleteFlag(r) ==
    /\ pc[r] = "dSerial"
    /\ HoldsWrite(lock["resetSerial"], r)
    /\ resetRequested' = TRUE
    /\ Goto(r, "dFlag")
    /\ UNCHANGED <<lock, request, reply, control, dataEpoch, obs, loop, rows, chronicle,
                   token, run, cutoff, wasPaused, history>>

\* The reset only waits for the runs.
AllCancelledFaulty == token

\* cancel_active_runs
AllCancelled == [m \in Runs |-> IF token[m] = "none" THEN "none" ELSE "cancelled"]

DeleteQuiesce(r) ==
    /\ pc[r] = "dFlag"
    /\ token' = AllCancelled
    /\ Await(r, "runGate", "write")
    /\ Goto(r, "dQuiesce")
    /\ UNCHANGED <<request, reply, control, dataEpoch, obs, loop, rows, chronicle,
                   resetRequested, run, cutoff, wasPaused, history>>

\* The reset cancels the runs and does not wait for them.
DeleteBarrierFaulty(r) ==
    /\ pc[r] = "dQuiesce"
    /\ token' = AllCancelled
    /\ Await(r, "barrier", "write")
    /\ Goto(r, "dBarrier")
    /\ UNCHANGED <<request, reply, control, dataEpoch, obs, loop, rows, chronicle,
                   resetRequested, run, cutoff, wasPaused, history>>

DeleteBarrier(r) ==
    /\ pc[r] = "dQuiesce"
    /\ HoldsWrite(lock["runGate"], r)
    /\ token' = AllCancelled
    /\ Await(r, "barrier", "write")
    /\ Goto(r, "dBarrier")
    /\ UNCHANGED <<request, reply, control, dataEpoch, obs, loop, rows, chronicle,
                   resetRequested, run, cutoff, wasPaused, history>>

\* is_paused and pause are two accesses, and a resume may fall between them.
DeleteObserve(r) ==
    /\ pc[r] = "dBarrier"
    /\ HoldsWrite(lock["barrier"], r)
    /\ wasPaused' = [wasPaused EXCEPT ![r] = control.paused]
    /\ Goto(r, "dPause")
    /\ UNCHANGED <<lock, request, reply, control, dataEpoch, obs, loop, rows, chronicle,
                   resetRequested, token, run, cutoff, history>>

\* The capture lease is taken for protection enough.
DeletePauseFaulty(r) ==
    /\ pc[r] = "dPause"
    /\ Goto(r, "dErase")
    /\ UNCHANGED <<lock, request, reply, control, dataEpoch, obs, loop, rows, chronicle,
                   resetRequested, token, run, cutoff, wasPaused, history>>

DeletePause(r) ==
    /\ pc[r] = "dPause"
    /\ PauseNow(history.wanted)
    /\ Goto(r, "dErase")
    /\ UNCHANGED <<lock, request, reply, dataEpoch, obs, loop, rows, chronicle,
                   resetRequested, token, run, cutoff, wasPaused>>

DeleteCommit(r) ==
    /\ pc[r] = "dErase"
    /\ rows' = {}
    /\ chronicle' = NoMemory
    /\ history' = [history EXCEPT !.erased = obs]
    /\ Goto(r, "dErased")
    /\ UNCHANGED <<lock, request, reply, control, dataEpoch, obs, loop,
                   resetRequested, token, run, cutoff, wasPaused>>

\* delete_all_data()? leaves the closure before or after its commit.
DeleteFails(r) ==
    /\ pc[r] = "dErase" \/ (VacuumMayFail /\ pc[r] = "dErased")
    /\ reply' = [reply EXCEPT ![r] = "error"]
    /\ Goto(r, "dResume")
    /\ UNCHANGED <<lock, request, control, dataEpoch, obs, loop, rows, chronicle,
                   resetRequested, token, run, cutoff, wasPaused, history>>

\* The index and the identity file may each fail: the data is gone all the same.
DeleteFinish(r) ==
    /\ pc[r] = "dErased"
    /\ dataEpoch' = dataEpoch + 1
    /\ \E answer \in {"ok", "error"} : reply' = [reply EXCEPT ![r] = answer]
    /\ Goto(r, "dResume")
    /\ UNCHANGED <<lock, request, control, obs, loop, rows, chronicle,
                   resetRequested, token, run, cutoff, wasPaused, history>>

\* The closure's locals drop in reverse order: CaptureResumeOnDrop and the
\* barrier, then the reset lease, then the capture lease.
DeleteResume(r) ==
    /\ pc[r] = "dResume"
    /\ control' = IF wasPaused[r] THEN control ELSE Resumed(control)
    /\ Drop(r, {"barrier"})
    /\ Goto(r, "dReset")
    /\ UNCHANGED <<request, reply, dataEpoch, obs, loop, rows, chronicle,
                   resetRequested, token, run, cutoff, wasPaused, history>>

DeleteReset(r) ==
    /\ pc[r] = "dReset"
    /\ resetRequested' = FALSE
    /\ Goto(r, "dRelease")
    /\ UNCHANGED <<lock, request, reply, control, dataEpoch, obs, loop, rows, chronicle,
                   token, run, cutoff, wasPaused, history>>

DeleteRelease(r) ==
    /\ pc[r] = "dRelease"
    /\ Drop(r, {"resetSerial", "runGate", "gate"})
    /\ Goto(r, "done")
    /\ UNCHANGED <<request, reply, control, dataEpoch, obs, loop, rows, chronicle,
                   resetRequested, token, run, cutoff, wasPaused, history>>

\* The client disconnects at an await: guards and waiting futures are dropped,
\* and MemoryResetLease::drop withdraws its request.
Waiting == {"pGate", "pPaused", "bGate", "bConfig", "bBarrier", "rConfig", "rBarrier",
            "iGate", "dGate", "dSerial", "dQuiesce", "dBarrier"}

\* MemoryResetLease has no Drop.
DisconnectFaulty(r) ==
    /\ pc[r] \in Waiting
    /\ Answer(r, "dropped", Locks)
    /\ UNCHANGED <<request, control, dataEpoch, obs, loop, rows, chronicle,
                   resetRequested, token, run, cutoff, wasPaused, history>>

Disconnect(r) ==
    /\ pc[r] \in Waiting
    /\ resetRequested' = IF pc[r] \in {"dQuiesce", "dBarrier"} THEN FALSE ELSE resetRequested
    /\ Answer(r, "dropped", Locks)
    /\ UNCHANGED <<request, control, dataEpoch, obs, loop, rows, chronicle,
                   token, run, cutoff, wasPaused, history>>

-----------------------------------------------------------------------------
(***************************************************************************)
(* MemoryScheduler::run_due_once, over one hour.                           *)
(***************************************************************************)
RunLocks == {"runSerial", "runGate", "barrier"}

\* MemoryRunLease::drop
RunLeave(m) ==
    /\ token' = [token EXCEPT ![m] = "none"]
    /\ run' = [run EXCEPT ![m] = [epoch |-> 0, prompt |-> {}]]
    /\ Drop(m, RunLocks)
    /\ Goto(m, "idle")

RunUnchanged ==
    UNCHANGED <<request, reply, control, dataEpoch, obs, loop, rows, resetRequested,
                cutoff, wasPaused, history>>

RunRegister(m) ==
    /\ pc[m] = "idle"
    /\ token' = [token EXCEPT ![m] = "live"]
    /\ Goto(m, "registered")
    /\ UNCHANGED <<lock, chronicle, run>> /\ RunUnchanged

RunAwaitSerial(m) ==
    /\ pc[m] = "registered"
    /\ token' = [token EXCEPT ![m] = IF resetRequested THEN "cancelled" ELSE @]
    /\ Await(m, "runSerial", "write")
    /\ Goto(m, "serial")
    /\ UNCHANGED <<chronicle, run>> /\ RunUnchanged

RunAwaitGate(m) ==
    /\ pc[m] = "serial"
    /\ token[m] = "live"
    /\ HoldsWrite(lock["runSerial"], m)
    /\ ~resetRequested
    /\ Await(m, "runGate", "read")
    /\ Goto(m, "runGate")
    /\ UNCHANGED <<chronicle, token, run>> /\ RunUnchanged

RunEnter(m) ==
    /\ pc[m] = "runGate"
    /\ token[m] = "live"
    /\ HoldsRead(lock["runGate"], m)
    /\ ~resetRequested
    /\ Goto(m, "plan")
    /\ UNCHANGED <<lock, chronicle, token, run>> /\ RunUnchanged

\* The select! on the token, and the recheck of reset_requested once granted.
RunCancelled(m) ==
    /\ \/ pc[m] \in {"serial", "runGate", "plan", "llm", "commit"} /\ token[m] = "cancelled"
       \/ pc[m] = "serial" /\ HoldsWrite(lock["runSerial"], m) /\ resetRequested
       \/ pc[m] = "runGate" /\ HoldsRead(lock["runGate"], m) /\ resetRequested
    /\ RunLeave(m)
    /\ UNCHANGED chronicle /\ RunUnchanged

\* generate_hour reads data_epoch first, and only then the rows.
RunPlan(m) ==
    /\ pc[m] = "plan"
    /\ token[m] = "live"
    /\ run' = [run EXCEPT ![m].epoch = dataEpoch]
    /\ Goto(m, "gather")
    /\ UNCHANGED <<lock, chronicle, token>> /\ RunUnchanged

RunGather(m) ==
    /\ pc[m] = "gather"
    /\ IF chronicle.present \/ rows = {}
       THEN RunLeave(m)
       ELSE /\ run' = [run EXCEPT ![m].prompt = {row.id : row \in rows}]
            /\ Goto(m, "llm")
            /\ UNCHANGED <<lock, token>>
    /\ UNCHANGED chronicle /\ RunUnchanged

\* The completion arrives.
RunComplete(m) ==
    /\ pc[m] = "llm"
    /\ token[m] = "live"
    /\ Await(m, "barrier", "write")
    /\ Goto(m, "commit")
    /\ UNCHANGED <<chronicle, token, run>> /\ RunUnchanged

\* The completion fails.
RunFails(m) ==
    /\ pc[m] = "llm"
    /\ RunLeave(m)
    /\ UNCHANGED chronicle /\ RunUnchanged

\* commit_hour_memory, unless rows were removed since RunPlan.
RunCommit(m) ==
    /\ pc[m] = "commit"
    /\ token[m] = "live"
    /\ HoldsWrite(lock["barrier"], m)
    /\ \/ /\ run[m].epoch = dataEpoch
          /\ ~chronicle.present
          /\ chronicle' = [sources |-> run[m].prompt, present |-> TRUE]
       \/ UNCHANGED chronicle
    /\ RunLeave(m)
    /\ RunUnchanged

-----------------------------------------------------------------------------
PruneStep(t) == PruneCommit(t) \/ PruneFinish(t) \/ PruneFails(t)

\* What a handler does once it has been polled.
Serve(r) ==
    \/ PauseTake(r) \/ PauseAnswer(r)
    \/ BlacklistConfig(r) \/ BlacklistBarrier(r) \/ BlacklistStart(r) \/ BlacklistSave(r)
    \/ InlineStart(r) \/ InlineAnswer(r)
    \/ RetentionBarrier(r) \/ RetentionStart(r) \/ RetentionSave(r) \/ PruneStep(r)
    \/ DeleteSerial(r) \/ DeleteFlag(r) \/ DeleteQuiesce(r) \/ DeleteBarrier(r)
    \/ DeleteObserve(r) \/ DeletePause(r) \/ DeleteCommit(r) \/ DeleteFails(r) \/ DeleteFinish(r)
    \/ DeleteResume(r) \/ DeleteReset(r) \/ DeleteRelease(r)

\* What a run does without waiting for the network.
RunStep(m) ==
    \/ RunRegister(m) \/ RunAwaitSerial(m) \/ RunAwaitGate(m) \/ RunEnter(m)
    \/ RunCancelled(m) \/ RunPlan(m) \/ RunGather(m) \/ RunCommit(m)

Requested(r) ==
    \/ \E asked \in Asked : Arrive(r, asked)
    \/ \E ready \in BOOLEAN : Resume(r, ready)

Next ==
    \/ CapStep
    \/ PrunerBegin \/ PruneStep(Pruner)
    \/ \E r \in Requests : Requested(r) \/ Serve(r) \/ Disconnect(r)
    \/ \E m \in Runs : RunStep(m) \/ RunComplete(m) \/ RunFails(m)

Spec == Init /\ [][Next]_vars

-----------------------------------------------------------------------------
PCsTyped ==
    /\ pc \in [Tasks -> RequestPCs \cup RunPCs \cup CapPCs \cup PrunerPCs]
    /\ pc[Cap] \in CapPCs
    /\ pc[Pruner] \in PrunerPCs
    /\ \A m \in Runs : pc[m] \in RunPCs
    /\ \A r \in Requests : pc[r] \in RequestPCs

LocksTyped == lock \in [Locks -> LockStates(Tasks)]

CandidateKnown ==
    pc[Cap] \in {"persist", "stored", "lost"} => loop.candidate \in Snapshots

TypeOK ==
    /\ LocksTyped
    /\ PCsTyped
    /\ request \in [Requests -> Asked \cup {NoRequest, ToResume}]
    /\ reply \in [Requests -> Replies]
    /\ control \in ControlStates
    /\ dataEpoch \in Nat
    /\ obs \in 0..MaxObs
    /\ loop \in LoopStates
    /\ CandidateKnown
    /\ rows \subseteq Snapshots
    /\ chronicle \in [sources : SUBSET Obs, present : BOOLEAN]
    /\ resetRequested \in BOOLEAN
    /\ token \in [Runs -> {"none", "live", "cancelled"}]
    /\ run \in [Runs -> [epoch : Nat, prompt : SUBSET Obs]]
    /\ cutoff \in [{Pruner} \cup Requests -> 0..MaxObs]
    /\ wasPaused \in [Requests -> BOOLEAN]
    /\ history \in HistoryStates

\* A screen is being read, or its text is on the way to the database.
CaptureInFlight == pc[Cap] \in {"read", "persist", "stored", "lost"}
InlineInFlight == \E r \in Requests : pc[r] = "iRead"
RunInFlight == \E m \in Runs : pc[m] \in {"plan", "gather", "llm", "commit"}
Erasing == \E r \in Requests : pc[r] \in {"dPause", "dErase", "dErased", "dResume"}

\* While capture is paused no screen is being read and nothing that was read
\* is still on its way to the database: what the pause response promises
\* ("A successful pause response is a quiescence boundary").
PauseQuiescent == control.paused => ~CaptureInFlight /\ ~InlineInFlight

\* Delete-all works alone: from before its transaction until it lets go of
\* the barrier, no capture, contextual read or memory run is in flight.
ErasesAlone == Erasing => ~CaptureInFlight /\ ~InlineInFlight /\ ~RunInFlight

\* Nothing observed before a committed delete-all is stored afterwards, as a
\* snapshot, as the start of a merged snapshot, or as generated memory.
ErasedStaysErased ==
    /\ \A row \in rows : row.span.first > history.erased
    /\ \A id \in chronicle.sources : id > history.erased

\* Retention removes a snapshot for good: its id never comes back, although
\* the capture loop keeps an active id and extends that row by upsert.
ExpiredRowStaysExpired == \A row \in rows : row.id \notin history.expired

\* Generated memory never rests on a snapshot that retention removed, even
\* when the summary was being generated while the snapshot was removed
\* ("expired text cannot survive indirectly").
NoExpiredInMemory == chronicle.sources \cap history.expired = {}

\* The observed duration of a snapshot never spans a pause, including one
\* that began and ended between two attempts of the capture loop.
NoSpanAcrossPause ==
    \A row \in rows : \A p \in history.pauses : ~(row.span.first <= p /\ p < row.span.last)

\* A reset request is withdrawn by whoever made it: a flag left behind by a
\* dropped handler would stop memory generation for good.
ResetFlagOwned ==
    resetRequested =>
        \E r \in Requests :
            pc[r] \in {"dFlag", "dQuiesce", "dBarrier", "dPause", "dErase", "dErased",
                      "dResume", "dReset"}

\* No excluded application is stored: a row that is written or extended names
\* an application that the exclusion list in force allows at that moment.
ExclusionHonoured ==
    [][\A row \in rows' \ rows : row.span.app \notin control.blacklist]_vars

\* Outside delete-all, capture is paused exactly when the last acknowledged
\* pause or resume left it so ("Capture can be paused or resumed at any time").
LastRequestWins ==
    (\A r \in Requests : pc[r] \notin {"dErase", "dErased", "dResume"})
        => control.paused = history.wanted

-----------------------------------------------------------------------------
\* Each task runs when it can.  A capture attempt is a bounded synchronous
\* read and blocking closures finish; a client need not send or disconnect,
\* and a completion from the network need never arrive (RunComplete, RunFails).
Fairness ==
    /\ WF_vars(CapStep)
    /\ WF_vars(PruneStep(Pruner))
    /\ \A r \in Requests : WF_vars(Serve(r))
    /\ \A m \in Runs : WF_vars(RunStep(m))

FairSpec == Spec /\ Fairness

\* Every request that has been accepted is answered or dropped: no circular
\* wait among the locks, no starvation behind the capture loop, and no reset
\* that waits for a completion which the network never delivers.
EveryRequestEnds == \A r \in Requests : pc[r] # "new" ~> pc[r] = "done"
=============================================================================
