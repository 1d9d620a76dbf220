-------------------------- MODULE DaemonDataProofs --------------------------
(***************************************************************************)
(* Theorems of DaemonData, for any number of handlers, memory runs and     *)
(* applications, and any bound on the observations.                        *)
(***************************************************************************)
EXTENDS DaemonData, TLAPS

-----------------------------------------------------------------------------
(***************************************************************************)
(* What FairLocks promises to its users: the queue stays a total order,    *)
(* what is granted stays granted until its holder leaves, and a writer is  *)
(* alone.                                                                  *)
(***************************************************************************)
\* A lock of tasks T is a pair of functions on T.
LEMMA FreeLockIsWellQueued ==
    ASSUME NEW T
    PROVE  /\ FreeLock(T) \in LockStates(T)
           /\ WellQueued(FreeLock(T))
BY DEF FreeLock, LockStates, Modes, WellQueued, Queued

\* Joining and leaving keep the lock a lock.
LEMMA LockStatesClosed ==
    ASSUME NEW T, NEW lk \in LockStates(T), NEW t \in T, NEW m \in Modes
    PROVE  /\ Join(lk, t, m) \in LockStates(T)
           /\ Leave(lk, t) \in LockStates(T)
BY DEF LockStates, Join, Leave, Queued, Modes

\* A task that is not in the queue may join it.
LEMMA JoinKeepsOrder ==
    ASSUME NEW T, NEW lk \in LockStates(T), WellQueued(lk),
           NEW t \in T, lk.mode[t] = "none", NEW m \in {"read", "write"}
    PROVE  WellQueued(Join(lk, t, m))
BY DEF LockStates, Join, WellQueued, Queued, Modes

\* Any task may leave.
LEMMA LeaveKeepsOrder ==
    ASSUME NEW T, NEW lk \in LockStates(T), WellQueued(lk), NEW t \in T
    PROVE  WellQueued(Leave(lk, t))
BY DEF LockStates, Leave, WellQueued, Queued, Modes

\* A grant survives whoever joins behind it.
LEMMA JoinKeepsGrants ==
    ASSUME NEW T, NEW lk \in LockStates(T), WellQueued(lk),
           NEW t \in T, lk.mode[t] = "none", NEW m \in Modes,
           NEW u \in T, u # t, Holds(lk, u)
    PROVE  Holds(Join(lk, t, m), u)
BY DEF LockStates, Join, WellQueued, Queued, Modes, Holds

\* A grant survives whoever else leaves.
LEMMA LeaveKeepsGrants ==
    ASSUME NEW T, NEW lk \in LockStates(T),
           NEW t \in T, NEW u \in T, u # t, Holds(lk, u)
    PROVE  Holds(Leave(lk, t), u)
BY DEF LockStates, Leave, Modes, Holds

\* Two tasks hold a lock together only when both read.
LEMMA WriterIsAlone ==
    ASSUME NEW T, NEW lk \in LockStates(T), WellQueued(lk),
           NEW t \in T, NEW u \in T, HoldsWrite(lk, t), Holds(lk, u)
    PROVE  t = u
BY DEF LockStates, WellQueued, Queued, Modes, Holds, HoldsWrite

-----------------------------------------------------------------------------
(***************************************************************************)
(* Type correctness.                                                       *)
(***************************************************************************)
\* The kinds of task are distinct.
LEMMA TaskKinds ==
    /\ Cap \in Tasks /\ Pruner \in Tasks /\ Runs \subseteq Tasks /\ Requests \subseteq Tasks
    /\ Cap # Pruner /\ Cap \notin Runs /\ Cap \notin Requests
    /\ Pruner \notin Runs /\ Pruner \notin Requests
    /\ \A m \in Runs : m \notin Requests
<1>1. Cap \in Tasks /\ Pruner \in Tasks /\ Runs \subseteq Tasks /\ Requests \subseteq Tasks
  BY DEF Tasks
<1> QED
  BY <1>1, TasksDistinct

\* Waiting for a lock, and dropping some, keep the locks locks.
LEMMA AwaitTyped ==
    ASSUME LocksTyped, NEW t \in Tasks, NEW l \in Locks, NEW m \in Modes, Await(t, l, m)
    PROVE  LocksTyped'
<1>1. Join(lock[l], t, m) \in LockStates(Tasks)
  BY LockStatesClosed DEF LocksTyped
<1> QED
  BY <1>1 DEF Await, LocksTyped

\* Dropping some of the locks keeps them locks.
LEMMA DropTyped ==
    ASSUME LocksTyped, NEW t \in Tasks, NEW ls, Drop(t, ls)
    PROVE  LocksTyped'
<1>1. \A l \in Locks : Leave(lock[l], t) \in LockStates(Tasks)
  BY LockStatesClosed DEF Modes, LocksTyped
<1> QED
  BY <1>1 DEF Drop, LocksTyped

\* The operators on the capture task's state stay in it.
LEMMA LoopClosed ==
    ASSUME NEW l \in LoopStates, control \in ControlStates, dataEpoch \in Nat
    PROVE  /\ Cleared(l) \in LoopStates
           /\ Continued(l) \in LoopStates
           /\ Refreshed(l) \in LoopStates
BY DEF LoopStates, ControlStates, Cleared, Continued, Refreshed

\* Each kind of task stays in its own part of the code.
LEMMA CapGoto ==
    ASSUME PCsTyped, NEW place \in CapPCs, Goto(Cap, place)
    PROVE  PCsTyped' /\ pc'[Cap] = place
<1>1. Cap \in Tasks
  BY TaskKinds
<1>2. /\ pc' \in [Tasks -> RequestPCs \cup RunPCs \cup CapPCs \cup PrunerPCs]
      /\ pc'[Cap] = place
      /\ \A u \in Tasks : u # Cap => pc'[u] = pc[u]
  BY <1>1 DEF PCsTyped, Goto
<1> QED
  BY <1>1, <1>2, TaskKinds DEF PCsTyped

\* The retention task stays in its code.
LEMMA PrunerGoto ==
    ASSUME PCsTyped, NEW place \in PrunerPCs, Goto(Pruner, place)
    PROVE  PCsTyped' /\ pc'[Cap] = pc[Cap]
<1>1. Pruner \in Tasks
  BY TaskKinds
<1>2. /\ pc' \in [Tasks -> RequestPCs \cup RunPCs \cup CapPCs \cup PrunerPCs]
      /\ pc'[Pruner] = place
      /\ \A u \in Tasks : u # Pruner => pc'[u] = pc[u]
  BY <1>1 DEF PCsTyped, Goto
<1> QED
  BY <1>1, <1>2, TaskKinds DEF PCsTyped

\* A run stays in its code.
LEMMA RunGoto ==
    ASSUME PCsTyped, NEW m \in Runs, NEW place \in RunPCs, Goto(m, place)
    PROVE  PCsTyped' /\ pc'[Cap] = pc[Cap]
<1>1. m \in Tasks
  BY TaskKinds
<1>2. /\ pc' \in [Tasks -> RequestPCs \cup RunPCs \cup CapPCs \cup PrunerPCs]
      /\ pc'[m] = place
      /\ \A u \in Tasks : u # m => pc'[u] = pc[u]
  BY <1>1 DEF PCsTyped, Goto
<1> QED
  BY <1>1, <1>2, TaskKinds DEF PCsTyped

\* A handler stays in its code.
LEMMA RequestGoto ==
    ASSUME PCsTyped, NEW r \in Requests, NEW place \in RequestPCs, Goto(r, place)
    PROVE  PCsTyped' /\ pc'[Cap] = pc[Cap]
<1>1. r \in Tasks
  BY TaskKinds
<1>2. /\ pc' \in [Tasks -> RequestPCs \cup RunPCs \cup CapPCs \cup PrunerPCs]
      /\ pc'[r] = place
      /\ \A u \in Tasks : u # r => pc'[u] = pc[u]
  BY <1>1 DEF PCsTyped, Goto
<1> QED
  BY <1>1, <1>2, TaskKinds DEF PCsTyped

\* The names of locks and modes.
LEMMA LocksKnown ==
    /\ {"gate", "config", "barrier", "resetSerial", "runSerial", "runGate"} = Locks
    /\ {"none", "read", "write"} = Modes
BY DEF Locks, Modes

\* An answer is a reply, and it ends the handler.
LEMMA AnswerTyped ==
    ASSUME TypeOK, NEW r \in Requests, NEW answer \in Replies, NEW ls, Answer(r, answer, ls)
    PROVE  LocksTyped' /\ PCsTyped' /\ pc'[Cap] = pc[Cap] /\ reply' \in [Requests -> Replies]
<1>1. LocksTyped'
  BY TaskKinds, DropTyped DEF Answer, TypeOK
<1>2. PCsTyped' /\ pc'[Cap] = pc[Cap]
  BY RequestGoto DEF Answer, TypeOK, RequestPCs
<1> QED
  BY <1>1, <1>2 DEF Answer, TypeOK

\* A handler that goes from one lock to the next keeps the types.
LEMMA GrantedTyped ==
    ASSUME TypeOK, NEW r \in Requests, NEW from, NEW l \in Locks, NEW k \in Locks,
           NEW m \in Modes, NEW to \in RequestPCs, GrantedThenAwait(r, from, l, k, m, to)
    PROVE  TypeOK'
<1>1. LocksTyped'
  BY TaskKinds, AwaitTyped DEF GrantedThenAwait, TypeOK
<1>2. PCsTyped' /\ pc'[Cap] = pc[Cap]
  BY RequestGoto DEF GrantedThenAwait, TypeOK
<1> QED
  BY <1>1, <1>2 DEF GrantedThenAwait, TypeOK, CandidateKnown

\* The end of a pruning keeps the types.
LEMMA FinishTyped ==
    ASSUME TypeOK, NEW t \in {Pruner} \cup Requests, NEW answer \in Replies, Finish(t, answer)
    PROVE  LocksTyped' /\ PCsTyped' /\ pc'[Cap] = pc[Cap] /\ reply' \in [Requests -> Replies]
<1>1. LocksTyped'
  BY TaskKinds, DropTyped DEF Finish, TypeOK
<1>2. PCsTyped' /\ pc'[Cap] = pc[Cap]
  BY RequestGoto, PrunerGoto DEF Finish, TypeOK, RequestPCs, PrunerPCs
<1> QED
  BY <1>1, <1>2 DEF Finish, TypeOK

\* The end of a run keeps the types.
LEMMA RunLeaveTyped ==
    ASSUME TypeOK, NEW m \in Runs, RunLeave(m)
    PROVE  /\ LocksTyped' /\ PCsTyped' /\ pc'[Cap] = pc[Cap]
           /\ token' \in [Runs -> {"none", "live", "cancelled"}]
           /\ run' \in [Runs -> [epoch : Nat, prompt : SUBSET Obs]]
<1>1. LocksTyped'
  BY TaskKinds, DropTyped DEF RunLeave, TypeOK
<1>2. PCsTyped' /\ pc'[Cap] = pc[Cap]
  BY RunGoto DEF RunLeave, TypeOK, RunPCs
<1> QED
  BY <1>1, <1>2 DEF RunLeave, TypeOK

\* A pause keeps the settings and the history well typed.
LEMMA PauseTyped ==
    ASSUME TypeOK, NEW w \in BOOLEAN, PauseNow(w)
    PROVE  control' \in ControlStates /\ history' \in HistoryStates
<1>1. control' \in ControlStates
  <2>1. (IF control.paused THEN control.continuity ELSE control.continuity + 1) \in Nat
    BY DEF TypeOK, ControlStates
  <2>2. Paused(control) \in ControlStates
    BY <2>1 DEF Paused, TypeOK, ControlStates
  <2> QED
    BY <2>2 DEF PauseNow
<1>2. (IF control.paused THEN history.pauses ELSE history.pauses \cup {obs}) \in SUBSET (0..MaxObs)
  BY DEF TypeOK, HistoryStates
<1>3. history' \in HistoryStates
  BY <1>2 DEF PauseNow, TypeOK, HistoryStates
<1> QED
  BY <1>1, <1>3

\* So does a resume.
LEMMA ResumedTyped ==
    ASSUME TypeOK
    PROVE  Resumed(control) \in ControlStates
BY DEF Resumed, TypeOK, ControlStates

\* What an attempt observes and what the database keeps of it.
LEMMA ObservedTyped ==
    ASSUME NEW l \in LoopStates, NEW app \in Apps, NEW near \in BOOLEAN, NEW now \in Obs
    PROVE  /\ Observed(l, app, near, now) \in LoopStates
           /\ Observed(l, app, near, now).candidate \in Snapshots
<1> DEFINE merged == Merges(l, app, near)
           span == [app |-> app, first |-> IF merged THEN l.pending.first ELSE now, last |-> now]
           id == IF merged /\ l.active # 0 THEN l.active ELSE now
<1>1. l.pending \in Spans \/ l.pending = NoSpan
  BY DEF LoopStates
<1>2. merged => l.pending \in Spans
  BY <1>1 DEF Merges
<1>3. span \in Spans
  BY <1>2 DEF Spans
<1>4. id \in Obs
  BY DEF LoopStates
<1>5. [id |-> id, span |-> span] \in Snapshots
  BY <1>3, <1>4 DEF Snapshots
<1> HIDE DEF merged, span, id
<1>6. Observed(l, app, near, now) =
        [l EXCEPT !.pending = span, !.active = IF merged THEN 0 ELSE @,
                  !.candidate = [id |-> id, span |-> span]]
  BY DEF Observed, merged, span, id
<1> QED
  BY <1>3, <1>5, <1>6 DEF LoopStates

\* What the upsert leaves in the table is a set of snapshots.
LEMMA RecordedTyped ==
    ASSUME TypeOK, NEW c \in Snapshots
    PROVE  Recorded(c) \subseteq Snapshots
BY DEF TypeOK, Recorded, Extended, Snapshots, Spans, Obs

\* Every step of the capture task keeps the types.
LEMMA CapStepTyped ==
    ASSUME TypeOK, CapStep
    PROVE  TypeOK'
<1>0. Cap \in Tasks
  BY TaskKinds
<1>1. CASE CapIdle
  <2>1. loop' \in LoopStates
    BY <1>1, LoopClosed DEF CapIdle, TypeOK
  <2> QED
    BY <1>1, <2>1 DEF CapIdle, TypeOK, LocksTyped, PCsTyped, CandidateKnown
<1>2. CASE CapAskLease
  <2>1. LocksTyped'
    BY <1>0, <1>2, AwaitTyped, LocksKnown DEF CapAskLease, TypeOK
  <2>2. PCsTyped' /\ pc'[Cap] = "lease"
    BY <1>2, CapGoto DEF CapAskLease, TypeOK, CapPCs
  <2>3. loop' \in LoopStates
    BY <1>2, LoopClosed DEF CapAskLease, TypeOK
  <2> QED
    BY <1>2, <2>1, <2>2, <2>3 DEF CapAskLease, TypeOK, CandidateKnown
<1>3. CASE CapLeasePaused
  <2>1. LocksTyped'
    BY <1>0, <1>3, DropTyped DEF CapLeasePaused, TypeOK
  <2>2. PCsTyped' /\ pc'[Cap] = "top"
    BY <1>3, CapGoto DEF CapLeasePaused, TypeOK, CapPCs
  <2>3. loop' \in LoopStates
    BY <1>3, LoopClosed DEF CapLeasePaused, TypeOK
  <2> QED
    BY <1>3, <2>1, <2>2, <2>3 DEF CapLeasePaused, TypeOK, CandidateKnown
<1>4. CASE CapBeginRead
  <2>1. PCsTyped' /\ pc'[Cap] = "read"
    BY <1>4, CapGoto DEF CapBeginRead, TypeOK, CapPCs
  <2>2. Refreshed(loop) \in LoopStates
    BY LoopClosed DEF TypeOK
  <2>3. loop' \in LoopStates
    BY <1>4, <2>2 DEF CapBeginRead, TypeOK, LoopStates, ControlStates
  <2> QED
    BY <1>4, <2>1, <2>3 DEF CapBeginRead, TypeOK, LocksTyped, CandidateKnown
<1>5. CASE CapSkip
  <2>1. LocksTyped'
    BY <1>0, <1>5, DropTyped DEF CapSkip, TypeOK
  <2>2. PCsTyped' /\ pc'[Cap] = "top"
    BY <1>5, CapGoto DEF CapSkip, TypeOK, CapPCs
  <2>3. loop' \in LoopStates
    BY <1>5, LoopClosed DEF CapSkip, TypeOK
  <2> QED
    BY <1>5, <2>1, <2>2, <2>3 DEF CapSkip, TypeOK, CandidateKnown
<1>6. ASSUME NEW app \in Apps, NEW near \in BOOLEAN, CapObserve(app, near)
      PROVE  TypeOK'
  <2>1. LocksTyped'
    BY <1>0, <1>6, AwaitTyped, LocksKnown DEF CapObserve, TypeOK
  <2>2. PCsTyped' /\ pc'[Cap] = "persist"
    BY <1>6, CapGoto DEF CapObserve, TypeOK, CapPCs
  <2>3. obs' = obs + 1 /\ obs' \in Obs
    BY <1>6, BoundsKnown DEF CapObserve, TypeOK, Obs
  <2>4. Continued(loop) \in LoopStates
    BY LoopClosed DEF TypeOK
  <2>5. loop' \in LoopStates /\ loop'.candidate \in Snapshots
    BY <1>6, <2>3, <2>4, ObservedTyped DEF CapObserve
  <2> QED
    BY <1>6, <2>1, <2>2, <2>3, <2>5 DEF CapObserve, TypeOK, Obs, CandidateKnown
<1>7. CASE CapPersist
  <2>1. LocksTyped'
    BY <1>0, <1>7, DropTyped DEF CapPersist, TypeOK
  <2>2. PCsTyped'
    BY <1>7, CapGoto DEF CapPersist, TypeOK, CapPCs
  <2>3. rows' \subseteq Snapshots
    BY <1>7, RecordedTyped DEF CapPersist, TypeOK, CandidateKnown
  <2> QED
    BY <1>7, <2>1, <2>2, <2>3 DEF CapPersist, TypeOK, CandidateKnown
<1>8. CASE CapEnd
  <2>1. LocksTyped'
    BY <1>0, <1>8, DropTyped DEF CapEnd, TypeOK
  <2>2. PCsTyped' /\ pc'[Cap] = "top"
    BY <1>8, CapGoto DEF CapEnd, TypeOK, CapPCs
  <2>3. loop' \in LoopStates
    BY <1>8, LoopClosed DEF CapEnd, TypeOK, CandidateKnown, LoopStates, Snapshots,
       NoSnapshot, Obs
  <2> QED
    BY <1>8, <2>1, <2>2, <2>3 DEF CapEnd, TypeOK, CandidateKnown
<1> QED
  BY <1>1, <1>2, <1>3, <1>4, <1>5, <1>6, <1>7, <1>8 DEF CapStep

\* Every pruning step keeps the types.
LEMMA PruneStepTyped ==
    ASSUME TypeOK, NEW t \in {Pruner} \cup Requests, PruneStep(t)
    PROVE  TypeOK'
<1>0. t \in Tasks
  BY TaskKinds
<1>1. CASE PruneCommit(t)
  <2>1. LocksTyped' /\ PCsTyped' /\ pc'[Cap] = pc[Cap] /\ reply' \in [Requests -> Replies]
    BY <1>1, FinishTyped, RequestGoto, PrunerGoto DEF PruneCommit, TypeOK, Replies,
       LocksTyped, RequestPCs, PrunerPCs
  <2>2. Expired(cutoff[t]) \subseteq Snapshots
    BY <1>1 DEF Expired, TypeOK
  <2>3. {row.id : row \in Expired(cutoff[t])} \subseteq Obs
    BY <1>1, <2>2 DEF Snapshots
  <2>4. history' \in HistoryStates
    BY <1>1, <2>3 DEF PruneCommit, TypeOK, HistoryStates
  <2>5. chronicle' \in [sources : SUBSET Obs, present : BOOLEAN]
    BY <1>1 DEF PruneCommit, TypeOK, NoMemory
  <2> QED
    BY <1>1, <2>1, <2>2, <2>3, <2>4, <2>5 DEF PruneCommit, TypeOK, CandidateKnown
<1>2. CASE PruneFinish(t)
  <2>1. LocksTyped' /\ PCsTyped' /\ pc'[Cap] = pc[Cap] /\ reply' \in [Requests -> Replies]
    BY <1>2, FinishTyped DEF PruneFinish, Replies
  <2> QED
    BY <1>2, <2>1 DEF PruneFinish, TypeOK, CandidateKnown
<1>3. CASE PruneFails(t)
  <2>1. LocksTyped' /\ PCsTyped' /\ pc'[Cap] = pc[Cap] /\ reply' \in [Requests -> Replies]
    BY <1>3, FinishTyped DEF PruneFails, Replies
  <2> QED
    BY <1>3, <2>1 DEF PruneFails, TypeOK, CandidateKnown
<1> QED
  BY <1>1, <1>2, <1>3 DEF PruneStep

\* What a handler was asked names applications and a policy.
LEMMA RequestKnown ==
    ASSUME TypeOK, NEW r \in Requests
    PROVE  request[r].apps \in SUBSET Apps /\ request[r].policy \in Policies \cup {Forever}
BY DEF TypeOK, Asked, NoRequest, ToResume

\* Every cutoff is an observation or zero.
LEMMA CutoffTyped ==
    ASSUME obs \in 0..MaxObs, NEW p \in Policies
    PROVE  CutoffOf(p) \in 0..MaxObs
BY BoundsKnown DEF CutoffOf

\* Every step of the retention task's own keeps the types.
LEMMA PrunerBeginTyped ==
    ASSUME TypeOK, PrunerBegin
    PROVE  TypeOK'
<1>1. LocksTyped'
  BY TaskKinds, AwaitTyped, LocksKnown DEF PrunerBegin, TypeOK
<1>2. PCsTyped' /\ pc'[Cap] = pc[Cap]
  BY PrunerGoto DEF PrunerBegin, TypeOK, PrunerPCs
<1>3. CutoffOf(control.retention) \in 0..MaxObs
  BY CutoffTyped DEF PrunerBegin, TypeOK, ControlStates
<1> QED
  BY <1>1, <1>2, <1>3 DEF PrunerBegin, TypeOK, CandidateKnown

\* The arrival of a request keeps the types.
LEMMA RequestedTyped ==
    ASSUME TypeOK, NEW r \in Requests, Requested(r)
    PROVE  TypeOK'
<1>0. r \in Tasks
  BY TaskKinds
<1>1. ASSUME NEW asked \in Asked, Arrive(r, asked)
      PROVE  TypeOK'
  <2>1. asked.kind \in {"pause", "blacklist", "deleteAll", "inline", "retention"}
    BY <1>1, KindsKnown DEF Arrive, RequestKinds
  <2>2. /\ FirstLock(asked.kind)[1] \in Locks
        /\ FirstLock(asked.kind)[2] \in Modes
        /\ FirstLock(asked.kind)[3] \in RequestPCs
    BY <2>1 DEF FirstLock, Locks, Modes, RequestPCs
  <2>3. LocksTyped'
    BY <1>0, <1>1, <2>2, AwaitTyped DEF Arrive, TypeOK
  <2>4. PCsTyped' /\ pc'[Cap] = pc[Cap]
    BY <1>1, <2>2, RequestGoto DEF Arrive, TypeOK
  <2> QED
    BY <1>1, <2>3, <2>4 DEF Arrive, TypeOK, CandidateKnown
<1>2. ASSUME NEW ready \in BOOLEAN, Resume(r, ready)
      PROVE  TypeOK'
  <2>1. PCsTyped' /\ pc'[Cap] = pc[Cap]
    BY <1>2, RequestGoto DEF Resume, TypeOK, RequestPCs
  <2>2. control' \in ControlStates
    BY <1>2, ResumedTyped DEF Resume, TypeOK
  <2>3. history' \in HistoryStates
    BY <1>2 DEF Resume, TypeOK, HistoryStates
  <2> QED
    BY <1>2, <2>1, <2>2, <2>3 DEF Resume, TypeOK, LocksTyped, CandidateKnown, Replies
<1> QED
  BY <1>1, <1>2 DEF Requested

\* Every step of a handler keeps the types.
LEMMA ServeTyped ==
    ASSUME TypeOK, NEW r \in Requests, Serve(r) \/ Disconnect(r)
    PROVE  TypeOK'
<1>0. r \in Tasks
  BY TaskKinds
<1>1. CASE PauseTake(r)
  <2>1. PCsTyped' /\ pc'[Cap] = pc[Cap]
    BY <1>1, RequestGoto DEF PauseTake, TypeOK, RequestPCs
  <2>2. control' \in ControlStates /\ history' \in HistoryStates
    BY <1>1, PauseTyped DEF PauseTake
  <2> QED
    BY <1>1, <2>1, <2>2 DEF PauseTake, TypeOK, CandidateKnown, LocksTyped
<1>2. CASE PauseAnswer(r)
  <2>1. LocksTyped' /\ PCsTyped' /\ pc'[Cap] = pc[Cap] /\ reply' \in [Requests -> Replies]
    BY <1>2, AnswerTyped DEF PauseAnswer, Replies
  <2> QED
    BY <1>2, <2>1 DEF PauseAnswer, TypeOK, CandidateKnown
<1>3. CASE BlacklistConfig(r)
  BY <1>3, GrantedTyped, LocksKnown DEF BlacklistConfig, RequestPCs
<1>4. CASE BlacklistBarrier(r)
  BY <1>4, GrantedTyped, LocksKnown DEF BlacklistBarrier, RequestPCs
<1>5. CASE BlacklistStart(r)
  <2>1. PCsTyped' /\ pc'[Cap] = pc[Cap]
    BY <1>5, RequestGoto DEF BlacklistStart, TypeOK, RequestPCs
  <2> QED
    BY <1>5, <2>1 DEF BlacklistStart, TypeOK, CandidateKnown, LocksTyped
<1>6. CASE BlacklistSave(r)
  <2>1. LocksTyped' /\ PCsTyped' /\ pc'[Cap] = pc[Cap] /\ reply' \in [Requests -> Replies]
    BY <1>6, AnswerTyped DEF BlacklistSave, Replies
  <2>2. control' \in ControlStates
    BY <1>6, RequestKnown DEF BlacklistSave, TypeOK, ControlStates
  <2> QED
    BY <1>6, <2>1, <2>2 DEF BlacklistSave, TypeOK, CandidateKnown
<1>7. CASE InlineStart(r)
  <2>1. LocksTyped' /\ PCsTyped' /\ pc'[Cap] = pc[Cap] /\ reply' \in [Requests -> Replies]
    BY <1>7, AnswerTyped, RequestGoto DEF InlineStart, TypeOK, Replies, LocksTyped, RequestPCs
  <2> QED
    BY <1>7, <2>1 DEF InlineStart, TypeOK, CandidateKnown
<1>8. CASE InlineAnswer(r)
  <2>1. LocksTyped' /\ PCsTyped' /\ pc'[Cap] = pc[Cap] /\ reply' \in [Requests -> Replies]
    BY <1>8, AnswerTyped DEF InlineAnswer, Replies
  <2> QED
    BY <1>8, <2>1 DEF InlineAnswer, TypeOK, CandidateKnown
<1>9. CASE RetentionBarrier(r)
  BY <1>9, GrantedTyped, LocksKnown DEF RetentionBarrier, RequestPCs
<1>10. CASE RetentionStart(r)
  <2>1. PCsTyped' /\ pc'[Cap] = pc[Cap]
    BY <1>10, RequestGoto DEF RetentionStart, TypeOK, RequestPCs
  <2>2. request[r].policy = Forever \/ CutoffOf(request[r].policy) \in 0..MaxObs
    BY <1>10, RequestKnown, CutoffTyped DEF TypeOK
  <2>3. cutoff' \in [{Pruner} \cup Requests -> 0..MaxObs]
    BY <1>10, <2>2, BoundsKnown DEF RetentionStart, TypeOK
  <2> QED
    BY <1>10, <2>1, <2>2, <2>3 DEF RetentionStart, TypeOK, CandidateKnown, LocksTyped
<1>11. CASE RetentionSave(r)
  <2>1. LocksTyped' /\ PCsTyped' /\ pc'[Cap] = pc[Cap] /\ reply' \in [Requests -> Replies]
    BY <1>11, FinishTyped, RequestGoto DEF RetentionSave, TypeOK, Replies, LocksTyped,
       RequestPCs
  <2>2. control' \in ControlStates
    BY <1>11, RequestKnown DEF RetentionSave, TypeOK, ControlStates
  <2> QED
    BY <1>11, <2>1, <2>2 DEF RetentionSave, TypeOK, CandidateKnown
<1>12. CASE PruneStep(r)
  BY <1>12, PruneStepTyped
<1>13. CASE DeleteSerial(r)
  BY <1>13, GrantedTyped, LocksKnown DEF DeleteSerial, RequestPCs
<1>14. CASE DeleteFlag(r)
  <2>1. PCsTyped' /\ pc'[Cap] = pc[Cap]
    BY <1>14, RequestGoto DEF DeleteFlag, TypeOK, RequestPCs
  <2> QED
    BY <1>14, <2>1 DEF DeleteFlag, TypeOK, CandidateKnown, LocksTyped
<1>15. CASE DeleteQuiesce(r)
  <2>1. LocksTyped'
    BY <1>15, <1>0, AwaitTyped, LocksKnown DEF DeleteQuiesce, TypeOK
  <2>2. PCsTyped' /\ pc'[Cap] = pc[Cap]
    BY <1>15, RequestGoto DEF DeleteQuiesce, TypeOK, RequestPCs
  <2>3. token' \in [Runs -> {"none", "live", "cancelled"}]
    BY <1>15 DEF DeleteQuiesce, AllCancelled
  <2> QED
    BY <1>15, <2>1, <2>2, <2>3 DEF DeleteQuiesce, TypeOK, CandidateKnown
<1>16. CASE DeleteBarrier(r)
  <2>1. LocksTyped'
    BY <1>16, <1>0, AwaitTyped, LocksKnown DEF DeleteBarrier, TypeOK
  <2>2. PCsTyped' /\ pc'[Cap] = pc[Cap]
    BY <1>16, RequestGoto DEF DeleteBarrier, TypeOK, RequestPCs
  <2>3. token' \in [Runs -> {"none", "live", "cancelled"}]
    BY <1>16 DEF DeleteBarrier, AllCancelled
  <2> QED
    BY <1>16, <2>1, <2>2, <2>3 DEF DeleteBarrier, TypeOK, CandidateKnown
<1>17. CASE DeleteObserve(r)
  <2>1. PCsTyped' /\ pc'[Cap] = pc[Cap]
    BY <1>17, RequestGoto DEF DeleteObserve, TypeOK, RequestPCs
  <2>2. control.paused \in BOOLEAN
    BY <1>17 DEF TypeOK, ControlStates
  <2> QED
    BY <1>17, <2>1, <2>2 DEF DeleteObserve, TypeOK, CandidateKnown, LocksTyped
<1>18. CASE DeletePause(r)
  <2>1. PCsTyped' /\ pc'[Cap] = pc[Cap]
    BY <1>18, RequestGoto DEF DeletePause, TypeOK, RequestPCs
  <2>2. history.wanted \in BOOLEAN
    BY <1>18 DEF TypeOK, HistoryStates
  <2>3. control' \in ControlStates /\ history' \in HistoryStates
    BY <1>18, <2>2, PauseTyped DEF DeletePause
  <2> QED
    BY <1>18, <2>1, <2>2, <2>3 DEF DeletePause, TypeOK, CandidateKnown, LocksTyped
<1>19. CASE DeleteCommit(r)
  <2>1. PCsTyped' /\ pc'[Cap] = pc[Cap]
    BY <1>19, RequestGoto DEF DeleteCommit, TypeOK, RequestPCs
  <2>2. history' \in HistoryStates
    BY <1>19 DEF DeleteCommit, TypeOK, HistoryStates
  <2>3. chronicle' \in [sources : SUBSET Obs, present : BOOLEAN]
    BY <1>19 DEF DeleteCommit, NoMemory
  <2> QED
    BY <1>19, <2>1, <2>2, <2>3 DEF DeleteCommit, TypeOK, CandidateKnown, LocksTyped
<1>20. CASE DeleteFails(r)
  <2>1. PCsTyped' /\ pc'[Cap] = pc[Cap]
    BY <1>20, RequestGoto DEF DeleteFails, TypeOK, RequestPCs
  <2>2. reply' \in [Requests -> Replies]
    BY <1>20 DEF DeleteFails, TypeOK, Replies
  <2> QED
    BY <1>20, <2>1, <2>2 DEF DeleteFails, TypeOK, CandidateKnown, LocksTyped
<1>21. CASE DeleteFinish(r)
  <2>1. PCsTyped' /\ pc'[Cap] = pc[Cap]
    BY <1>21, RequestGoto DEF DeleteFinish, TypeOK, RequestPCs
  <2>2. reply' \in [Requests -> Replies]
    BY <1>21 DEF DeleteFinish, TypeOK, Replies
  <2> QED
    BY <1>21, <2>1, <2>2 DEF DeleteFinish, TypeOK, CandidateKnown, LocksTyped
<1>22. CASE DeleteResume(r)
  <2>1. LocksTyped'
    BY <1>22, <1>0, DropTyped DEF DeleteResume, TypeOK
  <2>2. PCsTyped' /\ pc'[Cap] = pc[Cap]
    BY <1>22, RequestGoto DEF DeleteResume, TypeOK, RequestPCs
  <2>3. control' \in ControlStates
    BY <1>22, ResumedTyped DEF DeleteResume, TypeOK
  <2> QED
    BY <1>22, <2>1, <2>2, <2>3 DEF DeleteResume, TypeOK, CandidateKnown
<1>23. CASE DeleteReset(r)
  <2>1. PCsTyped' /\ pc'[Cap] = pc[Cap]
    BY <1>23, RequestGoto DEF DeleteReset, TypeOK, RequestPCs
  <2> QED
    BY <1>23, <2>1 DEF DeleteReset, TypeOK, CandidateKnown, LocksTyped
<1>24. CASE DeleteRelease(r)
  <2>1. LocksTyped'
    BY <1>24, <1>0, DropTyped DEF DeleteRelease, TypeOK
  <2>2. PCsTyped' /\ pc'[Cap] = pc[Cap]
    BY <1>24, RequestGoto DEF DeleteRelease, TypeOK, RequestPCs
  <2> QED
    BY <1>24, <2>1, <2>2 DEF DeleteRelease, TypeOK, CandidateKnown
<1>25. CASE Disconnect(r)
  <2>1. LocksTyped' /\ PCsTyped' /\ pc'[Cap] = pc[Cap] /\ reply' \in [Requests -> Replies]
    BY <1>25, AnswerTyped DEF Disconnect, Replies
  <2> QED
    BY <1>25, <2>1 DEF Disconnect, TypeOK, CandidateKnown
<1> QED
  BY <1>1, <1>2, <1>3, <1>4, <1>5, <1>6, <1>7, <1>8, <1>9, <1>10, <1>11,
     <1>12, <1>13, <1>14, <1>15, <1>16, <1>17, <1>18, <1>19, <1>20, <1>21,
     <1>22, <1>23, <1>24, <1>25 DEF Serve

\* Every step of a memory run keeps the types.
LEMMA RunStepTyped ==
    ASSUME TypeOK, NEW m \in Runs, RunStep(m) \/ RunComplete(m) \/ RunFails(m)
    PROVE  TypeOK'
<1>0. m \in Tasks
  BY TaskKinds
<1>1. CASE RunRegister(m)
  <2>1. PCsTyped' /\ pc'[Cap] = pc[Cap]
    BY <1>1, RunGoto DEF RunRegister, TypeOK, RunPCs
  <2> QED
    BY <1>1, <2>1 DEF RunRegister, TypeOK, CandidateKnown, RunUnchanged, LocksTyped
<1>2. CASE RunAwaitSerial(m)
  <2>1. LocksTyped'
    BY <1>2, <1>0, AwaitTyped, LocksKnown DEF RunAwaitSerial, TypeOK
  <2>2. PCsTyped' /\ pc'[Cap] = pc[Cap]
    BY <1>2, RunGoto DEF RunAwaitSerial, TypeOK, RunPCs
  <2> QED
    BY <1>2, <2>1, <2>2 DEF RunAwaitSerial, TypeOK, CandidateKnown, RunUnchanged
<1>3. CASE RunAwaitGate(m)
  <2>1. LocksTyped'
    BY <1>3, <1>0, AwaitTyped, LocksKnown DEF RunAwaitGate, TypeOK
  <2>2. PCsTyped' /\ pc'[Cap] = pc[Cap]
    BY <1>3, RunGoto DEF RunAwaitGate, TypeOK, RunPCs
  <2> QED
    BY <1>3, <2>1, <2>2 DEF RunAwaitGate, TypeOK, CandidateKnown, RunUnchanged
<1>4. CASE RunEnter(m)
  <2>1. PCsTyped' /\ pc'[Cap] = pc[Cap]
    BY <1>4, RunGoto DEF RunEnter, TypeOK, RunPCs
  <2> QED
    BY <1>4, <2>1 DEF RunEnter, TypeOK, CandidateKnown, RunUnchanged, LocksTyped
<1>5. CASE RunCancelled(m)
  <2>1. /\ LocksTyped' /\ PCsTyped' /\ pc'[Cap] = pc[Cap]
        /\ token' \in [Runs -> {"none", "live", "cancelled"}]
        /\ run' \in [Runs -> [epoch : Nat, prompt : SUBSET Obs]]
    BY <1>5, RunLeaveTyped DEF RunCancelled
  <2> QED
    BY <1>5, <2>1 DEF RunCancelled, TypeOK, CandidateKnown, RunUnchanged
<1>6. CASE RunPlan(m)
  <2>1. PCsTyped' /\ pc'[Cap] = pc[Cap]
    BY <1>6, RunGoto DEF RunPlan, TypeOK, RunPCs
  <2>2. run' \in [Runs -> [epoch : Nat, prompt : SUBSET Obs]]
    BY <1>6 DEF RunPlan, TypeOK
  <2> QED
    BY <1>6, <2>1, <2>2 DEF RunPlan, TypeOK, CandidateKnown, RunUnchanged, LocksTyped
<1>7. CASE RunGather(m)
  <2>1. {row.id : row \in rows} \in SUBSET Obs
    BY DEF TypeOK, Snapshots
  <2>2. CASE RunLeave(m)
    BY <1>7, <2>2, RunLeaveTyped DEF RunGather, TypeOK, CandidateKnown, RunUnchanged
  <2>3. CASE ~(chronicle.present \/ rows = {})
    <3>1. PCsTyped' /\ pc'[Cap] = pc[Cap]
      BY <1>7, <2>3, RunGoto DEF RunGather, TypeOK, RunPCs
    <3>2. run' \in [Runs -> [epoch : Nat, prompt : SUBSET Obs]]
      BY <1>7, <2>1, <2>3 DEF RunGather, TypeOK
    <3> QED
      BY <1>7, <2>3, <3>1, <3>2 DEF RunGather, TypeOK, CandidateKnown, RunUnchanged, LocksTyped
  <2> QED
    BY <1>7, <2>2, <2>3 DEF RunGather
<1>8. CASE RunComplete(m)
  <2>1. LocksTyped'
    BY <1>8, <1>0, AwaitTyped, LocksKnown DEF RunComplete, TypeOK
  <2>2. PCsTyped' /\ pc'[Cap] = pc[Cap]
    BY <1>8, RunGoto DEF RunComplete, TypeOK, RunPCs
  <2> QED
    BY <1>8, <2>1, <2>2 DEF RunComplete, TypeOK, CandidateKnown, RunUnchanged
<1>9. CASE RunFails(m)
  <2>1. /\ LocksTyped' /\ PCsTyped' /\ pc'[Cap] = pc[Cap]
        /\ token' \in [Runs -> {"none", "live", "cancelled"}]
        /\ run' \in [Runs -> [epoch : Nat, prompt : SUBSET Obs]]
    BY <1>9, RunLeaveTyped DEF RunFails
  <2> QED
    BY <1>9, <2>1 DEF RunFails, TypeOK, CandidateKnown, RunUnchanged
<1>10. CASE RunCommit(m)
  <2>1. /\ LocksTyped' /\ PCsTyped' /\ pc'[Cap] = pc[Cap]
        /\ token' \in [Runs -> {"none", "live", "cancelled"}]
        /\ run' \in [Runs -> [epoch : Nat, prompt : SUBSET Obs]]
    BY <1>10, RunLeaveTyped DEF RunCommit
  <2>2. run[m].prompt \in SUBSET Obs
    BY <1>10 DEF TypeOK
  <2>3. [sources |-> run[m].prompt, present |-> TRUE] \in [sources : SUBSET Obs, present : BOOLEAN]
    BY <1>10, <2>2
  <2>4. chronicle' = [sources |-> run[m].prompt, present |-> TRUE] \/ chronicle' = chronicle
    BY <1>10 DEF RunCommit
  <2>5. chronicle' \in [sources : SUBSET Obs, present : BOOLEAN]
    BY <1>10, <2>3, <2>4 DEF TypeOK
  <2> QED
    BY <1>10, <2>1, <2>2, <2>3, <2>4, <2>5 DEF RunCommit, TypeOK, CandidateKnown, RunUnchanged
<1> QED
  BY <1>1, <1>2, <1>3, <1>4, <1>5, <1>6, <1>7, <1>8, <1>9, <1>10 DEF RunStep

\* Every variable keeps its type in every reachable state.
THEOREM TypeCorrect == Spec => []TypeOK
<1>1. Init => TypeOK
  <2> SUFFICES ASSUME Init PROVE TypeOK
    OBVIOUS
  <2>1. LocksTyped
    BY FreeLockIsWellQueued DEF Init, LocksTyped
  <2>2. PCsTyped
    BY TaskKinds DEF Init, PCsTyped, RequestPCs, RunPCs, CapPCs, PrunerPCs
  <2>3. control \in ControlStates
    BY DEF Init, ControlStates
  <2>4. loop \in LoopStates
    BY <2>3 DEF Init, LoopStates, ControlStates
  <2>5. history \in HistoryStates
    BY <2>3, BoundsKnown DEF Init, HistoryStates, ControlStates
  <2>6. CandidateKnown
    BY TaskKinds DEF Init, CandidateKnown
  <2>7. obs \in 0..MaxObs /\ cutoff \in [{Pruner} \cup Requests -> 0..MaxObs]
    BY BoundsKnown DEF Init
  <2>8. /\ request \in [Requests -> Asked \cup {NoRequest, ToResume}]
        /\ reply \in [Requests -> Replies]
        /\ token \in [Runs -> {"none", "live", "cancelled"}]
        /\ run \in [Runs -> [epoch : Nat, prompt : SUBSET Obs]]
        /\ wasPaused \in [Requests -> BOOLEAN]
    BY DEF Init, Replies
  <2>9. /\ dataEpoch \in Nat /\ resetRequested \in BOOLEAN
        /\ rows \subseteq Snapshots
        /\ chronicle \in [sources : SUBSET Obs, present : BOOLEAN]
    BY DEF Init, NoMemory
  <2> QED
    BY <2>1, <2>2, <2>3, <2>4, <2>5, <2>6, <2>7, <2>8, <2>9 DEF TypeOK
<1>2. TypeOK /\ [Next]_vars => TypeOK'
  <2> SUFFICES ASSUME TypeOK, [Next]_vars PROVE TypeOK'
    OBVIOUS
  <2>1. CASE Next
    BY <2>1, CapStepTyped, PrunerBeginTyped, PruneStepTyped, RequestedTyped, ServeTyped,
       RunStepTyped DEF Next
  <2>2. CASE UNCHANGED vars
    BY <2>2 DEF vars, TypeOK, LocksTyped, PCsTyped, CandidateKnown
  <2> QED
    BY <2>1, <2>2
<1> QED
  BY <1>1, <1>2, PTL DEF Spec

-----------------------------------------------------------------------------
(***************************************************************************)
(* The safety theorems.  The first ones rest on one fact about the two     *)
(* readers-writer locks: where a task is in the code determines what it    *)
(* holds or waits for (LocksFollowCode).  The others are about the rows: the *)
(* capture loop extends a row that it wrote earlier, by the id and the start *)
(* that it still holds in memory, while pauses, retention and generated    *)
(* memory come between.                                                    *)
(***************************************************************************)

(***************************************************************************)
(* The inductive invariant of a lock: the queue is in order, a task is in  *)
(* it exactly while its code says so, and past a certain point it has been *)
(* granted.                                                                *)
(***************************************************************************)
DeletePCs == {"dGate", "dSerial", "dFlag", "dQuiesce", "dBarrier", "dPause", "dErase",
              "dErased", "dResume", "dReset", "dRelease"}

\* Where a task is queued for l, to write or to read, and where it was granted.
Writing(l) ==
    IF l = "gate" THEN DeletePCs \cup {"pGate", "pPaused", "bGate", "bConfig", "bBarrier", "bSave"}
    ELSE IF l = "runGate"
    THEN {"dQuiesce", "dBarrier", "dPause", "dErase", "dErased", "dResume", "dReset", "dRelease"}
    ELSE {"persist", "commit", "barrier", "pruned", "bBarrier", "bSave", "rBarrier", "rSave",
          "rPrune", "rPruned", "dBarrier", "dPause", "dErase", "dErased", "dResume"}
Reading(l) ==
    IF l = "gate" THEN {"lease", "read", "persist", "stored", "lost", "iGate", "iRead"}
    ELSE IF l = "runGate" THEN {"runGate", "plan", "gather", "llm", "commit"}
    ELSE {}
Waits(l) ==
    IF l = "gate" THEN {"pGate", "bGate", "dGate", "lease", "iGate"}
    ELSE IF l = "runGate" THEN {"dQuiesce", "runGate"}
    ELSE {"persist", "commit", "barrier", "bBarrier", "rBarrier", "dBarrier"}
Granted(l) == (Writing(l) \cup Reading(l)) \ Waits(l)

ModeAt(l, place) ==
    IF place \in Writing(l) THEN "write" ELSE IF place \in Reading(l) THEN "read" ELSE "none"

Fits(l) ==
    /\ WellQueued(lock[l])
    /\ \A t \in Tasks : lock[l].mode[t] = ModeAt(l, pc[t])
    /\ \A t \in Tasks : pc[t] \in Granted(l) => Holds(lock[l], t)

LocksFollowCode == Fits("gate") /\ Fits("runGate")

\* What a step on the locks does to one of them.
LEMMA AwaitEffect ==
    ASSUME LocksTyped, NEW t, NEW k \in Locks, NEW m, Await(t, k, m), NEW l \in Locks
    PROVE  lock'[l] = IF l = k THEN Join(lock[l], t, m) ELSE lock[l]
BY DEF LocksTyped, Await

\* What a step that drops guards does to one lock.
LEMMA DropEffect ==
    ASSUME LocksTyped, NEW t, NEW ls, Drop(t, ls), NEW l \in Locks
    PROVE  lock'[l] = IF l \in ls THEN Leave(lock[l], t) ELSE lock[l]
BY DEF LocksTyped, Drop

\* A task moves on without touching l.
LEMMA FitsKept ==
    ASSUME TypeOK, NEW l \in Locks, Fits(l), NEW t \in Tasks, NEW place, Goto(t, place),
           lock'[l] = lock[l], ModeAt(l, place) = ModeAt(l, pc[t]),
           place \in Granted(l) => pc[t] \in Granted(l) \/ Holds(lock[l], t)
    PROVE  Fits(l)'
<1>1. /\ pc'[t] = place
      /\ \A u \in Tasks : u # t => pc'[u] = pc[u]
  BY DEF Goto, TypeOK, PCsTyped
<1>2. \A u \in Tasks : ModeAt(l, pc'[u]) = ModeAt(l, pc[u])
  BY <1>1
<1>3. \A u \in Tasks : pc'[u] \in Granted(l) => Holds(lock[l], u)
  BY <1>1 DEF Fits
<1> QED
  BY <1>2, <1>3 DEF Fits

\* A task starts to wait for l.
LEMMA FitsJoined ==
    ASSUME TypeOK, NEW l \in Locks, Fits(l), NEW t \in Tasks, NEW place, Goto(t, place),
           NEW m \in {"read", "write"}, lock'[l] = Join(lock[l], t, m),
           ModeAt(l, pc[t]) = "none", ModeAt(l, place) = m, place \in Waits(l)
    PROVE  Fits(l)'
<1>1. /\ pc'[t] = place
      /\ \A u \in Tasks : u # t => pc'[u] = pc[u]
  BY DEF Goto, TypeOK, PCsTyped
<1>2. lock[l] \in LockStates(Tasks) /\ lock[l].mode[t] = "none"
  BY DEF TypeOK, LocksTyped, Fits
<1>3. WellQueued(lock'[l])
  BY <1>2, JoinKeepsOrder DEF Fits
<1>4. \A u \in Tasks : lock'[l].mode[u] = IF u = t THEN m ELSE lock[l].mode[u]
  BY <1>2 DEF Join, LockStates
<1>5. \A u \in Tasks : u # t /\ pc[u] \in Granted(l) => Holds(lock'[l], u)
  BY <1>2, JoinKeepsGrants DEF Fits, Modes
<1>6. place \notin Granted(l)
  BY DEF Granted
<1> QED
  BY <1>1, <1>3, <1>4, <1>5, <1>6 DEF Fits

\* A task leaves l, or was not in it.
LEMMA FitsLeft ==
    ASSUME TypeOK, NEW l \in Locks, Fits(l), NEW t \in Tasks, NEW place, Goto(t, place),
           lock'[l] = Leave(lock[l], t), ModeAt(l, place) = "none"
    PROVE  Fits(l)'
<1>1. /\ pc'[t] = place
      /\ \A u \in Tasks : u # t => pc'[u] = pc[u]
  BY DEF Goto, TypeOK, PCsTyped
<1>2. lock[l] \in LockStates(Tasks)
  BY DEF TypeOK, LocksTyped
<1>3. WellQueued(lock'[l])
  BY <1>2, LeaveKeepsOrder DEF Fits
<1>4. \A u \in Tasks : lock'[l].mode[u] = IF u = t THEN "none" ELSE lock[l].mode[u]
  BY <1>2 DEF Leave, LockStates
<1>5. \A u \in Tasks : u # t /\ pc[u] \in Granted(l) => Holds(lock'[l], u)
  BY <1>2, LeaveKeepsGrants DEF Fits
<1>6. place \notin Granted(l)
  BY DEF Granted, ModeAt
<1> QED
  BY <1>1, <1>3, <1>4, <1>5, <1>6 DEF Fits

\* The capture task keeps to its lease.
LEMMA CapStepLocks ==
    ASSUME TypeOK, LocksFollowCode, CapStep
    PROVE  LocksFollowCode'
<1>0. Cap \in Tasks /\ LocksTyped
  BY TaskKinds DEF TypeOK
<1>1. CASE CapIdle
  BY <1>1 DEF CapIdle, LocksFollowCode, Fits, WellQueued, Queued, Holds
<1>2. CASE CapAskLease
  <2>1. lock'["gate"] = Join(lock["gate"], Cap, "read") /\ lock'["runGate"] = lock["runGate"]
    BY <1>2, <1>0, LocksKnown, AwaitEffect DEF CapAskLease
  <2>2. Fits("gate")'
    BY <1>2, <1>0, <2>1, LocksKnown, FitsJoined DEF CapAskLease, LocksFollowCode, ModeAt,
       Writing, Reading, Waits, Granted, DeletePCs
  <2>3. Fits("runGate")'
    BY <1>2, <1>0, <2>1, LocksKnown, FitsKept DEF CapAskLease, LocksFollowCode, ModeAt,
       Writing, Reading, Waits, Granted, DeletePCs
  <2> QED
    BY <2>2, <2>3 DEF LocksFollowCode
<1>3. CASE CapLeasePaused
  <2>1. lock'["gate"] = Leave(lock["gate"], Cap) /\ lock'["runGate"] = lock["runGate"]
    BY <1>3, <1>0, LocksKnown, DropEffect DEF CapLeasePaused
  <2>2. Fits("gate")'
    BY <1>3, <1>0, <2>1, LocksKnown, FitsLeft DEF CapLeasePaused, LocksFollowCode, ModeAt,
       Writing, Reading, Waits, Granted, DeletePCs
  <2>3. Fits("runGate")'
    BY <1>3, <1>0, <2>1, LocksKnown, FitsKept DEF CapLeasePaused, LocksFollowCode, ModeAt,
       Writing, Reading, Waits, Granted, DeletePCs
  <2> QED
    BY <2>2, <2>3 DEF LocksFollowCode
<1>4. CASE CapBeginRead
  <2>1. Fits("gate")' /\ Fits("runGate")'
    BY <1>4, <1>0, LocksKnown, FitsKept DEF CapBeginRead, HoldsRead, LocksFollowCode,
       ModeAt, Writing, Reading, Waits, Granted, DeletePCs
  <2> QED
    BY <2>1 DEF LocksFollowCode
<1>5. CASE CapSkip
  <2>1. lock'["gate"] = Leave(lock["gate"], Cap) /\ lock'["runGate"] = lock["runGate"]
    BY <1>5, <1>0, LocksKnown, DropEffect DEF CapSkip
  <2>2. Fits("gate")'
    BY <1>5, <1>0, <2>1, LocksKnown, FitsLeft DEF CapSkip, LocksFollowCode, ModeAt, Writing,
       Reading, Waits, Granted, DeletePCs
  <2>3. Fits("runGate")'
    BY <1>5, <1>0, <2>1, LocksKnown, FitsKept DEF CapSkip, LocksFollowCode, ModeAt, Writing,
       Reading, Waits, Granted, DeletePCs
  <2> QED
    BY <2>2, <2>3 DEF LocksFollowCode
<1>6. ASSUME NEW app \in Apps, NEW near \in BOOLEAN, CapObserve(app, near)
      PROVE  LocksFollowCode'
  <2>1. lock'["gate"] = lock["gate"] /\ lock'["runGate"] = lock["runGate"]
    BY <1>6, <1>0, LocksKnown, AwaitEffect DEF CapObserve
  <2>2. Fits("gate")' /\ Fits("runGate")'
    BY <1>6, <1>0, <2>1, LocksKnown, FitsKept DEF CapObserve, LocksFollowCode, ModeAt,
       Writing, Reading, Waits, Granted, DeletePCs
  <2> QED
    BY <2>2 DEF LocksFollowCode
<1>7. CASE CapPersist
  <2>1. lock'["gate"] = lock["gate"] /\ lock'["runGate"] = lock["runGate"]
    BY <1>7, LocksKnown, DropEffect DEF CapPersist, TypeOK
  <2>2. PICK place \in {"stored", "lost"} : Goto(Cap, place)
    BY <1>7 DEF CapPersist
  <2>3. Fits("gate")'
    BY <1>7, <1>0, <2>1, <2>2, LocksKnown, FitsKept DEF CapPersist, LocksFollowCode, ModeAt,
       Writing, Reading, Waits, Granted, DeletePCs
  <2>4. Fits("runGate")'
    BY <1>7, <1>0, <2>1, <2>2, LocksKnown, FitsKept DEF CapPersist, LocksFollowCode, ModeAt,
       Writing, Reading, Waits, Granted, DeletePCs
  <2> QED
    BY <2>3, <2>4 DEF LocksFollowCode
<1>8. CASE CapEnd
  <2>1. lock'["gate"] = Leave(lock["gate"], Cap) /\ lock'["runGate"] = lock["runGate"]
    BY <1>8, <1>0, LocksKnown, DropEffect DEF CapEnd
  <2>2. Fits("gate")'
    BY <1>8, <1>0, <2>1, LocksKnown, FitsLeft DEF CapEnd, LocksFollowCode, ModeAt, Writing,
       Reading, Waits, Granted, DeletePCs
  <2>3. Fits("runGate")'
    BY <1>8, <1>0, <2>1, LocksKnown, FitsKept DEF CapEnd, LocksFollowCode, ModeAt, Writing,
       Reading, Waits, Granted, DeletePCs
  <2> QED
    BY <2>2, <2>3 DEF LocksFollowCode
<1> QED
  BY <1>1, <1>2, <1>3, <1>4, <1>5, <1>6, <1>7, <1>8 DEF CapStep

\* Pruning touches neither lock.
LEMMA PruneLocksKept ==
    ASSUME TypeOK, LocksFollowCode, NEW t \in {Pruner} \cup Requests, PruneStep(t)
    PROVE  LocksFollowCode'
<1>0. t \in Tasks
  BY TaskKinds
<1>1. lock'["gate"] = lock["gate"] /\ lock'["runGate"] = lock["runGate"]
  BY LocksKnown, DropEffect DEF PruneStep, PruneCommit, PruneFinish, PruneFails, Finish,
     PruneLocks, TypeOK
<1>2. PICK place \in {"idle", "done", "pruned", "rPruned"} : Goto(t, place)
  BY DEF PruneStep, PruneCommit, PruneFinish, PruneFails, Finish
<1>3. pc[t] \in {"barrier", "pruned", "rPrune", "rPruned"}
  BY DEF PruneStep, PruneCommit, PruneFinish, PruneFails
<1>4. Fits("gate")' /\ Fits("runGate")'
  BY <1>0, <1>1, <1>2, <1>3, LocksKnown, FitsKept DEF LocksFollowCode, ModeAt, Writing,
     Reading, Waits, Granted, DeletePCs
<1> QED
  BY <1>4 DEF LocksFollowCode

\* The retention task only waits for the barrier.
LEMMA PrunerBeginLocks ==
    ASSUME TypeOK, LocksFollowCode, PrunerBegin
    PROVE  LocksFollowCode'
<1>1. lock'["gate"] = lock["gate"] /\ lock'["runGate"] = lock["runGate"]
  BY LocksKnown, AwaitEffect DEF PrunerBegin, TypeOK
<1>2. Fits("gate")' /\ Fits("runGate")'
  BY <1>1, TaskKinds, LocksKnown, FitsKept DEF PrunerBegin, LocksFollowCode, ModeAt,
     Writing, Reading, Waits, Granted, DeletePCs
<1> QED
  BY <1>2 DEF LocksFollowCode

\* A request that arrives waits for the first lock of its handler.
LEMMA RequestedLocks ==
    ASSUME TypeOK, LocksFollowCode, NEW r \in Requests, Requested(r)
    PROVE  LocksFollowCode'
<1>0. r \in Tasks /\ LocksTyped
  BY TaskKinds DEF TypeOK
<1>1. ASSUME NEW asked \in Asked, Arrive(r, asked)
      PROVE  LocksFollowCode'
  <2>1. asked.kind \in {"pause", "blacklist", "deleteAll", "inline", "retention"}
    BY <1>1, KindsKnown DEF Arrive, RequestKinds
  <2>2. CASE asked.kind = "retention"
    <3>1. FirstLock(asked.kind) = <<"config", "write", "rConfig">>
      BY <2>2 DEF FirstLock
    <3>2. lock'["gate"] = lock["gate"] /\ lock'["runGate"] = lock["runGate"]
      BY <1>1, <3>1, LocksKnown, AwaitEffect DEF Arrive, TypeOK
    <3>3. Goto(r, "rConfig")
      BY <1>1, <3>1 DEF Arrive
    <3>4. Fits("gate")' /\ Fits("runGate")'
      BY <1>0, <1>1, <3>2, <3>3, LocksKnown, FitsKept DEF Arrive, LocksFollowCode, ModeAt,
         Writing, Reading, Waits, Granted, DeletePCs
    <3> QED
      BY <3>4 DEF LocksFollowCode
  <2>3. CASE asked.kind # "retention"
    <3>1. PICK m \in {"read", "write"}, place \in {"pGate", "bGate", "dGate", "iGate"} :
             FirstLock(asked.kind) = <<"gate", m, place>> /\ ModeAt("gate", place) = m
      BY <2>1, <2>3 DEF FirstLock, ModeAt, Writing, Reading, Waits, Granted, DeletePCs
    <3>2. lock'["gate"] = Join(lock["gate"], r, m) /\ lock'["runGate"] = lock["runGate"]
      <4>1. Await(r, "gate", m)
        BY <1>1, <3>1 DEF Arrive
      <4> QED
        BY <1>0, <4>1, LocksKnown, AwaitEffect
    <3>3. Goto(r, place)
      BY <1>1, <3>1 DEF Arrive
    <3>4. Fits("gate")'
      BY <1>0, <1>1, <3>1, <3>2, <3>3, LocksKnown, FitsJoined DEF Arrive, LocksFollowCode,
         ModeAt, Writing, Reading, Waits, Granted, DeletePCs
    <3>5. Fits("runGate")'
      BY <1>0, <1>1, <3>1, <3>2, <3>3, LocksKnown, FitsKept DEF Arrive, LocksFollowCode,
         ModeAt, Writing, Reading, Waits, Granted, DeletePCs
    <3> QED
      BY <3>4, <3>5 DEF LocksFollowCode
  <2> QED
    BY <2>2, <2>3
<1>2. ASSUME NEW ready \in BOOLEAN, Resume(r, ready)
      PROVE  LocksFollowCode'
  <2>1. Fits("gate")' /\ Fits("runGate")'
    BY <1>0, <1>2, LocksKnown, FitsKept DEF Resume, LocksFollowCode, ModeAt, Writing,
       Reading, Waits, Granted, DeletePCs
  <2> QED
    BY <2>1 DEF LocksFollowCode
<1> QED
  BY <1>1, <1>2 DEF Requested

\* So does every later step of a handler.
LEMMA ServeLocks ==
    ASSUME TypeOK, LocksFollowCode, NEW r \in Requests, Serve(r) \/ Disconnect(r)
    PROVE  LocksFollowCode'
<1>0. r \in Tasks /\ LocksTyped
  BY TaskKinds DEF TypeOK
<1>1. CASE PauseTake(r)
  <2>1. Fits("gate")' /\ Fits("runGate")'
    BY <1>1, <1>0, LocksKnown, FitsKept DEF PauseTake, HoldsWrite, LocksFollowCode, ModeAt,
       Writing, Reading, Waits, Granted, DeletePCs
  <2> QED
    BY <2>1 DEF LocksFollowCode
<1>2. CASE PauseAnswer(r)
  <2>1. lock'["gate"] = Leave(lock["gate"], r) /\ lock'["runGate"] = lock["runGate"]
    BY <1>2, <1>0, LocksKnown, DropEffect DEF PauseAnswer, Answer
  <2>2. Fits("gate")'
    BY <1>2, <1>0, <2>1, LocksKnown, FitsLeft DEF PauseAnswer, Answer, LocksFollowCode,
       ModeAt, Writing, Reading, Waits, Granted, DeletePCs
  <2>3. Fits("runGate")'
    BY <1>2, <1>0, <2>1, LocksKnown, FitsKept DEF PauseAnswer, Answer, LocksFollowCode,
       ModeAt, Writing, Reading, Waits, Granted, DeletePCs
  <2> QED
    BY <2>2, <2>3 DEF LocksFollowCode
<1>3. CASE BlacklistConfig(r)
  <2>1. lock'["gate"] = lock["gate"] /\ lock'["runGate"] = lock["runGate"]
    BY <1>3, <1>0, LocksKnown, AwaitEffect DEF BlacklistConfig, GrantedThenAwait, HoldsWrite
  <2>2. Fits("gate")' /\ Fits("runGate")'
    BY <1>3, <1>0, <2>1, LocksKnown, FitsKept DEF BlacklistConfig, GrantedThenAwait,
       HoldsWrite, LocksFollowCode, ModeAt, Writing, Reading, Waits, Granted, DeletePCs
  <2> QED
    BY <2>2 DEF LocksFollowCode
<1>4. CASE BlacklistBarrier(r)
  <2>1. lock'["gate"] = lock["gate"] /\ lock'["runGate"] = lock["runGate"]
    BY <1>4, <1>0, LocksKnown, AwaitEffect DEF BlacklistBarrier, GrantedThenAwait
  <2>2. Fits("gate")' /\ Fits("runGate")'
    BY <1>4, <1>0, <2>1, LocksKnown, FitsKept DEF BlacklistBarrier, GrantedThenAwait,
       LocksFollowCode, ModeAt, Writing, Reading, Waits, Granted, DeletePCs
  <2> QED
    BY <2>2 DEF LocksFollowCode
<1>5. CASE BlacklistStart(r)
  <2>1. Fits("gate")' /\ Fits("runGate")'
    BY <1>5, <1>0, LocksKnown, FitsKept DEF BlacklistStart, LocksFollowCode, ModeAt,
       Writing, Reading, Waits, Granted, DeletePCs
  <2> QED
    BY <2>1 DEF LocksFollowCode
<1>6. CASE BlacklistSave(r)
  <2>1. lock'["gate"] = Leave(lock["gate"], r) /\ lock'["runGate"] = lock["runGate"]
    BY <1>6, <1>0, LocksKnown, DropEffect DEF BlacklistSave, Answer
  <2>2. Fits("gate")'
    BY <1>6, <1>0, <2>1, LocksKnown, FitsLeft DEF BlacklistSave, Answer, LocksFollowCode,
       ModeAt, Writing, Reading, Waits, Granted, DeletePCs
  <2>3. Fits("runGate")'
    BY <1>6, <1>0, <2>1, LocksKnown, FitsKept DEF BlacklistSave, Answer, LocksFollowCode,
       ModeAt, Writing, Reading, Waits, Granted, DeletePCs
  <2> QED
    BY <2>2, <2>3 DEF LocksFollowCode
<1>7. CASE InlineStart(r)
  <2>1. CASE control.paused
    <3>1. lock'["gate"] = Leave(lock["gate"], r) /\ lock'["runGate"] = lock["runGate"]
      BY <1>7, <2>1, LocksKnown, DropEffect DEF InlineStart, Answer, TypeOK
    <3>2. Fits("gate")'
      BY <1>7, <1>0, <2>1, <3>1, LocksKnown, FitsLeft DEF InlineStart, Answer,
         LocksFollowCode, ModeAt, Writing, Reading, Waits, Granted, DeletePCs
    <3>3. Fits("runGate")'
      BY <1>7, <1>0, <2>1, <3>1, LocksKnown, FitsKept DEF InlineStart, Answer,
         LocksFollowCode, ModeAt, Writing, Reading, Waits, Granted, DeletePCs
    <3> QED
      BY <3>2, <3>3 DEF LocksFollowCode
  <2>2. CASE ~control.paused
    <3>1. Fits("gate")' /\ Fits("runGate")'
      BY <1>7, <1>0, <2>2, LocksKnown, FitsKept DEF InlineStart, HoldsRead, LocksFollowCode,
         ModeAt, Writing, Reading, Waits, Granted, DeletePCs
    <3> QED
      BY <3>1 DEF LocksFollowCode
  <2> QED
    BY <2>1, <2>2
<1>8. CASE InlineAnswer(r)
  <2>1. lock'["gate"] = Leave(lock["gate"], r) /\ lock'["runGate"] = lock["runGate"]
    BY <1>8, <1>0, LocksKnown, DropEffect DEF InlineAnswer, Answer
  <2>2. Fits("gate")'
    BY <1>8, <1>0, <2>1, LocksKnown, FitsLeft DEF InlineAnswer, Answer, LocksFollowCode,
       ModeAt, Writing, Reading, Waits, Granted, DeletePCs
  <2>3. Fits("runGate")'
    BY <1>8, <1>0, <2>1, LocksKnown, FitsKept DEF InlineAnswer, Answer, LocksFollowCode,
       ModeAt, Writing, Reading, Waits, Granted, DeletePCs
  <2> QED
    BY <2>2, <2>3 DEF LocksFollowCode
<1>9. CASE RetentionBarrier(r)
  <2>1. lock'["gate"] = lock["gate"] /\ lock'["runGate"] = lock["runGate"]
    BY <1>9, <1>0, LocksKnown, AwaitEffect DEF RetentionBarrier, GrantedThenAwait
  <2>2. Fits("gate")' /\ Fits("runGate")'
    BY <1>9, <1>0, <2>1, LocksKnown, FitsKept DEF RetentionBarrier, GrantedThenAwait,
       LocksFollowCode, ModeAt, Writing, Reading, Waits, Granted, DeletePCs
  <2> QED
    BY <2>2 DEF LocksFollowCode
<1>10. CASE RetentionStart(r)
  <2>1. Fits("gate")' /\ Fits("runGate")'
    BY <1>10, <1>0, LocksKnown, FitsKept DEF RetentionStart, LocksFollowCode, ModeAt,
       Writing, Reading, Waits, Granted, DeletePCs
  <2> QED
    BY <2>1 DEF LocksFollowCode
<1>11. CASE RetentionSave(r)
  <2>1. lock'["gate"] = lock["gate"] /\ lock'["runGate"] = lock["runGate"]
    BY <1>11, LocksKnown, DropEffect DEF RetentionSave, Finish, PruneLocks, TypeOK
  <2>2. PICK place \in {"idle", "done", "rPrune"} : Goto(r, place)
    BY <1>11 DEF RetentionSave, Finish
  <2>3. Fits("gate")' /\ Fits("runGate")'
    BY <1>11, <1>0, <2>1, <2>2, LocksKnown, FitsKept DEF RetentionSave, LocksFollowCode,
       ModeAt, Writing, Reading, Waits, Granted, DeletePCs
  <2> QED
    BY <2>3 DEF LocksFollowCode
<1>12. CASE PruneStep(r)
  BY <1>12, PruneLocksKept
<1>13. CASE DeleteSerial(r)
  <2>1. lock'["gate"] = lock["gate"] /\ lock'["runGate"] = lock["runGate"]
    BY <1>13, <1>0, LocksKnown, AwaitEffect DEF DeleteSerial, GrantedThenAwait, HoldsWrite
  <2>2. Fits("gate")' /\ Fits("runGate")'
    BY <1>13, <1>0, <2>1, LocksKnown, FitsKept DEF DeleteSerial, GrantedThenAwait,
       HoldsWrite, LocksFollowCode, ModeAt, Writing, Reading, Waits, Granted, DeletePCs
  <2> QED
    BY <2>2 DEF LocksFollowCode
<1>14. CASE DeleteFlag(r)
  <2>1. Fits("gate")' /\ Fits("runGate")'
    BY <1>14, <1>0, LocksKnown, FitsKept DEF DeleteFlag, LocksFollowCode, ModeAt, Writing,
       Reading, Waits, Granted, DeletePCs
  <2> QED
    BY <2>1 DEF LocksFollowCode
<1>15. CASE DeleteQuiesce(r)
  <2>1. lock'["gate"] = lock["gate"] /\ lock'["runGate"] = Join(lock["runGate"], r, "write")
    BY <1>15, <1>0, LocksKnown, AwaitEffect DEF DeleteQuiesce
  <2>2. Fits("gate")'
    BY <1>15, <1>0, <2>1, LocksKnown, FitsKept DEF DeleteQuiesce, LocksFollowCode, ModeAt,
       Writing, Reading, Waits, Granted, DeletePCs
  <2>3. Fits("runGate")'
    BY <1>15, <1>0, <2>1, LocksKnown, FitsJoined DEF DeleteQuiesce, LocksFollowCode, ModeAt,
       Writing, Reading, Waits, Granted, DeletePCs
  <2> QED
    BY <2>2, <2>3 DEF LocksFollowCode
<1>16. CASE DeleteBarrier(r)
  <2>1. lock'["gate"] = lock["gate"] /\ lock'["runGate"] = lock["runGate"]
    BY <1>16, <1>0, LocksKnown, AwaitEffect DEF DeleteBarrier, HoldsWrite
  <2>2. Fits("gate")' /\ Fits("runGate")'
    BY <1>16, <1>0, <2>1, LocksKnown, FitsKept DEF DeleteBarrier, HoldsWrite,
       LocksFollowCode, ModeAt, Writing, Reading, Waits, Granted, DeletePCs
  <2> QED
    BY <2>2 DEF LocksFollowCode
<1>17. CASE DeleteObserve(r)
  <2>1. Fits("gate")' /\ Fits("runGate")'
    BY <1>17, <1>0, LocksKnown, FitsKept DEF DeleteObserve, LocksFollowCode, ModeAt,
       Writing, Reading, Waits, Granted, DeletePCs
  <2> QED
    BY <2>1 DEF LocksFollowCode
<1>18. CASE DeletePause(r)
  <2>1. Fits("gate")' /\ Fits("runGate")'
    BY <1>18, <1>0, LocksKnown, FitsKept DEF DeletePause, LocksFollowCode, ModeAt, Writing,
       Reading, Waits, Granted, DeletePCs
  <2> QED
    BY <2>1 DEF LocksFollowCode
<1>19. CASE DeleteCommit(r)
  <2>1. Fits("gate")' /\ Fits("runGate")'
    BY <1>19, <1>0, LocksKnown, FitsKept DEF DeleteCommit, LocksFollowCode, ModeAt, Writing,
       Reading, Waits, Granted, DeletePCs
  <2> QED
    BY <2>1 DEF LocksFollowCode
<1>20. CASE DeleteFails(r)
  <2>1. Fits("gate")' /\ Fits("runGate")'
    BY <1>20, <1>0, LocksKnown, FitsKept DEF DeleteFails, LocksFollowCode, ModeAt, Writing,
       Reading, Waits, Granted, DeletePCs
  <2> QED
    BY <2>1 DEF LocksFollowCode
<1>21. CASE DeleteFinish(r)
  <2>1. Fits("gate")' /\ Fits("runGate")'
    BY <1>21, <1>0, LocksKnown, FitsKept DEF DeleteFinish, LocksFollowCode, ModeAt, Writing,
       Reading, Waits, Granted, DeletePCs
  <2> QED
    BY <2>1 DEF LocksFollowCode
<1>22. CASE DeleteResume(r)
  <2>1. lock'["gate"] = lock["gate"] /\ lock'["runGate"] = lock["runGate"]
    BY <1>22, <1>0, LocksKnown, DropEffect DEF DeleteResume
  <2>2. Fits("gate")' /\ Fits("runGate")'
    BY <1>22, <1>0, <2>1, LocksKnown, FitsKept DEF DeleteResume, LocksFollowCode, ModeAt,
       Writing, Reading, Waits, Granted, DeletePCs
  <2> QED
    BY <2>2 DEF LocksFollowCode
<1>23. CASE DeleteReset(r)
  <2>1. Fits("gate")' /\ Fits("runGate")'
    BY <1>23, <1>0, LocksKnown, FitsKept DEF DeleteReset, LocksFollowCode, ModeAt, Writing,
       Reading, Waits, Granted, DeletePCs
  <2> QED
    BY <2>1 DEF LocksFollowCode
<1>24. CASE DeleteRelease(r)
  <2>1. lock'["gate"] = Leave(lock["gate"], r) /\ lock'["runGate"] = Leave(lock["runGate"], r)
    BY <1>24, <1>0, LocksKnown, DropEffect DEF DeleteRelease
  <2>2. Fits("gate")' /\ Fits("runGate")'
    BY <1>24, <1>0, <2>1, LocksKnown, FitsLeft DEF DeleteRelease, LocksFollowCode, ModeAt,
       Writing, Reading, Waits, Granted, DeletePCs
  <2> QED
    BY <2>2 DEF LocksFollowCode
<1>25. CASE Disconnect(r)
  <2>1. lock'["gate"] = Leave(lock["gate"], r) /\ lock'["runGate"] = Leave(lock["runGate"], r)
    BY <1>25, <1>0, LocksKnown, DropEffect DEF Disconnect, Answer
  <2>2. Fits("gate")' /\ Fits("runGate")'
    BY <1>25, <1>0, <2>1, LocksKnown, FitsLeft DEF Disconnect, Answer, LocksFollowCode,
       ModeAt, Writing, Reading, Waits, Granted, DeletePCs
  <2> QED
    BY <2>2 DEF LocksFollowCode
<1> QED
  BY <1>1, <1>2, <1>3, <1>4, <1>5, <1>6, <1>7, <1>8, <1>9, <1>10, <1>11,
     <1>12, <1>13, <1>14, <1>15, <1>16, <1>17, <1>18, <1>19, <1>20, <1>21,
     <1>22, <1>23, <1>24, <1>25 DEF Serve

\* So does every step of a memory run.
LEMMA RunStepLocks ==
    ASSUME TypeOK, LocksFollowCode, NEW m \in Runs, RunStep(m) \/ RunComplete(m) \/ RunFails(m)
    PROVE  LocksFollowCode'
<1>0. m \in Tasks /\ LocksTyped
  BY TaskKinds DEF TypeOK
<1>1. CASE RunRegister(m)
  <2>1. Fits("gate")' /\ Fits("runGate")'
    BY <1>1, <1>0, LocksKnown, FitsKept DEF RunRegister, LocksFollowCode, ModeAt, Writing,
       Reading, Waits, Granted, DeletePCs
  <2> QED
    BY <2>1 DEF LocksFollowCode
<1>2. CASE RunAwaitSerial(m)
  <2>1. lock'["gate"] = lock["gate"] /\ lock'["runGate"] = lock["runGate"]
    BY <1>2, <1>0, LocksKnown, AwaitEffect DEF RunAwaitSerial
  <2>2. Fits("gate")' /\ Fits("runGate")'
    BY <1>2, <1>0, <2>1, LocksKnown, FitsKept DEF RunAwaitSerial, LocksFollowCode, ModeAt,
       Writing, Reading, Waits, Granted, DeletePCs
  <2> QED
    BY <2>2 DEF LocksFollowCode
<1>3. CASE RunAwaitGate(m)
  <2>1. lock'["gate"] = lock["gate"] /\ lock'["runGate"] = Join(lock["runGate"], m, "read")
    BY <1>3, <1>0, LocksKnown, AwaitEffect DEF RunAwaitGate
  <2>2. Fits("gate")'
    BY <1>3, <1>0, <2>1, LocksKnown, FitsKept DEF RunAwaitGate, LocksFollowCode, ModeAt,
       Writing, Reading, Waits, Granted, DeletePCs
  <2>3. Fits("runGate")'
    BY <1>3, <1>0, <2>1, LocksKnown, FitsJoined DEF RunAwaitGate, LocksFollowCode, ModeAt,
       Writing, Reading, Waits, Granted, DeletePCs
  <2> QED
    BY <2>2, <2>3 DEF LocksFollowCode
<1>4. CASE RunEnter(m)
  <2>1. Fits("gate")' /\ Fits("runGate")'
    BY <1>4, <1>0, LocksKnown, FitsKept DEF RunEnter, HoldsRead, LocksFollowCode, ModeAt,
       Writing, Reading, Waits, Granted, DeletePCs
  <2> QED
    BY <2>1 DEF LocksFollowCode
<1>5. CASE RunCancelled(m)
  <2>1. lock'["gate"] = lock["gate"] /\ lock'["runGate"] = Leave(lock["runGate"], m)
    BY <1>5, <1>0, LocksKnown, DropEffect DEF RunCancelled, RunLeave, RunLocks
  <2>2. Fits("gate")'
    BY <1>5, <1>0, <2>1, LocksKnown, FitsKept DEF RunCancelled, RunLeave, LocksFollowCode,
       ModeAt, Writing, Reading, Waits, Granted, DeletePCs
  <2>3. Fits("runGate")'
    BY <1>5, <1>0, <2>1, LocksKnown, FitsLeft DEF RunCancelled, RunLeave, LocksFollowCode,
       ModeAt, Writing, Reading, Waits, Granted, DeletePCs
  <2> QED
    BY <2>2, <2>3 DEF LocksFollowCode
<1>6. CASE RunPlan(m)
  <2>1. Fits("gate")' /\ Fits("runGate")'
    BY <1>6, <1>0, LocksKnown, FitsKept DEF RunPlan, LocksFollowCode, ModeAt, Writing,
       Reading, Waits, Granted, DeletePCs
  <2> QED
    BY <2>1 DEF LocksFollowCode
<1>7. CASE RunGather(m)
  <2>1. CASE RunLeave(m)
    <3>1. lock'["gate"] = lock["gate"] /\ lock'["runGate"] = Leave(lock["runGate"], m)
      BY SMTT(30), <2>1, LocksKnown, DropEffect DEF RunLeave, RunLocks, TypeOK
    <3>2. Fits("gate")'
      BY <1>7, <1>0, <2>1, <3>1, LocksKnown, FitsKept DEF RunGather, RunLeave,
         LocksFollowCode, ModeAt, Writing, Reading, Waits, Granted, DeletePCs
    <3>3. Fits("runGate")'
      BY <1>7, <1>0, <2>1, <3>1, LocksKnown, FitsLeft DEF RunGather, RunLeave,
         LocksFollowCode, ModeAt, Writing, Reading, Waits, Granted, DeletePCs
    <3> QED
      BY <3>2, <3>3 DEF LocksFollowCode
  <2>2. CASE Goto(m, "llm") /\ UNCHANGED lock
    <3>1. Fits("gate")' /\ Fits("runGate")'
      BY <1>7, <1>0, <2>2, LocksKnown, FitsKept DEF RunGather, LocksFollowCode, ModeAt,
         Writing, Reading, Waits, Granted, DeletePCs
    <3> QED
      BY <3>1 DEF LocksFollowCode
  <2> QED
    BY <1>7, <2>1, <2>2 DEF RunGather
<1>8. CASE RunComplete(m)
  <2>1. lock'["gate"] = lock["gate"] /\ lock'["runGate"] = lock["runGate"]
    BY <1>8, <1>0, LocksKnown, AwaitEffect DEF RunComplete
  <2>2. Fits("gate")' /\ Fits("runGate")'
    BY <1>8, <1>0, <2>1, LocksKnown, FitsKept DEF RunComplete, LocksFollowCode, ModeAt,
       Writing, Reading, Waits, Granted, DeletePCs
  <2> QED
    BY <2>2 DEF LocksFollowCode
<1>9. CASE RunFails(m)
  <2>1. lock'["gate"] = lock["gate"] /\ lock'["runGate"] = Leave(lock["runGate"], m)
    BY <1>9, <1>0, LocksKnown, DropEffect DEF RunFails, RunLeave, RunLocks
  <2>2. Fits("gate")'
    BY <1>9, <1>0, <2>1, LocksKnown, FitsKept DEF RunFails, RunLeave, LocksFollowCode,
       ModeAt, Writing, Reading, Waits, Granted, DeletePCs
  <2>3. Fits("runGate")'
    BY <1>9, <1>0, <2>1, LocksKnown, FitsLeft DEF RunFails, RunLeave, LocksFollowCode,
       ModeAt, Writing, Reading, Waits, Granted, DeletePCs
  <2> QED
    BY <2>2, <2>3 DEF LocksFollowCode
<1>10. CASE RunCommit(m)
  <2>1. lock'["gate"] = lock["gate"] /\ lock'["runGate"] = Leave(lock["runGate"], m)
    BY <1>10, <1>0, LocksKnown, DropEffect DEF RunCommit, RunLeave, RunLocks
  <2>2. Fits("gate")'
    BY <1>10, <1>0, <2>1, LocksKnown, FitsKept DEF RunCommit, RunLeave, LocksFollowCode,
       ModeAt, Writing, Reading, Waits, Granted, DeletePCs
  <2>3. Fits("runGate")'
    BY <1>10, <1>0, <2>1, LocksKnown, FitsLeft DEF RunCommit, RunLeave, LocksFollowCode,
       ModeAt, Writing, Reading, Waits, Granted, DeletePCs
  <2> QED
    BY <2>2, <2>3 DEF LocksFollowCode
<1> QED
  BY <1>1, <1>2, <1>3, <1>4, <1>5, <1>6, <1>7, <1>8, <1>9, <1>10 DEF RunStep

\* Where a task is in the code determines what it holds of the two locks.
THEOREM LocksFollowTheCode == Spec => []LocksFollowCode
<1>1. Init => LocksFollowCode
  <2> SUFFICES ASSUME Init PROVE LocksFollowCode
    OBVIOUS
  <2>1. \A l \in Locks : lock[l] = FreeLock(Tasks)
    BY DEF Init
  <2>2. \A t \in Tasks : pc[t] \in {"top", "new", "idle"}
    BY DEF Init
  <2>3. Fits("gate") /\ Fits("runGate")
    BY <2>1, <2>2, LocksKnown, FreeLockIsWellQueued DEF Fits, FreeLock, ModeAt, Writing,
       Reading, Waits, Granted, DeletePCs
  <2> QED
    BY <2>3 DEF LocksFollowCode
<1>2. TypeOK /\ LocksFollowCode /\ [Next]_vars => LocksFollowCode'
  <2> SUFFICES ASSUME TypeOK, LocksFollowCode, [Next]_vars PROVE LocksFollowCode'
    OBVIOUS
  <2>1. CASE Next
    BY <2>1, CapStepLocks, PrunerBeginLocks, PruneLocksKept, RequestedLocks, ServeLocks,
       RunStepLocks DEF Next
  <2>2. CASE UNCHANGED vars
    BY <2>2 DEF vars, LocksFollowCode, Fits, WellQueued, Queued, Holds
  <2> QED
    BY <2>1, <2>2
<1> QED
  BY <1>1, <1>2, TypeCorrect, PTL DEF Spec

\* A granted writer is alone with its lock.
LEMMA WriterExcludes ==
    ASSUME TypeOK, NEW l \in Locks, Fits(l), NEW t \in Tasks, NEW u \in Tasks,
           pc[t] \in Granted(l), pc[t] \in Writing(l), pc[u] \in Granted(l)
    PROVE  t = u
<1>1. lock[l] \in LockStates(Tasks) /\ WellQueued(lock[l])
  BY DEF TypeOK, LocksTyped, Fits
<1>2. HoldsWrite(lock[l], t) /\ Holds(lock[l], u)
  BY DEF Fits, ModeAt, HoldsWrite
<1> QED
  BY <1>1, <1>2, WriterIsAlone

\* Handlers that hold the capture lease to write.
Leased(r) ==
    \/ pc[r] \in {"pPaused", "bConfig", "bBarrier", "bSave", "dSerial", "dFlag", "dQuiesce",
                 "dBarrier", "dPause", "dErase", "dErased", "dResume", "dReset", "dRelease"}
    \/ HoldsWrite(lock["gate"], r)

\* A handler that holds the capture lease to write finds no screen read in flight.
LEMMA LeaseIsExclusive ==
    ASSUME TypeOK, LocksFollowCode, NEW r \in Requests, Leased(r)
    PROVE  ~CaptureInFlight /\ ~InlineInFlight
<1>1. r \in Tasks /\ Cap \in Tasks /\ Requests \subseteq Tasks /\ r # Cap
  BY TaskKinds
<1>2. lock["gate"] \in LockStates(Tasks) /\ WellQueued(lock["gate"]) /\ Fits("gate")
  BY LocksKnown DEF TypeOK, LocksTyped, LocksFollowCode, Fits
<1>3. HoldsWrite(lock["gate"], r)
  BY <1>1, <1>2 DEF Leased, Fits, HoldsWrite, ModeAt, Writing, Reading, Waits, Granted,
     DeletePCs
<1>4. \A u \in Tasks : pc[u] \in {"read", "persist", "stored", "lost", "iRead"} => u = r
  <2> SUFFICES ASSUME NEW u \in Tasks, pc[u] \in {"read", "persist", "stored", "lost", "iRead"}
               PROVE  u = r
    OBVIOUS
  <2>1. Holds(lock["gate"], u)
    BY <1>2 DEF Fits, ModeAt, Writing, Reading, Waits, Granted, DeletePCs
  <2> QED
    BY <1>1, <1>2, <1>3, <2>1, WriterIsAlone
<1>5. pc[r] # "iRead"
  BY <1>1, <1>2, <1>3 DEF HoldsWrite, Fits, ModeAt, Writing, Reading, DeletePCs
<1> QED
  BY <1>1, <1>4, <1>5 DEF CaptureInFlight, InlineInFlight

\* Delete-all works alone: the capture lease keeps screen reads out and the
\* run gate keeps memory runs out.
LEMMA LocksKeepErasureAlone ==
    ASSUME TypeOK, LocksFollowCode
    PROVE  ErasesAlone
<1> SUFFICES ASSUME NEW r \in Requests, pc[r] \in {"dPause", "dErase", "dErased", "dResume"}
             PROVE  ~CaptureInFlight /\ ~InlineInFlight /\ ~RunInFlight
  BY DEF ErasesAlone, Erasing
<1>1. ~CaptureInFlight /\ ~InlineInFlight
  BY LeaseIsExclusive DEF Leased
<1>2. ASSUME NEW m \in Runs, pc[m] \in {"plan", "gather", "llm", "commit"}
      PROVE  FALSE
  <2>1. m \in Tasks /\ r \in Tasks /\ m # r
    BY TaskKinds
  <2>2. /\ pc[m] \in Granted("runGate")
        /\ pc[r] \in Granted("runGate")
        /\ pc[r] \in Writing("runGate")
    BY <1>2 DEF Writing, Reading, Waits, Granted, DeletePCs
  <2> QED
    BY <2>1, <2>2, WriterExcludes, LocksKnown DEF LocksFollowCode
<1> QED
  BY <1>1, <1>2 DEF RunInFlight

\* While delete-all erases, no capture, contextual read or memory run is in
\* flight, whatever requests arrive and wherever clients disconnect.
THEOREM EraserIsAlone == Spec => []ErasesAlone
BY TypeCorrect, LocksFollowTheCode, LocksKeepErasureAlone, PTL

-----------------------------------------------------------------------------
(***************************************************************************)
(* Pausing: who sets the flag holds the lease, who reads has seen it clear.*)
(***************************************************************************)
\* What the capture task leaves alone.
LEMMA CapStepFrame ==
    ASSUME TypeOK, CapStep
    PROVE  /\ \A t \in Tasks : t # Cap => pc'[t] = pc[t]
           /\ UNCHANGED <<request, reply, control, dataEpoch, chronicle, resetRequested,
                          token, run, cutoff, wasPaused, history>>
BY DEF TypeOK, PCsTyped, CapStep, CapIdle, CapAskLease, CapLeasePaused, CapBeginRead,
   CapSkip, CapObserve, CapPersist, CapEnd, Goto

\* What the memory runs and the retention task leave alone.
LEMMA OthersFrame ==
    ASSUME TypeOK,
           \/ PrunerBegin \/ PruneStep(Pruner)
           \/ \E m \in Runs : RunStep(m) \/ RunComplete(m) \/ RunFails(m)
    PROVE  /\ \A t \in {Cap} \cup Requests : pc'[t] = pc[t]
           /\ UNCHANGED <<request, control, obs, loop, resetRequested, wasPaused>>
           /\ rows' \subseteq rows
           /\ history'.erased = history.erased
<1>1. /\ UNCHANGED <<request, control, obs, loop, resetRequested, wasPaused>>
      /\ rows' \subseteq rows
      /\ history'.erased = history.erased
  BY DEF TypeOK, HistoryStates, PrunerBegin, PruneStep, PruneCommit, PruneFinish,
     PruneFails, RunStep, RunComplete,
     RunFails, RunRegister, RunAwaitSerial, RunAwaitGate, RunEnter, RunCancelled, RunPlan,
     RunGather, RunCommit, RunUnchanged
<1>2. PICK t \in {Pruner} \cup Runs, place \in RunPCs \cup PrunerPCs \cup {"done", "rPruned"} :
         Goto(t, place)
  BY DEF PrunerBegin, PruneStep, PruneCommit, PruneFinish, PruneFails, Finish, RunStep,
     RunComplete, RunFails, RunRegister, RunAwaitSerial, RunAwaitGate, RunEnter, RunCancelled,
     RunPlan, RunGather, RunCommit, RunLeave, RunPCs, PrunerPCs
<1>3. \A u \in Tasks : u # t => pc'[u] = pc[u]
  BY <1>2 DEF Goto, TypeOK, PCsTyped
<1> QED
  BY <1>1, <1>3, TaskKinds

\* The capture task starts to read only while capture is not paused.
LEMMA CapStepPause ==
    ASSUME TypeOK, PauseQuiescent, CapStep
    PROVE  PauseQuiescent'
<1>0. \A r \in Requests : pc'[r] = pc[r]
  BY TaskKinds, CapStepFrame
<1>1. control' = control
  BY CapStepFrame
<1>2. control.paused => ~CaptureInFlight'
  BY TaskKinds DEF PauseQuiescent, CaptureInFlight, TypeOK, PCsTyped, CapStep, CapIdle,
     CapAskLease, CapLeasePaused, CapBeginRead, CapSkip, CapObserve, CapPersist, CapEnd, Goto
<1> QED
  BY <1>0, <1>1, <1>2 DEF PauseQuiescent, InlineInFlight

\* A step that reads nothing and sets no flag.
LEMMA PauseKept ==
    ASSUME TypeOK, PauseQuiescent, NEW t \in Tasks, t # Cap, NEW place, place # "iRead",
           Goto(t, place), control'.paused => control.paused
    PROVE  PauseQuiescent'
<1>1. /\ pc'[Cap] = pc[Cap]
      /\ \A r \in Requests : pc'[r] = "iRead" => pc[r] = "iRead"
  BY TaskKinds DEF Goto, TypeOK, PCsTyped
<1> QED
  BY <1>1 DEF PauseQuiescent, CaptureInFlight, InlineInFlight

\* A step that holds the lease to write and reads nothing.
LEMMA PauseTaken ==
    ASSUME TypeOK, LocksFollowCode, NEW r \in Requests, NEW place, place # "iRead", Goto(r, place),
           ~CaptureInFlight, ~InlineInFlight
    PROVE  PauseQuiescent'
<1>1. /\ pc'[Cap] = pc[Cap]
      /\ \A q \in Requests : pc'[q] = "iRead" => pc[q] = "iRead"
  BY TaskKinds DEF Goto, TypeOK, PCsTyped
<1> QED
  BY <1>1 DEF PauseQuiescent, CaptureInFlight, InlineInFlight

\* A handler pauses capture only while it holds the lease to write.
LEMMA RequestPause ==
    ASSUME TypeOK, LocksFollowCode, PauseQuiescent, NEW r \in Requests,
           Requested(r) \/ Serve(r) \/ Disconnect(r)
    PROVE  PauseQuiescent'
<1>0. r \in Tasks /\ r # Cap
  BY TaskKinds
<1>1. ASSUME NEW asked \in Asked, Arrive(r, asked)
      PROVE  PauseQuiescent'
  <2>1. FirstLock(asked.kind)[3] \in {"pGate", "bGate", "dGate", "iGate", "rConfig"}
    BY <1>1, KindsKnown DEF Arrive, RequestKinds, FirstLock
  <2> QED
    BY <1>0, <1>1, <2>1, PauseKept DEF Arrive
<1>2. ASSUME NEW ready \in BOOLEAN, Resume(r, ready)
      PROVE  PauseQuiescent'
  <2>1. control'.paused => control.paused
    BY <1>2 DEF Resume, Resumed, TypeOK, ControlStates
  <2> QED
    BY <1>0, <1>2, <2>1, PauseKept DEF Resume
<1>3. CASE PauseTake(r)
  BY <1>3, LeaseIsExclusive, PauseTaken DEF PauseTake, Leased
<1>4. CASE DeletePause(r)
  BY <1>4, LeaseIsExclusive, PauseTaken DEF DeletePause, Leased
<1>5. CASE InlineStart(r)
  <2>1. CASE control.paused
    BY <1>0, <1>5, <2>1, PauseKept DEF InlineStart, Answer
  <2>2. CASE ~control.paused
    BY <1>5, <2>2 DEF InlineStart, PauseQuiescent
  <2> QED
    BY <2>1, <2>2
<1>6. CASE BlacklistSave(r)
  <2>1. control'.paused => control.paused
    BY <1>6 DEF BlacklistSave, TypeOK, ControlStates
  <2> QED
    BY <1>0, <1>6, <2>1, PauseKept DEF BlacklistSave, Answer
<1>7. CASE RetentionSave(r)
  <2>1. control'.paused => control.paused
    BY <1>7 DEF RetentionSave, TypeOK, ControlStates
  <2>2. PICK place \in {"idle", "done", "rPrune"} : Goto(r, place)
    BY <1>7 DEF RetentionSave, Finish
  <2> QED
    BY <1>0, <2>1, <2>2, PauseKept
<1>8. CASE DeleteResume(r)
  <2>1. control'.paused => control.paused
    BY <1>8 DEF DeleteResume, Resumed, TypeOK, ControlStates
  <2> QED
    BY <1>0, <1>8, <2>1, PauseKept DEF DeleteResume
<1>9. CASE PruneStep(r)
  <2>1. PICK place \in {"idle", "done", "pruned", "rPruned"} : Goto(r, place)
    BY <1>9 DEF PruneStep, PruneCommit, PruneFinish, PruneFails, Finish
  <2>2. control' = control
    BY <1>9 DEF PruneStep, PruneCommit, PruneFinish, PruneFails
  <2> QED
    BY <1>0, <2>1, <2>2, PauseKept
<1>10. CASE \/ PauseAnswer(r) \/ BlacklistConfig(r) \/ BlacklistBarrier(r) \/ BlacklistStart(r)
            \/ InlineAnswer(r) \/ RetentionBarrier(r) \/ RetentionStart(r)
  BY <1>0, <1>10, PauseKept DEF PauseAnswer, BlacklistConfig, BlacklistBarrier, BlacklistStart,
     InlineAnswer, RetentionBarrier, RetentionStart, GrantedThenAwait, Answer
<1>11. CASE \/ DeleteSerial(r) \/ DeleteFlag(r) \/ DeleteQuiesce(r) \/ DeleteBarrier(r)
            \/ DeleteObserve(r) \/ DeleteCommit(r)
  BY <1>0, <1>11, PauseKept DEF DeleteSerial, DeleteFlag, DeleteQuiesce, DeleteBarrier,
     DeleteObserve, DeleteCommit, GrantedThenAwait
<1>12. CASE \/ DeleteFails(r) \/ DeleteFinish(r) \/ DeleteReset(r) \/ DeleteRelease(r)
            \/ Disconnect(r)
  BY <1>0, <1>12, PauseKept DEF DeleteFails, DeleteFinish, DeleteReset, DeleteRelease,
     Disconnect, Answer
<1> QED
  BY <1>1, <1>2, <1>3, <1>4, <1>5, <1>6, <1>7, <1>8, <1>9, <1>10, <1>11, <1>12
  DEF Requested, Serve

\* Memory runs and the retention task neither read the screen nor pause.
LEMMA OthersPause ==
    ASSUME TypeOK, PauseQuiescent,
           \/ PrunerBegin \/ PruneStep(Pruner)
           \/ \E m \in Runs : RunStep(m) \/ RunComplete(m) \/ RunFails(m)
    PROVE  PauseQuiescent'
BY OthersFrame DEF PauseQuiescent, CaptureInFlight, InlineInFlight

\* Once a pause is acknowledged nothing is being read and nothing that was
\* read is on its way to the database, until a resume.
THEOREM PauseIsQuiescent == Spec => []PauseQuiescent
<1>1. Init => PauseQuiescent
  BY TaskKinds DEF Init, PauseQuiescent, CaptureInFlight, InlineInFlight
<1>2. TypeOK /\ LocksFollowCode /\ PauseQuiescent /\ [Next]_vars => PauseQuiescent'
  <2> SUFFICES ASSUME TypeOK, LocksFollowCode, PauseQuiescent, [Next]_vars
               PROVE  PauseQuiescent'
    OBVIOUS
  <2>1. CASE Next
    BY <2>1, CapStepPause, RequestPause, OthersPause DEF Next
  <2>2. CASE UNCHANGED vars
    BY <2>2 DEF vars, PauseQuiescent, CaptureInFlight, InlineInFlight
  <2> QED
    BY <2>1, <2>2
<1> QED
  BY <1>1, <1>2, TypeCorrect, LocksFollowTheCode, PTL DEF Spec

-----------------------------------------------------------------------------
(***************************************************************************)
(* The reset flag: whoever raised it is still on the way to lowering it.   *)
(***************************************************************************)
\* A handler that raises no flag, and goes on holding one it holds.
LEMMA FlagKept ==
    ASSUME TypeOK, ResetFlagOwned, NEW r \in Requests, NEW place, Goto(r, place),
           resetRequested' = resetRequested,
           pc[r] \in {"dFlag", "dQuiesce", "dBarrier", "dPause", "dErase", "dErased",
                      "dResume", "dReset"}
             => place \in {"dQuiesce", "dBarrier", "dPause", "dErase", "dErased",
                           "dResume", "dReset"}
    PROVE  ResetFlagOwned'
<1>1. \A q \in Requests : pc'[q] = IF q = r THEN place ELSE pc[q]
  BY TaskKinds DEF Goto, TypeOK, PCsTyped
<1> QED
  BY <1>1 DEF ResetFlagOwned

\* Every step of a handler leaves the flag owned.
LEMMA RequestFlag ==
    ASSUME TypeOK, ResetFlagOwned, NEW r \in Requests,
           Requested(r) \/ Serve(r) \/ Disconnect(r)
    PROVE  ResetFlagOwned'
<1>1. CASE Requested(r)
  BY <1>1, FlagKept DEF Requested, Arrive, Resume
<1>2. CASE \/ PauseTake(r) \/ PauseAnswer(r) \/ BlacklistConfig(r) \/ BlacklistBarrier(r)
           \/ BlacklistStart(r) \/ BlacklistSave(r)
  BY <1>2, FlagKept DEF PauseTake, PauseAnswer, BlacklistConfig, BlacklistBarrier,
     BlacklistStart, BlacklistSave, GrantedThenAwait, Answer
<1>3. CASE InlineStart(r) \/ InlineAnswer(r) \/ RetentionBarrier(r) \/ RetentionStart(r)
  BY <1>3, FlagKept DEF InlineStart, InlineAnswer, RetentionBarrier, RetentionStart,
     GrantedThenAwait, Answer
<1>4. CASE RetentionSave(r) \/ PruneStep(r)
  BY <1>4, FlagKept, TaskKinds DEF RetentionSave, PruneStep, PruneCommit, PruneFinish,
     PruneFails, Finish
<1>5. CASE DeleteFlag(r)
  BY <1>5, TaskKinds DEF DeleteFlag, Goto, TypeOK, PCsTyped, ResetFlagOwned
<1>6. CASE \/ DeleteSerial(r) \/ DeleteQuiesce(r) \/ DeleteBarrier(r) \/ DeleteObserve(r)
           \/ DeletePause(r) \/ DeleteCommit(r)
  BY <1>6, FlagKept DEF DeleteSerial, DeleteQuiesce, DeleteBarrier, DeleteObserve,
     DeletePause, DeleteCommit, GrantedThenAwait
<1>7. CASE DeleteFails(r) \/ DeleteFinish(r) \/ DeleteResume(r) \/ DeleteRelease(r)
  BY <1>7, FlagKept DEF DeleteFails, DeleteFinish, DeleteResume, DeleteRelease
<1>8. CASE DeleteReset(r)
  BY <1>8 DEF DeleteReset, ResetFlagOwned
<1>9. CASE Disconnect(r)
  BY <1>9, FlagKept DEF Disconnect, Answer, ResetFlagOwned, Waiting
<1> QED
  BY <1>1, <1>2, <1>3, <1>4, <1>5, <1>6, <1>7, <1>8, <1>9 DEF Serve

\* A reset request never outlives the handler that made it, even one whose
\* client disconnected: memory generation is not stopped for good.
THEOREM ResetFlagIsOwned == Spec => []ResetFlagOwned
<1>1. Init => ResetFlagOwned
  BY DEF Init, ResetFlagOwned
<1>2. TypeOK /\ ResetFlagOwned /\ [Next]_vars => ResetFlagOwned'
  <2> SUFFICES ASSUME TypeOK, ResetFlagOwned, [Next]_vars PROVE ResetFlagOwned'
    OBVIOUS
  <2>1. CASE CapStep
    BY <2>1, CapStepFrame, TaskKinds DEF ResetFlagOwned
  <2>2. CASE \/ PrunerBegin \/ PruneStep(Pruner)
             \/ \E m \in Runs : RunStep(m) \/ RunComplete(m) \/ RunFails(m)
    BY <2>2, OthersFrame DEF ResetFlagOwned
  <2>3. CASE UNCHANGED vars
    BY <2>3 DEF vars, ResetFlagOwned
  <2> QED
    BY <2>1, <2>2, <2>3, RequestFlag DEF Next
<1> QED
  BY <1>1, <1>2, TypeCorrect, PTL DEF Spec

-----------------------------------------------------------------------------
(***************************************************************************)
(* Exclusion: what is on its way to the database was read under the list   *)
(* in force.                                                               *)
(***************************************************************************)
Admitted ==
    /\ pc[Cap] = "read" => loop.applied = control.blacklist
    /\ pc[Cap] = "persist" => loop.candidate.span.app \notin control.blacklist

\* What a handler leaves alone, but for the four steps that matter here.
Quiet(r) ==
    /\ \A t \in Tasks : t # r => pc'[t] = pc[t]
    /\ pc'[r] # "dErase"
    /\ UNCHANGED <<obs, loop, run>>
    /\ rows' \subseteq rows
    /\ chronicle' \in {chronicle, NoMemory}
    /\ control'.blacklist = control.blacklist
    /\ control'.continuity = control.continuity
    /\ control'.paused => control.paused
    /\ history'.erased = history.erased

\* A handler moves alone.
LEMMA MoveFrame ==
    ASSUME TypeOK, NEW r \in Requests, NEW place, Goto(r, place), place # "dErase"
    PROVE  (\A t \in Tasks : t # r => pc'[t] = pc[t]) /\ pc'[r] # "dErase"
BY TaskKinds DEF TypeOK, PCsTyped, Goto

\* Every step of a handler is one of the four or is quiet.
LEMMA RequestFrame ==
    ASSUME TypeOK, NEW r \in Requests, Requested(r) \/ Serve(r) \/ Disconnect(r)
    PROVE  PauseTake(r) \/ BlacklistSave(r) \/ DeletePause(r) \/ DeleteCommit(r) \/ Quiet(r)
<1> USE MoveFrame DEF Quiet
<1>0. control \in ControlStates /\ history \in HistoryStates
  BY DEF TypeOK
<1>1. ASSUME NEW asked \in Asked, Arrive(r, asked)
      PROVE  Quiet(r)
  <2>1. FirstLock(asked.kind)[3] # "dErase"
    BY <1>1, KindsKnown DEF Arrive, FirstLock, RequestKinds
  <2> QED
    BY <1>1, <2>1 DEF Arrive
<1>2. ASSUME NEW ready \in BOOLEAN, Resume(r, ready)
      PROVE  Quiet(r)
  BY <1>0, <1>2 DEF Resume, Resumed, ControlStates, HistoryStates
<1>3. CASE PauseAnswer(r) \/ BlacklistConfig(r) \/ BlacklistBarrier(r) \/ BlacklistStart(r)
  BY <1>3 DEF PauseAnswer, BlacklistConfig, BlacklistBarrier, BlacklistStart,
     GrantedThenAwait, Answer
<1>4. CASE InlineStart(r) \/ InlineAnswer(r) \/ RetentionBarrier(r) \/ RetentionStart(r)
  BY <1>4 DEF InlineStart, InlineAnswer, RetentionBarrier, RetentionStart,
     GrantedThenAwait, Answer
<1>5. CASE RetentionSave(r)
  <2>1. PICK place \in {"idle", "done", "rPrune"} : Goto(r, place)
    BY <1>5 DEF RetentionSave, Finish
  <2>2. /\ control'.blacklist = control.blacklist
        /\ control'.continuity = control.continuity
        /\ control'.paused => control.paused
    BY <1>0, <1>5 DEF RetentionSave, ControlStates
  <2> QED
    BY <1>5, <2>1, <2>2 DEF RetentionSave
<1>6. CASE PruneStep(r)
  <2>1. PICK place \in {"idle", "done", "pruned", "rPruned"} : Goto(r, place)
    BY <1>6 DEF PruneStep, PruneCommit, PruneFinish, PruneFails, Finish
  <2>2. history'.erased = history.erased
    BY <1>0, <1>6 DEF PruneStep, PruneCommit, PruneFinish, PruneFails, HistoryStates
  <2> QED
    BY <1>6, <2>1, <2>2 DEF PruneStep, PruneCommit, PruneFinish, PruneFails
<1>7. CASE \/ DeleteSerial(r) \/ DeleteFlag(r) \/ DeleteQuiesce(r) \/ DeleteBarrier(r)
           \/ DeleteObserve(r)
  BY <1>7 DEF DeleteSerial, DeleteFlag, DeleteQuiesce, DeleteBarrier, DeleteObserve,
     GrantedThenAwait
<1>8. CASE \/ DeleteFails(r) \/ DeleteFinish(r) \/ DeleteReset(r) \/ DeleteRelease(r)
           \/ Disconnect(r)
  BY <1>8 DEF DeleteFails, DeleteFinish, DeleteReset, DeleteRelease, Disconnect, Answer
<1>9. CASE DeleteResume(r)
  BY <1>0, <1>9 DEF DeleteResume, Resumed, ControlStates
<1> QED
  BY <1>1, <1>2, <1>3, <1>4, <1>5, <1>6, <1>7, <1>8, <1>9 DEF Requested, Serve

\* What a pause does to the settings.
LEMMA PauseEffect ==
    ASSUME TypeOK, NEW w, PauseNow(w)
    PROVE  /\ control'.blacklist = control.blacklist
           /\ control'.continuity = IF control.paused THEN control.continuity
                                    ELSE control.continuity + 1
           /\ history'.erased = history.erased
<1>1. control \in ControlStates /\ history \in HistoryStates
  BY DEF TypeOK
<1>2. control'.blacklist = control.blacklist
  BY <1>1 DEF PauseNow, Paused, ControlStates
<1>3. control'.continuity = IF control.paused THEN control.continuity ELSE control.continuity + 1
  BY <1>1 DEF PauseNow, Paused, ControlStates
<1>4. history'.erased = history.erased
  BY <1>1 DEF PauseNow, HistoryStates
<1> QED
  BY <1>2, <1>3, <1>4

\* The capture task writes only what the list in force admits.
LEMMA CapStepAdmitted ==
    ASSUME TypeOK, Admitted, CapStep
    PROVE  Admitted' /\ \A row \in rows' \ rows : row.span.app \notin control.blacklist
<1>1. CASE CapIdle \/ CapAskLease \/ CapLeasePaused \/ CapSkip \/ CapEnd
  BY <1>1, TaskKinds DEF CapIdle, CapAskLease, CapLeasePaused, CapSkip, CapEnd, Goto, Admitted,
     TypeOK, PCsTyped
<1>2. CASE CapBeginRead
  <2>1. Refreshed(loop) \in LoopStates
    BY LoopClosed DEF TypeOK
  <2>2. loop'.applied = control.blacklist
    BY <1>2, <2>1 DEF CapBeginRead, LoopStates
  <2> QED
    BY <1>2, <2>2, TaskKinds DEF CapBeginRead, Goto, Admitted, TypeOK, PCsTyped
<1>3. ASSUME NEW app \in Apps, NEW near \in BOOLEAN, CapObserve(app, near)
      PROVE  Admitted' /\ rows' = rows
  <2>1. Continued(loop) \in LoopStates
    BY LoopClosed DEF TypeOK
  <2>2. loop'.candidate.span.app = app
    BY <1>3, <2>1 DEF CapObserve, Observed, LoopStates
  <2>3. app \notin control.blacklist
    BY <1>3 DEF CapObserve, Admitted
  <2> QED
    BY <1>3, <2>2, <2>3, TaskKinds DEF CapObserve, Goto, Admitted, TypeOK, PCsTyped
<1>4. CASE CapPersist
  <2>1. \A row \in Recorded(loop.candidate) \ rows : row.span.app = loop.candidate.span.app
    BY DEF Recorded, Extended
  <2> QED
    BY <1>4, <2>1, TaskKinds DEF CapPersist, Goto, Admitted, TypeOK, PCsTyped
<1> QED
  BY <1>1, <1>2, <1>3, <1>4 DEF CapStep, CapIdle, CapAskLease, CapLeasePaused, CapBeginRead,
     CapSkip, CapEnd

\* Nothing of an excluded application is stored once the exclusion has been
\* acknowledged, although the list may change between a read and its write.
THEOREM ExclusionIsHonoured == Spec => ExclusionHonoured
<1>1. Init => Admitted
  BY TaskKinds DEF Init, Admitted
<1>2. ASSUME TypeOK, LocksFollowCode, Admitted, [Next]_vars
      PROVE  /\ Admitted'
             /\ [\A row \in rows' \ rows : row.span.app \notin control.blacklist]_vars
  <2>1. CASE CapStep
    BY <1>2, <2>1, CapStepAdmitted
  <2>2. CASE \/ PrunerBegin \/ PruneStep(Pruner)
             \/ \E m \in Runs : RunStep(m) \/ RunComplete(m) \/ RunFails(m)
    BY <1>2, <2>2, OthersFrame DEF Admitted
  <2>3. ASSUME NEW r \in Requests, Requested(r) \/ Serve(r) \/ Disconnect(r)
        PROVE  Admitted' /\ rows' \subseteq rows
    <3>1. CASE Quiet(r)
      BY <1>2, <3>1, TaskKinds DEF Quiet, Admitted
    <3>2. CASE PauseTake(r) \/ DeletePause(r) \/ DeleteCommit(r)
      <4>1. /\ pc'[Cap] = pc[Cap] /\ loop' = loop /\ rows' \subseteq rows
            /\ control'.blacklist = control.blacklist
        BY <1>2, <3>2, TaskKinds, PauseEffect DEF PauseTake, DeletePause, DeleteCommit,
           Goto, TypeOK, PCsTyped
      <4> QED
        BY <1>2, <4>1 DEF Admitted
    <3>3. CASE BlacklistSave(r)
      <4>1. pc[Cap] \notin {"read", "persist"}
        BY <1>2, <3>3, LeaseIsExclusive DEF BlacklistSave, Leased, CaptureInFlight
      <4>2. pc'[Cap] = pc[Cap] /\ rows' = rows
        BY <1>2, <3>3, MoveFrame, TaskKinds DEF BlacklistSave, Answer
      <4> QED
        BY <4>1, <4>2 DEF Admitted
    <3> QED
      BY <1>2, <2>3, <3>1, <3>2, <3>3, RequestFrame
  <2>4. CASE UNCHANGED vars
    BY <1>2, <2>4 DEF vars, Admitted
  <2> QED
    BY <1>2, <2>1, <2>2, <2>3, <2>4 DEF Next
<1> QED
  BY <1>1, <1>2, TypeCorrect, LocksFollowTheCode, PTL DEF Spec, ExclusionHonoured

-----------------------------------------------------------------------------
(***************************************************************************)
(* Erasure: whatever the loop, the runs and the tables still hold was      *)
(* observed after the last committed delete-all.                           *)
(***************************************************************************)
Empty(l) == l.pending = NoSpan /\ l.active = 0

After(l) ==
    /\ l.pending # NoSpan => l.pending.first > history.erased
    /\ l.active # 0 => l.active > history.erased

RowsAfter == \A row \in rows : row.id > history.erased /\ row.span.first > history.erased
MemoryAfter == \A id \in chronicle.sources : id > history.erased
PromptsAfter ==
    \A m \in Runs : pc[m] \in {"llm", "commit"} => \A id \in run[m].prompt : id > history.erased
CandidateAfter ==
    pc[Cap] \in {"persist", "stored"}
        => loop.candidate.id > history.erased /\ loop.candidate.span.first > history.erased

\* A loop that has seen the last pause holds nothing older than the erasure,
\* and nothing at all while paused or about to be erased under.
LoopAfter ==
    /\ loop.seen <= control.continuity
    /\ loop.seen = control.continuity =>
         /\ After(loop)
         /\ control.paused => Empty(loop)
         /\ (\E r \in Requests : pc[r] = "dErase") => Empty(loop)

Erased ==
    /\ history.erased <= obs
    /\ RowsAfter /\ MemoryAfter /\ PromptsAfter /\ CandidateAfter /\ LoopAfter

\* What the operators on the loop do to it.
LEMMA LoopEffects ==
    ASSUME TypeOK, NEW l \in LoopStates
    PROVE  /\ Empty(Cleared(l)) /\ Cleared(l).seen = l.seen
           /\ Continued(l).seen = control.continuity
           /\ l.seen = control.continuity => Continued(l) = l
           /\ l.seen # control.continuity => Empty(Continued(l))
           /\ Refreshed(l).seen = l.seen
           /\ Refreshed(l) = l \/ Empty(Refreshed(l))
BY DEF TypeOK, LoopStates, Cleared, Continued, Refreshed, Empty

\* A loop that holds nothing holds nothing old.
LEMMA EmptyIsAfter ==
    ASSUME NEW l, Empty(l)
    PROVE  After(l)
BY DEF Empty, After

\* A new observation follows the erasure, and so does what it merges with.
LEMMA ObservedAfter ==
    ASSUME TypeOK, NEW l \in LoopStates, After(l), NEW app, NEW near, NEW now \in Obs,
           now > history.erased
    PROVE  /\ After(Observed(l, app, near, now))
           /\ Observed(l, app, near, now).seen = l.seen
           /\ Observed(l, app, near, now).candidate.id > history.erased
           /\ Observed(l, app, near, now).candidate.span.first > history.erased
<1> DEFINE merged == Merges(l, app, near)
           span == [app |-> app, first |-> IF merged THEN l.pending.first ELSE now, last |-> now]
           id == IF merged /\ l.active # 0 THEN l.active ELSE now
<1>1. merged => l.pending # NoSpan
  BY DEF Merges
<1>2. span.first > history.erased
  BY <1>1 DEF After
<1>3. id > history.erased
  BY DEF After
<1> HIDE DEF merged, span, id
<1>4. Observed(l, app, near, now) =
        [l EXCEPT !.pending = span, !.active = IF merged THEN 0 ELSE @,
                  !.candidate = [id |-> id, span |-> span]]
  BY DEF Observed, merged, span, id
<1> QED
  BY <1>2, <1>3, <1>4 DEF LoopStates, After

\* The loop changes alone.
LEMMA LoopMoved ==
    ASSUME Erased, NEW l, loop' = l, control' = control, history' = history, rows' = rows,
           chronicle' = chronicle, run' = run, obs' \in {obs, obs + 1}, obs \in Nat,
           history.erased \in Nat,
           \A t \in Runs \cup Requests : pc'[t] = pc[t],
           l.seen <= control.continuity,
           l.seen = control.continuity => After(l),
           l.seen = control.continuity => (control.paused => Empty(l)),
           l.seen = control.continuity => ((\E r \in Requests : pc[r] = "dErase") => Empty(l)),
           CandidateAfter'
    PROVE  Erased'
<1>1. RowsAfter' /\ MemoryAfter' /\ PromptsAfter'
  BY DEF Erased, RowsAfter, MemoryAfter, PromptsAfter
<1>2. LoopAfter'
  BY DEF Erased, LoopAfter, After
<1> QED
  BY <1>1, <1>2 DEF Erased

\* No step of the capture task brings back what was erased.
LEMMA CapStepErased ==
    ASSUME TypeOK, LocksFollowCode, PauseQuiescent, Erased, CapStep
    PROVE  Erased'
<1>0. /\ Cap \in Tasks /\ loop \in LoopStates
      /\ control.continuity \in Nat /\ loop.seen \in Nat /\ obs \in Nat /\ history.erased \in Nat
      /\ \A t \in Runs \cup Requests : pc'[t] = pc[t]
      /\ control' = control /\ history' = history /\ chronicle' = chronicle /\ run' = run
  BY TaskKinds, CapStepFrame DEF TypeOK, ControlStates, LoopStates, HistoryStates
<1>1. CASE CapIdle
  <2>1. Empty(loop') /\ loop'.seen = control.continuity
    BY <1>0, <1>1, LoopClosed, LoopEffects DEF CapIdle, TypeOK
  <2>2. CandidateAfter'
    BY <1>1 DEF CapIdle, CandidateAfter
  <2> QED
    BY <1>0, <1>1, <2>1, <2>2, LoopMoved, EmptyIsAfter DEF CapIdle
<1>2. CASE CapAskLease
  <2>1. loop'.seen = control.continuity /\ (loop' = loop \/ Empty(loop'))
    BY <1>0, <1>2, LoopEffects DEF CapAskLease
  <2>2. loop' = loop => loop.seen = control.continuity
    BY <2>1
  <2>3. CandidateAfter'
    BY <1>0, <1>2 DEF CapAskLease, Goto, CandidateAfter, TypeOK, PCsTyped
  <2>4. /\ rows' = rows /\ obs' = obs
        /\ After(loop') /\ loop'.seen <= control.continuity
        /\ control.paused => Empty(loop')
        /\ (\E r \in Requests : pc[r] = "dErase") => Empty(loop')
    BY <1>0, <1>2, <2>1, <2>2, EmptyIsAfter DEF CapAskLease, Erased, LoopAfter
  <2> QED
    BY <1>0, <2>3, <2>4, LoopMoved
<1>3. CASE CapLeasePaused
  <2>1. Empty(loop') /\ loop'.seen = loop.seen
    BY <1>0, <1>3, LoopEffects DEF CapLeasePaused
  <2>2. CandidateAfter'
    BY <1>0, <1>3 DEF CapLeasePaused, Goto, CandidateAfter, TypeOK, PCsTyped
  <2>3. loop.seen <= control.continuity
    BY DEF Erased, LoopAfter
  <2> QED
    BY <1>0, <1>3, <2>1, <2>2, <2>3, LoopMoved, EmptyIsAfter DEF CapLeasePaused
<1>4. CASE CapBeginRead
  <2>1. Refreshed(loop) \in LoopStates
    BY <1>0, LoopClosed DEF TypeOK
  <2>2. /\ loop'.seen = loop.seen
        /\ loop'.pending = Refreshed(loop).pending /\ loop'.active = Refreshed(loop).active
    BY <1>0, <1>4, <2>1, LoopEffects DEF CapBeginRead, LoopStates
  <2>3. Empty(loop) => Empty(loop')
    BY <1>0, <2>2, LoopEffects DEF Empty
  <2>4. After(loop) => After(loop')
    BY <1>0, <2>2, LoopEffects, EmptyIsAfter DEF After
  <2>5. CandidateAfter'
    BY <1>0, <1>4 DEF CapBeginRead, Goto, CandidateAfter, TypeOK, PCsTyped
  <2>6. /\ loop'.seen <= control.continuity
        /\ loop'.seen = control.continuity => After(loop')
        /\ loop'.seen = control.continuity => (control.paused => Empty(loop'))
        /\ loop'.seen = control.continuity =>
             ((\E r \in Requests : pc[r] = "dErase") => Empty(loop'))
    BY <2>2, <2>3, <2>4 DEF Erased, LoopAfter
  <2> QED
    BY <1>0, <1>4, <2>5, <2>6, LoopMoved DEF CapBeginRead
<1>5. CASE CapSkip
  <2>1. Empty(loop') /\ loop'.seen = control.continuity
    BY <1>0, <1>5, LoopClosed, LoopEffects DEF CapSkip, TypeOK
  <2>2. CandidateAfter'
    BY <1>0, <1>5 DEF CapSkip, Goto, CandidateAfter, TypeOK, PCsTyped
  <2> QED
    BY <1>0, <1>5, <2>1, <2>2, LoopMoved, EmptyIsAfter DEF CapSkip
<1>6. ASSUME NEW app \in Apps, NEW near \in BOOLEAN, CapObserve(app, near)
      PROVE  Erased'
  <2>1. Continued(loop) \in LoopStates /\ Continued(loop).seen = control.continuity
    BY <1>0, LoopClosed, LoopEffects DEF TypeOK
  <2>2. After(Continued(loop))
    BY <1>0, LoopEffects, EmptyIsAfter DEF Erased, LoopAfter
  <2>3. obs + 1 \in Obs /\ obs + 1 > history.erased
    BY <1>0, <1>6, BoundsKnown DEF CapObserve, Obs, Erased, TypeOK
  <2>4. /\ After(loop') /\ loop'.seen = control.continuity
        /\ loop'.candidate.id > history.erased /\ loop'.candidate.span.first > history.erased
    BY <1>6, <2>1, <2>2, <2>3, ObservedAfter DEF CapObserve
  <2>5. CandidateAfter'
    BY <1>0, <2>4 DEF CandidateAfter
  <2>6. ~(\E r \in Requests : pc[r] = "dErase")
    BY <1>6, LocksKeepErasureAlone DEF CapObserve, ErasesAlone, Erasing, CaptureInFlight
  <2>7. rows' = rows /\ obs' = obs + 1 /\ ~control.paused
    BY <1>6 DEF CapObserve
  <2> QED
    BY <1>0, <2>4, <2>5, <2>6, <2>7, LoopMoved
<1>7. CASE CapPersist
  <2>1. loop' = loop /\ obs' = obs /\ (rows' = rows \/ rows' = Recorded(loop.candidate))
    BY <1>7 DEF CapPersist
  <2>2. loop.candidate \in Snapshots
    BY <1>7 DEF CapPersist, TypeOK, CandidateKnown
  <2>3. loop.candidate.id > history.erased /\ loop.candidate.span.first > history.erased
    BY <1>7 DEF CapPersist, Erased, CandidateAfter
  <2>4. \A row \in Recorded(loop.candidate) :
           row.id > history.erased /\ row.span.first > history.erased
    BY <2>2, <2>3 DEF Recorded, Extended, Erased, RowsAfter
  <2>5. RowsAfter'
    BY <1>0, <2>1, <2>4 DEF Erased, RowsAfter
  <2>6. CandidateAfter'
    BY <1>0, <2>1, <2>3 DEF CandidateAfter
  <2>7. MemoryAfter' /\ PromptsAfter' /\ LoopAfter'
    BY <1>0, <2>1 DEF Erased, MemoryAfter, PromptsAfter, LoopAfter, After
  <2> QED
    BY <1>0, <2>1, <2>5, <2>6, <2>7 DEF Erased
<1>8. CASE CapEnd
  <2>1. ~control.paused
    BY <1>8 DEF CapEnd, PauseQuiescent, CaptureInFlight
  <2>2. ~(\E r \in Requests : pc[r] = "dErase")
    BY <1>8, LocksKeepErasureAlone DEF CapEnd, ErasesAlone, Erasing, CaptureInFlight
  <2>3. loop'.seen = loop.seen /\ (After(loop) => After(loop'))
    <3>1. CASE pc[Cap] = "stored"
      BY <1>0, <1>8, <3>1 DEF CapEnd, LoopStates, Erased, CandidateAfter, After
    <3>2. CASE pc[Cap] = "lost"
      BY <1>0, <1>8, <3>2 DEF CapEnd, LoopStates, Cleared, After
    <3> QED
      BY <1>8, <3>1, <3>2 DEF CapEnd
  <2>4. CandidateAfter'
    BY <1>0, <1>8 DEF CapEnd, Goto, CandidateAfter, TypeOK, PCsTyped
  <2>5. loop.seen <= control.continuity /\ (loop.seen = control.continuity => After(loop))
    BY DEF Erased, LoopAfter
  <2>6. rows' = rows /\ obs' = obs
    BY <1>8 DEF CapEnd
  <2> QED
    BY <1>0, <2>1, <2>2, <2>3, <2>4, <2>5, <2>6, LoopMoved
<1> QED
  BY <1>1, <1>2, <1>3, <1>4, <1>5, <1>6, <1>7, <1>8 DEF CapStep

\* A handler's step that erases nothing: the settings may pause.
LEMMA SettingsMoved ==
    ASSUME TypeOK, Erased, NEW r \in Requests,
           \A t \in Tasks : t # r => pc'[t] = pc[t],
           UNCHANGED <<obs, loop, run>>, rows' \subseteq rows, chronicle' \in {chronicle, NoMemory},
           history'.erased = history.erased, LoopAfter'
    PROVE  Erased'
<1>1. MemoryAfter' /\ RowsAfter'
  BY DEF Erased, MemoryAfter, RowsAfter, NoMemory
<1>2. PromptsAfter' /\ CandidateAfter'
  BY TaskKinds DEF Erased, PromptsAfter, CandidateAfter
<1> QED
  BY <1>1, <1>2 DEF Erased

\* No step of a handler does.
LEMMA RequestErased ==
    ASSUME TypeOK, LocksFollowCode, Erased, NEW r \in Requests,
           Requested(r) \/ Serve(r) \/ Disconnect(r)
    PROVE  Erased'
<1>0. /\ loop.seen \in Nat /\ control.continuity \in Nat /\ r \in Tasks
      /\ control \in ControlStates /\ history \in HistoryStates
  BY TaskKinds DEF TypeOK, ControlStates, LoopStates
<1>1. CASE Quiet(r)
  <2>1. (\E q \in Requests : pc'[q] = "dErase") => \E q \in Requests : pc[q] = "dErase"
    BY <1>1, TaskKinds DEF Quiet
  <2>2. LoopAfter'
    BY <1>1, <2>1 DEF Quiet, Erased, LoopAfter, After, Empty
  <2> QED
    BY <1>1, <2>2, SettingsMoved DEF Quiet
<1>2. CASE BlacklistSave(r)
  <2>1. control'.continuity = control.continuity /\ control'.paused = control.paused
    BY <1>0, <1>2 DEF BlacklistSave, ControlStates
  <2>2. (\A t \in Tasks : t # r => pc'[t] = pc[t]) /\ pc'[r] # "dErase"
    BY <1>2, MoveFrame DEF BlacklistSave, Answer
  <2>3. (\E q \in Requests : pc'[q] = "dErase") => \E q \in Requests : pc[q] = "dErase"
    BY <2>2, TaskKinds
  <2>4. UNCHANGED <<obs, loop, run, rows, chronicle, history>>
    BY <1>2 DEF BlacklistSave
  <2>5. LoopAfter'
    BY <2>1, <2>3, <2>4 DEF Erased, LoopAfter, After
  <2> QED
    BY <2>2, <2>4, <2>5, SettingsMoved
<1>3. CASE PauseTake(r) \/ DeletePause(r)
  <2>1. /\ control'.continuity = IF control.paused THEN control.continuity
                                 ELSE control.continuity + 1
        /\ history'.erased = history.erased
    BY <1>3, PauseEffect DEF PauseTake, DeletePause
  <2>2. \A t \in Tasks : t # r => pc'[t] = pc[t]
    BY <1>3 DEF PauseTake, DeletePause, Goto, TypeOK, PCsTyped
  <2>3. UNCHANGED <<obs, loop, run, rows, chronicle>>
    BY <1>3 DEF PauseTake, DeletePause
  <2>4. LoopAfter'
    BY <1>0, <2>1, <2>3 DEF Erased, LoopAfter, After, Empty
  <2> QED
    BY <2>1, <2>2, <2>3, <2>4, SettingsMoved
<1>4. CASE DeleteCommit(r)
  <2>1. pc[Cap] \notin {"persist", "stored"} /\ \A m \in Runs : pc[m] \notin {"llm", "commit"}
    BY <1>4, LocksKeepErasureAlone
    DEF DeleteCommit, ErasesAlone, Erasing, CaptureInFlight, RunInFlight
  <2>2. \A t \in Tasks : t # r => pc'[t] = pc[t]
    BY <1>4 DEF DeleteCommit, Goto, TypeOK, PCsTyped
  <2>3. /\ history'.erased = obs /\ rows' = {} /\ chronicle' = NoMemory
        /\ UNCHANGED <<obs, loop, run, control>> /\ pc[r] = "dErase"
    BY <1>0, <1>4 DEF DeleteCommit, HistoryStates
  <2>4. LoopAfter'
    BY <2>3 DEF Erased, LoopAfter, After, Empty
  <2>5. RowsAfter' /\ MemoryAfter'
    BY <2>3 DEF RowsAfter, MemoryAfter, NoMemory
  <2>6. PromptsAfter' /\ CandidateAfter'
    BY <2>1, <2>2, TaskKinds DEF PromptsAfter, CandidateAfter
  <2>7. history'.erased <= obs'
    BY <2>3 DEF TypeOK
  <2> QED
    BY <2>4, <2>5, <2>6, <2>7 DEF Erased
<1> QED
  BY <1>1, <1>2, <1>3, <1>4, RequestFrame

\* A run's prompt holds rows, and its memory holds its prompt.
LEMMA RunStepErased ==
    ASSUME TypeOK, Erased, NEW m \in Runs, RunStep(m) \/ RunComplete(m) \/ RunFails(m)
    PROVE  Erased'
<1>1. /\ UNCHANGED <<control, obs, loop, rows, history>>
      /\ \A t \in {Cap} \cup Requests : pc'[t] = pc[t]
  <2>1. UNCHANGED <<control, obs, loop, rows, history>>
    BY DEF RunStep, RunComplete, RunFails, RunRegister, RunAwaitSerial, RunAwaitGate, RunEnter,
       RunCancelled, RunPlan, RunGather, RunCommit, RunUnchanged
  <2> QED
    BY <2>1, OthersFrame
<1>2. RowsAfter' /\ CandidateAfter' /\ LoopAfter'
  BY <1>1 DEF Erased, RowsAfter, CandidateAfter, LoopAfter, After
<1>3. CASE RunRegister(m) \/ RunAwaitSerial(m) \/ RunAwaitGate(m) \/ RunEnter(m) \/ RunPlan(m)
  <2>1. \A n \in Runs : /\ pc'[n] \in {"llm", "commit"} => pc[n] \in {"llm", "commit"} /\ n # m
                        /\ n # m => run'[n] = run[n]
    BY <1>3, TaskKinds DEF RunRegister, RunAwaitSerial, RunAwaitGate, RunEnter, RunPlan, Goto,
       TypeOK, PCsTyped
  <2>2. PromptsAfter' /\ MemoryAfter'
    BY <1>1, <1>3, <2>1 DEF Erased, PromptsAfter, MemoryAfter, RunRegister, RunAwaitSerial,
       RunAwaitGate, RunEnter, RunPlan
  <2> QED
    BY <1>1, <1>2, <2>2 DEF Erased
<1>4. CASE RunCancelled(m) \/ RunFails(m) \/ RunCommit(m) \/ (RunGather(m) /\ RunLeave(m))
  <2>1. \A n \in Runs : /\ pc'[n] \in {"llm", "commit"} => pc[n] \in {"llm", "commit"} /\ n # m
                        /\ n # m => run'[n] = run[n]
    BY <1>4, TaskKinds DEF RunCancelled, RunFails, RunCommit, RunLeave, Goto, TypeOK, PCsTyped
  <2>2. PromptsAfter'
    BY <1>1, <2>1 DEF Erased, PromptsAfter
  <2>3. chronicle' = chronicle \/ (chronicle'.sources = run[m].prompt /\ pc[m] = "commit")
    BY <1>4 DEF RunCancelled, RunFails, RunCommit, RunGather
  <2>4. MemoryAfter'
    BY <1>1, <2>3 DEF Erased, MemoryAfter, PromptsAfter
  <2> QED
    BY <1>1, <1>2, <2>2, <2>4 DEF Erased
<1>5. CASE RunGather(m) /\ ~RunLeave(m)
  <2>1. /\ run'[m].prompt = {row.id : row \in rows}
        /\ \A n \in Runs : n # m => run'[n] = run[n] /\ pc'[n] = pc[n]
        /\ chronicle' = chronicle
    BY <1>5, TaskKinds DEF RunGather, Goto, TypeOK, PCsTyped
  <2>2. PromptsAfter' /\ MemoryAfter'
    BY <1>1, <2>1 DEF Erased, PromptsAfter, MemoryAfter, RowsAfter
  <2> QED
    BY <1>1, <1>2, <2>2 DEF Erased
<1>6. CASE RunComplete(m)
  <2>1. \A n \in Runs : pc'[n] \in {"llm", "commit"} => pc[n] \in {"llm", "commit"}
    BY <1>6, TaskKinds DEF RunComplete, Goto, TypeOK, PCsTyped
  <2>2. PromptsAfter' /\ MemoryAfter'
    BY <1>1, <1>6, <2>1 DEF Erased, PromptsAfter, MemoryAfter, RunComplete
  <2> QED
    BY <1>1, <1>2, <2>2 DEF Erased
<1> QED
  BY <1>3, <1>4, <1>5, <1>6 DEF RunStep

\* Nor does a step of the retention task.
LEMMA PrunerErased ==
    ASSUME TypeOK, Erased, PrunerBegin \/ PruneStep(Pruner)
    PROVE  Erased'
<1>1. /\ \A t \in {Cap} \cup Requests : pc'[t] = pc[t]
      /\ UNCHANGED <<control, obs, loop>>
      /\ rows' \subseteq rows /\ history'.erased = history.erased
  BY OthersFrame
<1>2. run' = run /\ chronicle' \in {chronicle, NoMemory}
  BY DEF PrunerBegin, PruneStep, PruneCommit, PruneFinish, PruneFails
<1>3. \A m \in Runs : pc'[m] = pc[m]
  BY TaskKinds DEF PrunerBegin, PruneStep, PruneCommit, PruneFinish, PruneFails, Finish, Goto,
     TypeOK, PCsTyped
<1>4. RowsAfter' /\ MemoryAfter' /\ PromptsAfter'
  BY <1>1, <1>2, <1>3 DEF Erased, RowsAfter, MemoryAfter, PromptsAfter, NoMemory
<1>5. CandidateAfter' /\ LoopAfter'
  BY <1>1 DEF Erased, CandidateAfter, LoopAfter, After
<1> QED
  BY <1>1, <1>4, <1>5 DEF Erased

\* What a committed delete-all removed stays removed: neither the text that
\* the capture loop still holds nor the prompt of a running summary brings
\* back anything observed before it.
THEOREM ErasureIsFinal == Spec => []ErasedStaysErased
<1>1. Init => Erased
  <2> SUFFICES ASSUME Init PROVE Erased
    OBVIOUS
  <2>1. history.erased = 0 /\ obs = 0 /\ loop.seen = 0 /\ control.continuity = 0
    BY DEF Init
  <2>2. Empty(loop) /\ After(loop)
    BY DEF Init, Empty, After
  <2>3. RowsAfter /\ MemoryAfter /\ PromptsAfter /\ CandidateAfter
    BY TaskKinds DEF Init, RowsAfter, MemoryAfter, PromptsAfter, CandidateAfter, NoMemory
  <2> QED
    BY <2>1, <2>2, <2>3 DEF Erased, LoopAfter
<1>2. TypeOK /\ LocksFollowCode /\ PauseQuiescent /\ Erased /\ [Next]_vars => Erased'
  <2> SUFFICES ASSUME TypeOK, LocksFollowCode, PauseQuiescent, Erased, [Next]_vars
               PROVE  Erased'
    OBVIOUS
  <2>1. CASE Next
    BY <2>1, CapStepErased, RequestErased, RunStepErased, PrunerErased DEF Next
  <2>2. CASE UNCHANGED vars
    BY <2>2 DEF vars, Erased, RowsAfter, MemoryAfter, PromptsAfter, CandidateAfter,
       LoopAfter, After
  <2> QED
    BY <2>1, <2>2
<1>3. Erased => ErasedStaysErased
  BY DEF Erased, RowsAfter, MemoryAfter, ErasedStaysErased
<1> QED
  BY <1>1, <1>2, <1>3, TypeCorrect, LocksFollowTheCode, PauseIsQuiescent, PTL DEF Spec

-----------------------------------------------------------------------------
(***************************************************************************)
(* Pauses.  What the loop may still extend, a pending span or a row it has *)
(* the id of, began after every pause that the loop has heard of; a pause  *)
(* it has not heard of shows in continuity.                                *)
(***************************************************************************)
AfterPauses(o) == \A p \in history.pauses : p < o
Unbroken(span) == \A p \in history.pauses : ~(span.first <= p /\ p < span.last)
Extensible(id) == \A row \in rows : row.id = id => AfterPauses(row.span.first)

\* Neither a pause nor a row, written or to be extended, is later than the last
\* observation.
WithinObs ==
    /\ \A p \in history.pauses : p <= obs
    /\ \A row \in rows : row.id <= obs /\ row.span.last <= obs
    /\ loop.active <= obs

RowsUnbroken == \A row \in rows : Unbroken(row.span)

\* l is a state of the capture loop, the present one or what an operator makes of it.
LoopUnbroken(l) ==
    /\ l.seen <= control.continuity
    /\ l.seen = control.continuity =>
         /\ l.pending # NoSpan => AfterPauses(l.pending.first)
         /\ l.active # 0 => Extensible(l.active)
         /\ control.paused => Empty(l)

CandidateUnbroken ==
    pc[Cap] \in {"persist", "stored"} =>
        /\ loop.candidate.id <= obs /\ loop.candidate.span.last <= obs
        /\ AfterPauses(loop.candidate.span.first)
        /\ Extensible(loop.candidate.id)

Continuous == WithinObs /\ RowsUnbroken /\ LoopUnbroken(loop) /\ CandidateUnbroken

\* What the operators on the loop make of it may still be extended.
LEMMA LoopStaysUnbroken ==
    ASSUME TypeOK, NEW l \in LoopStates, LoopUnbroken(l)
    PROVE  /\ LoopUnbroken(Cleared(l)) /\ Cleared(l).active = 0
           /\ LoopUnbroken(Continued(l)) /\ Continued(l).active \in {0, l.active}
           /\ LoopUnbroken(Refreshed(l)) /\ Refreshed(l).active \in {0, l.active}
<1>1. control.continuity \in Nat /\ l.seen \in Nat
  BY DEF TypeOK, ControlStates, LoopStates
<1>2. ASSUME NEW k, Empty(k), k.seen <= control.continuity
      PROVE  LoopUnbroken(k)
  BY <1>2 DEF Empty, LoopUnbroken
<1>3. /\ Cleared(l).active = 0
      /\ Continued(l).active \in {0, l.active}
      /\ Refreshed(l).active \in {0, l.active}
  BY DEF LoopStates, Cleared, Continued, Refreshed
<1>4. LoopUnbroken(Cleared(l))
  BY <1>2, LoopEffects DEF LoopUnbroken
<1>5. LoopUnbroken(Continued(l))
  BY <1>1, <1>2, LoopEffects
<1>6. LoopUnbroken(Refreshed(l))
  BY <1>2, LoopEffects DEF LoopUnbroken
<1> QED
  BY <1>3, <1>4, <1>5, <1>6

\* The loop changes alone.
LEMMA ContinuousMoved ==
    ASSUME TypeOK, Continuous, UNCHANGED <<control, history, rows>>, obs' \in {obs, obs + 1},
           loop'.active <= obs', LoopUnbroken(loop'), CandidateUnbroken'
    PROVE  Continuous'
<1>1. obs \in Nat /\ obs <= obs'
  BY BoundsKnown DEF TypeOK
<1>2. WithinObs'
  BY <1>1, BoundsKnown DEF Continuous, WithinObs, TypeOK, HistoryStates, Snapshots, Spans, Obs
<1>3. RowsUnbroken' /\ LoopUnbroken(loop)'
  BY DEF Continuous, RowsUnbroken, LoopUnbroken, Unbroken, Extensible, AfterPauses
<1> QED
  BY <1>2, <1>3 DEF Continuous

\* A new observation, and what it merges with, follows every pause.
LEMMA ObservedUnbroken ==
    ASSUME TypeOK, Continuous, NEW l \in LoopStates, LoopUnbroken(l),
           l.seen = control.continuity, l.active \in {0, loop.active}, ~control.paused,
           NEW app, NEW near, NEW now \in Obs, now = obs + 1
    PROVE  LET o == Observed(l, app, near, now)
           IN  /\ LoopUnbroken(o) /\ o.active <= now
               /\ o.candidate.id <= now /\ o.candidate.span.last <= now
               /\ AfterPauses(o.candidate.span.first)
               /\ Extensible(o.candidate.id)
<1> DEFINE merged == Merges(l, app, near)
           span == [app |-> app, first |-> IF merged THEN l.pending.first ELSE now, last |-> now]
           id == IF merged /\ l.active # 0 THEN l.active ELSE now
<1>0. obs \in Nat /\ loop.active \in Nat /\ loop.active <= obs
  BY DEF TypeOK, LoopStates, Obs, Continuous, WithinObs
<1>1. AfterPauses(now)
  BY <1>0 DEF Continuous, WithinObs, AfterPauses, TypeOK, HistoryStates
<1>2. merged => l.pending # NoSpan
  BY DEF Merges
<1>3. AfterPauses(span.first) /\ span.last = now
  BY <1>1, <1>2 DEF LoopUnbroken
<1>4. Extensible(now)
  BY <1>0 DEF Continuous, WithinObs, Extensible, TypeOK, Snapshots
<1>5. Extensible(id) /\ id <= now
  BY <1>0, <1>4 DEF LoopUnbroken
<1> HIDE DEF merged, span, id
<1>6. Observed(l, app, near, now) =
        [l EXCEPT !.pending = span, !.active = IF merged THEN 0 ELSE @,
                  !.candidate = [id |-> id, span |-> span]]
  BY DEF Observed, merged, span, id
<1>7. /\ Observed(l, app, near, now).pending = span
      /\ Observed(l, app, near, now).active = IF merged THEN 0 ELSE l.active
      /\ Observed(l, app, near, now).candidate = [id |-> id, span |-> span]
      /\ Observed(l, app, near, now).seen = l.seen
  BY <1>6 DEF LoopStates
<1>8. LoopUnbroken(Observed(l, app, near, now))
  BY <1>3, <1>7 DEF LoopUnbroken
<1> QED
  BY <1>0, <1>3, <1>5, <1>7, <1>8

\* Writing a candidate that follows every pause breaks no row.
LEMMA RecordedUnbroken ==
    ASSUME TypeOK, Continuous, NEW c \in Snapshots, c.id <= obs, c.span.last <= obs,
           AfterPauses(c.span.first), Extensible(c.id), NEW row \in Recorded(c)
    PROVE  /\ row.id <= obs /\ row.span.last <= obs
           /\ Unbroken(row.span)
           /\ row.id = c.id => AfterPauses(row.span.first)
           /\ row.id # c.id => row \in rows
<1>0. /\ obs \in Nat /\ rows \subseteq Snapshots
      /\ \A s \in Snapshots : s.span.first \in Nat /\ s.span.last \in Nat /\ s.id \in Nat
      /\ history.pauses \subseteq Nat
  BY DEF TypeOK, Snapshots, Spans, Obs, HistoryStates
<1>1. CASE row \in rows /\ row.id # c.id
  BY <1>1 DEF Continuous, WithinObs, RowsUnbroken
<1>2. CASE \E old \in rows : old.id = c.id /\ row = Extended(old, c)
  <2>1. PICK old \in rows : old.id = c.id /\ row = Extended(old, c)
    BY <1>2
  <2>2. /\ row.id = c.id
        /\ row.span.first \in {old.span.first, c.span.first}
        /\ row.span.last \in {old.span.last, c.span.last}
    BY <2>1 DEF Extended
  <2>3. AfterPauses(row.span.first)
    BY <2>1, <2>2 DEF Extensible
  <2>4. row.span.last <= obs
    BY <2>1, <2>2 DEF Continuous, WithinObs
  <2>5. row.span.first \in Nat
    BY <1>0, <2>1, <2>2
  <2>6. Unbroken(row.span)
    BY <1>0, <2>3, <2>5 DEF Unbroken, AfterPauses
  <2> QED
    BY <2>2, <2>3, <2>4, <2>6
<1>3. CASE row = c
  <2>1. Unbroken(c.span)
    BY <1>0 DEF Unbroken, AfterPauses
  <2> QED
    BY <1>3, <2>1
<1> QED
  BY <1>1, <1>2, <1>3 DEF Recorded

\* The capture task extends nothing across a pause.
LEMMA CapStepContinuous ==
    ASSUME TypeOK, PauseQuiescent, Continuous, CapStep
    PROVE  Continuous'
<1>0. /\ Cap \in Tasks /\ loop \in LoopStates /\ LoopUnbroken(loop) /\ obs \in Nat
      /\ loop.active <= obs /\ loop.active \in Nat
      /\ control' = control /\ history' = history
  BY TaskKinds, CapStepFrame DEF TypeOK, LoopStates, Obs, Continuous, WithinObs
<1>1. CASE CapIdle
  <2>1. Continued(loop) \in LoopStates /\ LoopUnbroken(Continued(loop))
    BY <1>0, LoopClosed, LoopStaysUnbroken DEF TypeOK
  <2>2. LoopUnbroken(loop') /\ loop'.active = 0
    BY <1>1, <2>1, LoopStaysUnbroken DEF CapIdle
  <2>3. CandidateUnbroken'
    BY <1>1 DEF CapIdle, CandidateUnbroken
  <2> QED
    BY <1>0, <1>1, <2>2, <2>3, ContinuousMoved DEF CapIdle
<1>2. CASE CapAskLease
  <2>1. LoopUnbroken(loop') /\ loop'.active \in {0, loop.active}
    BY <1>0, <1>2, LoopStaysUnbroken DEF CapAskLease
  <2>2. CandidateUnbroken'
    BY <1>0, <1>2 DEF CapAskLease, Goto, CandidateUnbroken, TypeOK, PCsTyped
  <2> QED
    BY <1>0, <1>2, <2>1, <2>2, ContinuousMoved DEF CapAskLease
<1>3. CASE CapLeasePaused
  <2>1. LoopUnbroken(loop') /\ loop'.active = 0
    BY <1>0, <1>3, LoopStaysUnbroken DEF CapLeasePaused
  <2>2. CandidateUnbroken'
    BY <1>0, <1>3 DEF CapLeasePaused, Goto, CandidateUnbroken, TypeOK, PCsTyped
  <2> QED
    BY <1>0, <1>3, <2>1, <2>2, ContinuousMoved DEF CapLeasePaused
<1>4. CASE CapBeginRead
  <2>1. /\ Refreshed(loop) \in LoopStates /\ LoopUnbroken(Refreshed(loop))
        /\ Refreshed(loop).active \in {0, loop.active}
    BY <1>0, LoopClosed, LoopStaysUnbroken DEF TypeOK
  <2>2. /\ loop'.seen = Refreshed(loop).seen /\ loop'.pending = Refreshed(loop).pending
        /\ loop'.active = Refreshed(loop).active
    BY <1>4, <2>1 DEF CapBeginRead, LoopStates
  <2>3. LoopUnbroken(loop')
    BY <2>1, <2>2 DEF LoopUnbroken, Empty
  <2>4. CandidateUnbroken'
    BY <1>0, <1>4 DEF CapBeginRead, Goto, CandidateUnbroken, TypeOK, PCsTyped
  <2> QED
    BY <1>0, <1>4, <2>1, <2>2, <2>3, <2>4, ContinuousMoved DEF CapBeginRead
<1>5. CASE CapSkip
  <2>1. Continued(loop) \in LoopStates /\ LoopUnbroken(Continued(loop))
    BY <1>0, LoopClosed, LoopStaysUnbroken DEF TypeOK
  <2>2. LoopUnbroken(loop') /\ loop'.active = 0
    BY <1>5, <2>1, LoopStaysUnbroken DEF CapSkip
  <2>3. CandidateUnbroken'
    BY <1>0, <1>5 DEF CapSkip, Goto, CandidateUnbroken, TypeOK, PCsTyped
  <2> QED
    BY <1>0, <1>5, <2>2, <2>3, ContinuousMoved DEF CapSkip
<1>6. ASSUME NEW app \in Apps, NEW near \in BOOLEAN, CapObserve(app, near)
      PROVE  Continuous'
  <2>1. /\ Continued(loop) \in LoopStates /\ Continued(loop).seen = control.continuity
        /\ LoopUnbroken(Continued(loop)) /\ Continued(loop).active \in {0, loop.active}
    BY <1>0, LoopClosed, LoopEffects, LoopStaysUnbroken DEF TypeOK
  <2>2. obs + 1 \in Obs /\ ~control.paused
    BY <1>0, <1>6, BoundsKnown DEF CapObserve, Obs
  <2>3. loop' = Observed(Continued(loop), app, near, obs + 1) /\ obs' = obs + 1 /\ rows' = rows
    BY <1>6 DEF CapObserve
  <2>4. /\ LoopUnbroken(loop') /\ loop'.active <= obs + 1
        /\ loop'.candidate.id <= obs + 1 /\ loop'.candidate.span.last <= obs + 1
        /\ AfterPauses(loop'.candidate.span.first)
        /\ Extensible(loop'.candidate.id)
    BY <2>1, <2>2, <2>3, ObservedUnbroken
  <2>5. CandidateUnbroken'
    BY <1>0, <2>3, <2>4 DEF CandidateUnbroken, AfterPauses, Extensible
  <2> QED
    BY <1>0, <2>3, <2>4, <2>5, ContinuousMoved
<1>7. CASE CapPersist
  <2>1. loop' = loop /\ obs' = obs /\ (rows' = rows \/ rows' = Recorded(loop.candidate))
    BY <1>7 DEF CapPersist
  <2>2. /\ loop.candidate \in Snapshots
        /\ loop.candidate.id <= obs /\ loop.candidate.span.last <= obs
        /\ AfterPauses(loop.candidate.span.first) /\ Extensible(loop.candidate.id)
    BY <1>7 DEF CapPersist, TypeOK, CandidateKnown, Continuous, CandidateUnbroken
  <2>3. \A row \in rows' :
           /\ row.id <= obs /\ row.span.last <= obs
           /\ Unbroken(row.span)
           /\ row.id = loop.candidate.id => AfterPauses(row.span.first)
           /\ row.id # loop.candidate.id => row \in rows
    BY <2>1, <2>2, RecordedUnbroken DEF Continuous, WithinObs, RowsUnbroken, Extensible
  <2>4. ASSUME NEW id, Extensible(id)
        PROVE  Extensible(id)'
    BY <1>0, <2>3, <2>4 DEF Extensible, AfterPauses
  <2>5. WithinObs' /\ RowsUnbroken'
    BY <1>0, <2>1, <2>3 DEF Continuous, WithinObs, RowsUnbroken, Unbroken
  <2>6. LoopUnbroken(loop)'
    BY <1>0, <2>1, <2>4 DEF LoopUnbroken, AfterPauses
  <2>7. CandidateUnbroken'
    BY <1>0, <2>1, <2>2, <2>4 DEF CandidateUnbroken, AfterPauses
  <2> QED
    BY <2>5, <2>6, <2>7 DEF Continuous
<1>8. CASE CapEnd
  <2>1. ~control.paused
    BY <1>8 DEF CapEnd, PauseQuiescent, CaptureInFlight
  <2>2. LoopUnbroken(loop') /\ loop'.active <= obs
    <3>1. CASE pc[Cap] = "stored"
      <4>1. /\ loop'.seen = loop.seen /\ loop'.pending = loop.pending
            /\ loop'.active = loop.candidate.id
        BY <1>0, <1>8, <3>1 DEF CapEnd, LoopStates
      <4>2. loop.candidate.id <= obs /\ Extensible(loop.candidate.id)
        BY <3>1 DEF Continuous, CandidateUnbroken
      <4> QED
        BY <1>0, <2>1, <4>1, <4>2 DEF LoopUnbroken
    <3>2. CASE pc[Cap] = "lost"
      <4>1. loop'.seen = loop.seen /\ loop'.pending = NoSpan /\ loop'.active = 0
        BY <1>0, <1>8, <3>2 DEF CapEnd, LoopStates, Cleared
      <4> QED
        BY <1>0, <2>1, <4>1 DEF LoopUnbroken
    <3> QED
      BY <1>8, <3>1, <3>2 DEF CapEnd
  <2>3. CandidateUnbroken'
    BY <1>0, <1>8 DEF CapEnd, Goto, CandidateUnbroken, TypeOK, PCsTyped
  <2> QED
    BY <1>0, <1>8, <2>2, <2>3, ContinuousMoved DEF CapEnd
<1> QED
  BY <1>1, <1>2, <1>3, <1>4, <1>5, <1>6, <1>7, <1>8 DEF CapStep

\* Nothing is read, no pause begins, and rows are at most removed.
LEMMA ContinuousKept ==
    ASSUME Continuous, UNCHANGED <<obs, loop>>, pc'[Cap] = pc[Cap], rows' \subseteq rows,
           history'.pauses = history.pauses, control'.continuity = control.continuity,
           control'.paused => control.paused
    PROVE  Continuous'
<1>1. \A id : Extensible(id) => Extensible(id)'
  BY DEF Extensible, AfterPauses
<1>2. WithinObs' /\ RowsUnbroken'
  BY DEF Continuous, WithinObs, RowsUnbroken, Unbroken
<1>3. LoopUnbroken(loop)'
  BY <1>1 DEF Continuous, LoopUnbroken, AfterPauses, Empty
<1>4. CandidateUnbroken'
  BY <1>1 DEF Continuous, CandidateUnbroken, AfterPauses
<1> QED
  BY <1>2, <1>3, <1>4 DEF Continuous

\* A pause begins while no screen is being read, after everything observed,
\* and leaves the loop behind.
LEMMA PauseContinuous ==
    ASSUME TypeOK, Continuous, ~CaptureInFlight, NEW w, PauseNow(w), pc'[Cap] = pc[Cap],
           UNCHANGED <<obs, loop, rows>>
    PROVE  Continuous'
<1>0. /\ control \in ControlStates /\ history \in HistoryStates
      /\ control.continuity \in Nat /\ loop.seen \in Nat /\ obs \in Nat
  BY DEF TypeOK, ControlStates, LoopStates
<1>1. CASE control.paused
  <2>1. control'.continuity = control.continuity
    BY <1>1, PauseEffect
  <2>2. history'.pauses = history.pauses
    BY <1>0, <1>1 DEF PauseNow, HistoryStates
  <2> QED
    BY <1>1, <2>1, <2>2, ContinuousKept
<1>2. CASE ~control.paused
  <2>1. control'.continuity = control.continuity + 1
    BY <1>2, PauseEffect
  <2>2. history'.pauses = history.pauses \cup {obs}
    BY <1>0, <1>2 DEF PauseNow, HistoryStates
  <2>3. \A row \in rows : row.span.last \in Nat /\ row.span.last <= obs
    BY DEF Continuous, WithinObs, TypeOK, Snapshots, Spans, Obs
  <2>4. WithinObs' /\ RowsUnbroken'
    BY <1>0, <2>2, <2>3 DEF Continuous, WithinObs, RowsUnbroken, Unbroken
  <2>5. LoopUnbroken(loop)'
    BY <1>0, <2>1 DEF Continuous, LoopUnbroken
  <2>6. CandidateUnbroken'
    BY DEF CandidateUnbroken, CaptureInFlight
  <2> QED
    BY <2>4, <2>5, <2>6 DEF Continuous
<1> QED
  BY <1>1, <1>2

\* Only a pause is remembered as one, and only a pruning as one.
LEMMA RequestHistory ==
    ASSUME TypeOK, NEW r \in Requests, Requested(r) \/ Serve(r) \/ Disconnect(r)
    PROVE  /\ history'.pauses = history.pauses \/ PauseTake(r) \/ DeletePause(r)
           /\ history'.expired = history.expired \/ PruneCommit(r)
<1>0. history \in HistoryStates
  BY DEF TypeOK
<1>1. CASE Requested(r) \/ Disconnect(r)
  BY <1>0, <1>1 DEF Requested, Arrive, Resume, HistoryStates, Disconnect
<1>2. CASE PruneStep(r)
  BY <1>0, <1>2 DEF PruneStep, PruneCommit, PruneFinish, PruneFails, HistoryStates
<1>3. CASE PauseTake(r) \/ DeletePause(r) \/ DeleteCommit(r)
  BY <1>0, <1>3 DEF DeleteCommit, PauseTake, DeletePause, PauseNow, HistoryStates
<1>4. CASE Serve(r) /\ ~PruneStep(r) /\ ~(PauseTake(r) \/ DeletePause(r) \/ DeleteCommit(r))
  BY <1>4 DEF Serve, PauseAnswer, BlacklistConfig, BlacklistBarrier, BlacklistStart,
     BlacklistSave, InlineStart, InlineAnswer, RetentionBarrier, RetentionStart,
     RetentionSave, DeleteSerial, DeleteFlag, DeleteQuiesce, DeleteBarrier, DeleteObserve,
     DeleteFails, DeleteFinish, DeleteResume, DeleteReset, DeleteRelease, GrantedThenAwait
<1> QED
  BY <1>1, <1>2, <1>3, <1>4

\* So it is for the other tasks.
LEMMA OthersHistory ==
    ASSUME TypeOK,
           \/ PrunerBegin \/ PruneStep(Pruner)
           \/ \E m \in Runs : RunStep(m) \/ RunComplete(m) \/ RunFails(m)
    PROVE  /\ history'.pauses = history.pauses
           /\ history'.expired = history.expired \/ PruneCommit(Pruner)
<1>0. history \in HistoryStates
  BY DEF TypeOK
<1> QED
  BY <1>0 DEF HistoryStates, PrunerBegin, PruneStep, PruneCommit, PruneFinish, PruneFails,
     RunStep, RunComplete, RunFails, RunRegister, RunAwaitSerial, RunAwaitGate, RunEnter,
     RunCancelled, RunPlan, RunGather, RunCommit, RunUnchanged

\* No step of a handler does.
LEMMA RequestContinuous ==
    ASSUME TypeOK, LocksFollowCode, Continuous, NEW r \in Requests,
           Requested(r) \/ Serve(r) \/ Disconnect(r)
    PROVE  Continuous'
<1>0. control \in ControlStates /\ Cap \in Tasks /\ r # Cap
  BY TaskKinds DEF TypeOK
<1>1. CASE PauseTake(r) \/ DeletePause(r)
  <2>1. ~CaptureInFlight
    BY <1>1, LeaseIsExclusive DEF PauseTake, DeletePause, Leased
  <2>2. pc'[Cap] = pc[Cap]
    BY <1>0, <1>1 DEF PauseTake, DeletePause, Goto, TypeOK, PCsTyped
  <2>3. PICK w : PauseNow(w)
    BY <1>1 DEF PauseTake, DeletePause
  <2> QED
    BY <1>1, <2>1, <2>2, <2>3, PauseContinuous DEF PauseTake, DeletePause
<1>2. CASE BlacklistSave(r)
  <2>1. control'.continuity = control.continuity /\ control'.paused = control.paused
    BY <1>0, <1>2 DEF BlacklistSave, ControlStates
  <2>2. pc'[Cap] = pc[Cap]
    BY <1>0, <1>2, MoveFrame DEF BlacklistSave, Answer
  <2> QED
    BY <1>2, <2>1, <2>2, ContinuousKept DEF BlacklistSave
<1>3. CASE DeleteCommit(r)
  <2>1. pc'[Cap] = pc[Cap]
    BY <1>0, <1>3 DEF DeleteCommit, Goto, TypeOK, PCsTyped
  <2>2. history'.pauses = history.pauses
    BY <1>3 DEF DeleteCommit, TypeOK, HistoryStates
  <2> QED
    BY <1>3, <2>1, <2>2, ContinuousKept DEF DeleteCommit
<1>4. CASE Quiet(r) /\ ~(PauseTake(r) \/ DeletePause(r))
  <2>1. history'.pauses = history.pauses
    BY <1>4, RequestHistory
  <2> QED
    BY <1>0, <1>4, <2>1, ContinuousKept DEF Quiet
<1> QED
  BY <1>1, <1>2, <1>3, <1>4, RequestFrame

\* No snapshot's observed duration spans a pause: neither the span that the
\* loop still holds nor the row that it has the id of is carried over one,
\* however short the pause and wherever the loop is when it begins.
THEOREM SpansKeepToOneSession == Spec => []NoSpanAcrossPause
<1>1. Init => Continuous
  <2> SUFFICES ASSUME Init PROVE Continuous
    OBVIOUS
  <2>1. /\ history.pauses = {} /\ rows = {} /\ obs = 0 /\ Empty(loop) /\ pc[Cap] = "top"
        /\ loop.seen = 0 /\ control.continuity = 0
    BY TaskKinds DEF Init, Empty
  <2> QED
    BY <2>1 DEF Continuous, WithinObs, RowsUnbroken, LoopUnbroken, CandidateUnbroken, Empty
<1>2. TypeOK /\ LocksFollowCode /\ PauseQuiescent /\ Continuous /\ [Next]_vars => Continuous'
  <2> SUFFICES ASSUME TypeOK, LocksFollowCode, PauseQuiescent, Continuous, [Next]_vars
               PROVE  Continuous'
    OBVIOUS
  <2>1. CASE CapStep
    BY <2>1, CapStepContinuous
  <2>2. CASE \/ PrunerBegin \/ PruneStep(Pruner)
             \/ \E m \in Runs : RunStep(m) \/ RunComplete(m) \/ RunFails(m)
    BY <2>2, OthersFrame, OthersHistory, ContinuousKept
  <2>3. ASSUME NEW r \in Requests, Requested(r) \/ Serve(r) \/ Disconnect(r)
        PROVE  Continuous'
    BY <2>3, RequestContinuous
  <2>4. CASE UNCHANGED vars
    BY <2>4, ContinuousKept DEF vars
  <2> QED
    BY <2>1, <2>2, <2>3, <2>4 DEF Next
<1>3. Continuous => NoSpanAcrossPause
  BY DEF Continuous, RowsUnbroken, Unbroken, NoSpanAcrossPause
<1> QED
  BY <1>1, <1>2, <1>3, TypeCorrect, LocksFollowTheCode, PauseIsQuiescent, PTL DEF Spec

-----------------------------------------------------------------------------
(***************************************************************************)
(* Retention.  A cutoff is older than the last observation, and the row    *)
(* that the loop may still extend reaches it.                              *)
(***************************************************************************)
OneRowPerId == \A row, other \in rows : row.id = other.id => row = other
CutoffsPast == \A t \in {Pruner} \cup Requests : cutoff[t] = 0 \/ cutoff[t] < obs
Reaches(id, o) == \A row \in rows : row.id = id => row.span.last >= o

ExpiredAreOld ==
    /\ \A id \in history.expired : id <= obs
    /\ \A row \in rows : row.id <= obs /\ row.id \notin history.expired

\* A row that the next write may extend did not expire and reaches o.
Fresh(id, o) == id <= obs /\ id \notin history.expired /\ Reaches(id, o)

CandidateIsFresh ==
    /\ pc[Cap] = "persist" =>
         /\ Fresh(loop.candidate.id, obs - 1)
         /\ loop.candidate.span.last = obs
    /\ pc[Cap] = "stored" => Fresh(loop.candidate.id, obs)

ActiveIsFresh ==
    pc[Cap] \in {"top", "lease", "read"} /\ loop.active # 0 => Fresh(loop.active, obs)

Retained == OneRowPerId /\ CutoffsPast /\ ExpiredAreOld /\ CandidateIsFresh /\ ActiveIsFresh

\* Only the loop changes, and it holds on to no other row.
LEMMA RetainedMoved ==
    ASSUME TypeOK, Retained, UNCHANGED <<history, rows, cutoff, obs>>,
           pc'[Cap] \in {"top", "lease", "read"},
           \/ loop'.active = 0
           \/ loop'.active = loop.active /\ pc[Cap] \in {"top", "lease", "read"}
    PROVE  Retained'
<1>1. OneRowPerId' /\ CutoffsPast' /\ ExpiredAreOld'
  BY DEF Retained, OneRowPerId, CutoffsPast, ExpiredAreOld
<1>2. \A id : Fresh(id, obs) => Fresh(id, obs)'
  BY DEF Fresh, Reaches
<1>3. ActiveIsFresh'
  BY <1>2 DEF Retained, ActiveIsFresh
<1>4. CandidateIsFresh'
  BY DEF CandidateIsFresh
<1> QED
  BY <1>1, <1>3, <1>4 DEF Retained

\* What is written reaches the last observation and takes no removed id.
LEMMA RecordedRetained ==
    ASSUME TypeOK, Retained, NEW c \in Snapshots, Fresh(c.id, obs - 1), c.span.last = obs
    PROVE  /\ \A row, other \in Recorded(c) : row.id = other.id => row = other
           /\ \A row \in Recorded(c) :
                /\ row.id <= obs /\ row.id \notin history.expired
                /\ row.id = c.id => row.span.last >= obs
                /\ row.id # c.id => row \in rows
<1>0. /\ obs \in Nat /\ rows \subseteq Snapshots
      /\ \A s \in Snapshots : s.span.last \in Nat
  BY DEF TypeOK, Snapshots, Spans, Obs
<1> DEFINE old == {row \in rows : row.id = c.id}
<1>1. \A row \in Recorded(c) :
         \/ row \in rows /\ row.id # c.id
         \/ row = c /\ old = {}
         \/ \E o \in old : row = Extended(o, c)
  BY DEF Recorded
<1>2. \A row, other \in old : row = other
  BY DEF Retained, OneRowPerId
<1>3. \A o \in old : /\ Extended(o, c).id = c.id
                     /\ Extended(o, c).span.last >= obs
  BY <1>0 DEF Extended
<1>4. \A row \in Recorded(c) :
         /\ row.id <= obs /\ row.id \notin history.expired
         /\ row.id = c.id => row.span.last >= obs
         /\ row.id # c.id => row \in rows
  BY <1>0, <1>1, <1>3 DEF Fresh, Retained, ExpiredAreOld
<1>5. ASSUME NEW row \in Recorded(c), NEW other \in Recorded(c), row.id = other.id
      PROVE  row = other
  <2>1. CASE row.id = c.id
    BY <1>1, <1>2, <1>3, <1>5, <2>1
  <2>2. CASE row.id # c.id
    BY <1>4, <1>5, <2>2 DEF Retained, OneRowPerId
  <2> QED
    BY <2>1, <2>2
<1> QED
  BY <1>4, <1>5

\* The capture task brings back no row that retention removed.
LEMMA CapStepRetained ==
    ASSUME TypeOK, Retained, CapStep
    PROVE  Retained'
<1>0. /\ Cap \in Tasks /\ loop \in LoopStates /\ obs \in Nat
      /\ history' = history /\ cutoff' = cutoff
  BY TaskKinds, CapStepFrame DEF TypeOK
<1>1. /\ \A l \in LoopStates : Cleared(l).active = 0
      /\ Continued(loop) \in LoopStates /\ Continued(loop).active \in {0, loop.active}
      /\ Refreshed(loop) \in LoopStates /\ Refreshed(loop).active \in {0, loop.active}
  BY <1>0, LoopClosed DEF TypeOK, LoopStates, Cleared, Continued, Refreshed
<1>2. CASE CapIdle
  BY <1>0, <1>1, <1>2, RetainedMoved DEF CapIdle
<1>3. CASE CapAskLease
  BY <1>0, <1>1, <1>3, CapGoto, RetainedMoved DEF CapAskLease, TypeOK, CapPCs
<1>4. CASE CapLeasePaused
  BY <1>0, <1>1, <1>4, CapGoto, RetainedMoved DEF CapLeasePaused, TypeOK, CapPCs
<1>5. CASE CapBeginRead
  <2>1. loop'.active = Refreshed(loop).active
    BY <1>1, <1>5 DEF CapBeginRead, LoopStates
  <2> QED
    BY <1>0, <1>1, <1>5, <2>1, CapGoto, RetainedMoved DEF CapBeginRead, TypeOK, CapPCs
<1>6. CASE CapSkip
  BY <1>0, <1>1, <1>6, CapGoto, RetainedMoved DEF CapSkip, TypeOK, CapPCs
<1>7. ASSUME NEW app \in Apps, NEW near \in BOOLEAN, CapObserve(app, near)
      PROVE  Retained'
  <2>1. /\ loop' = Observed(Continued(loop), app, near, obs + 1) /\ obs' = obs + 1
        /\ rows' = rows /\ pc'[Cap] = "persist" /\ pc[Cap] = "read"
    BY <1>0, <1>7 DEF CapObserve, Goto, TypeOK, PCsTyped
  <2>2. /\ loop'.candidate.id \in {loop.active, obs + 1} \ {0}
        /\ loop'.candidate.span.last = obs + 1
    <3>1. Continued(loop).active \in Nat
      BY <1>1 DEF LoopStates, Obs
    <3> QED
      BY <1>0, <1>1, <2>1, <3>1 DEF Observed, LoopStates
  <2>3. ASSUME NEW id \in Nat, Fresh(id, obs)
        PROVE  Fresh(id, obs - 1)'
    BY <1>0, <2>1, <2>3 DEF Fresh, Reaches, TypeOK, Snapshots, Spans, Obs
  <2>4. Fresh(obs, obs - 1)'
    BY <1>0, <2>1 DEF Retained, ExpiredAreOld, Fresh, Reaches, TypeOK, HistoryStates,
       Snapshots, Obs
  <2>5. CandidateIsFresh'
    BY <1>0, <2>1, <2>2, <2>3, <2>4 DEF Retained, ActiveIsFresh, CandidateIsFresh, LoopStates, Obs
  <2>6. CutoffsPast'
    BY <1>0, <2>1 DEF Retained, CutoffsPast, TypeOK
  <2>7. OneRowPerId' /\ ExpiredAreOld' /\ ActiveIsFresh'
    BY <1>0, <2>1 DEF Retained, OneRowPerId, ExpiredAreOld, ActiveIsFresh, TypeOK,
       HistoryStates, Snapshots, Obs
  <2> QED
    BY <2>5, <2>6, <2>7 DEF Retained
<1>8. CASE CapPersist
  <2>1. /\ loop' = loop /\ obs' = obs /\ (rows' = rows \/ rows' = Recorded(loop.candidate))
        /\ pc'[Cap] \in {"stored", "lost"} /\ (rows' = rows => Goto(Cap, "lost") \/ rows = Recorded(loop.candidate))
    BY <1>0, <1>8 DEF CapPersist, Goto, TypeOK, PCsTyped
  <2>2. /\ loop.candidate \in Snapshots /\ loop.candidate.span.last = obs
        /\ Fresh(loop.candidate.id, obs - 1)
    BY <1>8 DEF CapPersist, TypeOK, CandidateKnown, Retained, CandidateIsFresh
  <2>3. CASE rows' = Recorded(loop.candidate)
    <3>1. OneRowPerId' /\ ExpiredAreOld' /\ Fresh(loop.candidate.id, obs)'
      BY <1>0, <2>1, <2>2, <2>3, RecordedRetained DEF OneRowPerId, ExpiredAreOld, Retained,
         Fresh, Reaches
    <3> QED
      BY <1>0, <2>1, <3>1 DEF Retained, CutoffsPast, CandidateIsFresh, ActiveIsFresh
  <2>4. CASE rows' = rows /\ Goto(Cap, "lost")
    <3>1. pc'[Cap] = "lost"
      BY <1>0, <2>4 DEF Goto, TypeOK, PCsTyped
    <3> QED
      BY <1>0, <2>1, <2>4, <3>1 DEF Retained, OneRowPerId, ExpiredAreOld, CutoffsPast,
         CandidateIsFresh, ActiveIsFresh
  <2> QED
    BY <2>1, <2>3, <2>4
<1>9. CASE CapEnd
  <2>1. pc'[Cap] = "top" /\ UNCHANGED <<rows, obs>>
    BY <1>0, <1>9 DEF CapEnd, Goto, TypeOK, PCsTyped
  <2>2. CASE pc[Cap] = "stored"
    <3>1. loop'.active = loop.candidate.id
      BY <1>0, <1>9, <2>2 DEF CapEnd, LoopStates
    <3>2. ActiveIsFresh'
      BY <1>0, <2>1, <2>2, <3>1 DEF Retained, CandidateIsFresh, ActiveIsFresh, Fresh, Reaches
    <3> QED
      BY <1>0, <2>1, <3>2 DEF Retained, OneRowPerId, ExpiredAreOld, CutoffsPast,
         CandidateIsFresh
  <2>3. CASE pc[Cap] = "lost"
    <3>1. loop'.active = 0
      BY <1>0, <1>9, <2>3 DEF CapEnd, LoopStates, Cleared
    <3> QED
      BY <1>0, <2>1, <3>1, RetainedMoved
  <2> QED
    BY <1>9, <2>2, <2>3 DEF CapEnd
<1> QED
  BY <1>2, <1>3, <1>4, <1>5, <1>6, <1>7, <1>8, <1>9 DEF CapStep

\* What every handler leaves alone.
LEMMA HandlerFrame ==
    ASSUME TypeOK, NEW r \in Requests, Requested(r) \/ Serve(r) \/ Disconnect(r)
    PROVE  UNCHANGED <<obs, loop, run>> /\ rows' \subseteq rows /\ pc'[Cap] = pc[Cap]
<1>0. Cap \in Tasks /\ Cap # r
  BY TaskKinds
<1>1. CASE PauseTake(r) \/ DeletePause(r) \/ DeleteCommit(r)
  BY <1>0, <1>1 DEF PauseTake, DeletePause, DeleteCommit, Goto, TypeOK, PCsTyped
<1>2. CASE BlacklistSave(r)
  BY <1>0, <1>2, MoveFrame DEF BlacklistSave, Answer
<1>3. CASE Quiet(r)
  BY <1>0, <1>3 DEF Quiet
<1> QED
  BY <1>1, <1>2, <1>3, RequestFrame

\* Nothing is read and nothing expires.
LEMMA RetainedKept ==
    ASSUME Retained, UNCHANGED <<obs, loop>>, pc'[Cap] = pc[Cap], rows' \subseteq rows,
           history'.expired = history.expired, CutoffsPast'
    PROVE  Retained'
<1>1. \A id, o : Fresh(id, o) => Fresh(id, o)'
  BY DEF Fresh, Reaches
<1>2. CandidateIsFresh'
  BY <1>1 DEF Retained, CandidateIsFresh
<1>3. ActiveIsFresh'
  BY <1>1 DEF Retained, ActiveIsFresh
<1> QED
  BY <1>2, <1>3 DEF Retained, OneRowPerId, ExpiredAreOld

\* A pruning removes only rows that nothing will extend.
LEMMA PruneCommitRetained ==
    ASSUME TypeOK, Retained, NEW t \in {Pruner} \cup Requests, PruneCommit(t)
    PROVE  Retained'
<1> DEFINE expired == Expired(cutoff[t])
<1>0. /\ obs \in Nat /\ cutoff[t] \in Nat /\ rows \subseteq Snapshots
      /\ history \in HistoryStates
      /\ \A s \in Snapshots : s.span.last \in Nat /\ s.id \in Nat
  BY DEF TypeOK, Snapshots, Spans, Obs
<1>1. /\ UNCHANGED <<obs, loop, cutoff>> /\ rows' = rows \ expired
      /\ history'.expired = history.expired \cup {row.id : row \in expired}
  BY <1>0 DEF PruneCommit, HistoryStates
<1>2. pc'[Cap] = pc[Cap]
  BY TaskKinds DEF PruneCommit, Finish, Goto, TypeOK, PCsTyped
<1>3. \A row \in expired : row \in rows /\ row.span.last + 1 < obs
  BY <1>0 DEF Expired, Retained, CutoffsPast
<1>4. ASSUME NEW id, NEW o \in {obs, obs - 1}, Fresh(id, o)
      PROVE  Fresh(id, o)'
  BY <1>0, <1>1, <1>3, <1>4 DEF Fresh, Reaches
<1>5. CandidateIsFresh'
  BY <1>1, <1>2, <1>4 DEF Retained, CandidateIsFresh, Fresh, Reaches
<1>6. ActiveIsFresh'
  BY <1>1, <1>2, <1>4 DEF Retained, ActiveIsFresh, Fresh, Reaches
<1>7. ExpiredAreOld'
  BY <1>0, <1>1, <1>3 DEF Retained, ExpiredAreOld, OneRowPerId
<1> QED
  BY <1>1, <1>5, <1>6, <1>7 DEF Retained, OneRowPerId, CutoffsPast

\* A cutoff keeps at least the last observation.
LEMMA CutoffIsPast ==
    ASSUME obs \in Nat, NEW p \in Policies
    PROVE  CutoffOf(p) = 0 \/ CutoffOf(p) < obs
BY BoundsKnown DEF CutoffOf

\* Cutoffs are decided before a pruning, by the two that prune.
LEMMA CutoffsStayPast ==
    ASSUME TypeOK, CutoffsPast, Next
    PROVE  CutoffsPast'
<1>0. obs \in Nat /\ cutoff \in [{Pruner} \cup Requests -> 0..MaxObs] /\ 0..MaxObs \subseteq Nat
  BY DEF TypeOK
<1>1. CASE PrunerBegin
  <2>1. control.retention \in Policies
    BY <1>1 DEF PrunerBegin, TypeOK, ControlStates
  <2>2. CutoffOf(control.retention) = 0 \/ CutoffOf(control.retention) < obs
    BY <1>0, <2>1, CutoffIsPast
  <2>3. /\ obs' = obs
        /\ \A t \in {Pruner} \cup Requests :
              cutoff'[t] = IF t = Pruner THEN CutoffOf(control.retention) ELSE cutoff[t]
    BY <1>0, <1>1 DEF PrunerBegin
  <2> QED
    BY <2>2, <2>3 DEF CutoffsPast
<1>2. ASSUME NEW r \in Requests, RetentionStart(r)
      PROVE  CutoffsPast'
  <2> DEFINE decided == IF request[r].policy = Forever THEN 0 ELSE CutoffOf(request[r].policy)
  <2>1. decided = 0 \/ decided < obs
    BY <1>0, RequestKnown, CutoffIsPast
  <2>2. /\ obs' = obs
        /\ \A t \in {Pruner} \cup Requests : cutoff'[t] = IF t = r THEN decided ELSE cutoff[t]
    BY <1>0, <1>2 DEF RetentionStart
  <2> QED
    BY <2>1, <2>2 DEF CutoffsPast
<1>3. CASE ~PrunerBegin /\ ~(\E r \in Requests : RetentionStart(r))
  <2>1. cutoff' = cutoff
    <3>1. CASE CapStep
      BY <3>1, CapStepFrame
    <3>2. CASE PruneStep(Pruner) \/ \E m \in Runs : RunStep(m) \/ RunComplete(m) \/ RunFails(m)
      BY <3>2 DEF PruneStep, PruneCommit, PruneFinish, PruneFails, RunStep, RunComplete,
         RunFails, RunRegister, RunAwaitSerial, RunAwaitGate, RunEnter, RunCancelled, RunPlan,
         RunGather, RunCommit, RunUnchanged
    <3>3. ASSUME NEW r \in Requests, Requested(r) \/ Serve(r) \/ Disconnect(r)
          PROVE  cutoff' = cutoff
      BY <1>3, <3>3 DEF Requested, Arrive, Resume, Disconnect, Serve, PauseTake, PauseAnswer,
         BlacklistConfig, BlacklistBarrier, BlacklistStart, BlacklistSave, InlineStart,
         InlineAnswer, RetentionBarrier, RetentionSave, PruneStep, PruneCommit, PruneFinish,
         PruneFails, DeleteSerial, DeleteFlag, DeleteQuiesce, DeleteBarrier, DeleteObserve,
         DeletePause, DeleteCommit, DeleteFails, DeleteFinish, DeleteResume, DeleteReset,
         DeleteRelease, GrantedThenAwait
    <3> QED
      BY <1>3, <3>1, <3>2, <3>3 DEF Next
  <2>2. obs' \in {obs, obs + 1}
    <3>1. CASE CapStep
      BY <3>1 DEF CapStep, CapIdle, CapAskLease, CapLeasePaused, CapBeginRead, CapSkip,
         CapObserve, CapPersist, CapEnd
    <3>2. CASE \/ PruneStep(Pruner)
               \/ \E m \in Runs : RunStep(m) \/ RunComplete(m) \/ RunFails(m)
      BY <3>2, OthersFrame
    <3>3. ASSUME NEW r \in Requests, Requested(r) \/ Serve(r) \/ Disconnect(r)
          PROVE  obs' = obs
      BY <3>3, RequestFrame DEF PauseTake, BlacklistSave, DeletePause, DeleteCommit, Quiet
    <3> QED
      BY <1>3, <3>1, <3>2, <3>3 DEF Next
  <2> QED
    BY <1>0, <2>1, <2>2 DEF CutoffsPast
<1> QED
  BY <1>1, <1>2, <1>3

\* Retention is for good: a snapshot that it removed never comes back, even
\* when the capture loop still holds its id and extends its row by upsert,
\* and wherever the pruning falls between a screen read and its write.
THEOREM RetentionIsFinal == Spec => []ExpiredRowStaysExpired
<1>1. Init => Retained
  <2> SUFFICES ASSUME Init PROVE Retained
    OBVIOUS
  <2>1. /\ history.expired = {} /\ rows = {} /\ loop.active = 0 /\ pc[Cap] = "top"
        /\ \A t \in {Pruner} \cup Requests : cutoff[t] = 0
    BY TaskKinds DEF Init
  <2> QED
    BY <2>1 DEF Retained, OneRowPerId, CutoffsPast, ExpiredAreOld, CandidateIsFresh, ActiveIsFresh
<1>2. TypeOK /\ Retained /\ [Next]_vars => Retained'
  <2> SUFFICES ASSUME TypeOK, Retained, [Next]_vars PROVE Retained'
    OBVIOUS
  <2>1. CASE CapStep
    BY <2>1, CapStepRetained
  <2>2. CASE /\ \/ PrunerBegin \/ PruneStep(Pruner)
                \/ \E m \in Runs : RunStep(m) \/ RunComplete(m) \/ RunFails(m)
             /\ ~PruneCommit(Pruner)
    <3>1. CutoffsPast'
      BY <2>2, CutoffsStayPast DEF Next, Retained
    <3> QED
      BY <2>2, <3>1, OthersFrame, OthersHistory, RetainedKept
  <2>3. ASSUME NEW r \in Requests, Requested(r) \/ Serve(r) \/ Disconnect(r), ~PruneCommit(r)
        PROVE  Retained'
    <3>1. CutoffsPast'
      BY <2>3, CutoffsStayPast DEF Next, Retained
    <3>2. history'.expired = history.expired
      BY <2>3, RequestHistory
    <3>3. UNCHANGED <<obs, loop>> /\ rows' \subseteq rows /\ pc'[Cap] = pc[Cap]
      BY <2>3, HandlerFrame
    <3> QED
      BY <3>1, <3>2, <3>3, RetainedKept
  <2>4. ASSUME NEW t \in {Pruner} \cup Requests, PruneCommit(t)
        PROVE  Retained'
    BY <2>4, PruneCommitRetained
  <2>5. CASE UNCHANGED vars
    BY <2>5, RetainedKept DEF vars, Retained, CutoffsPast
  <2> QED
    BY <2>1, <2>2, <2>3, <2>4, <2>5 DEF Next
<1>3. Retained => ExpiredRowStaysExpired
  BY DEF Retained, ExpiredAreOld, ExpiredRowStaysExpired
<1> QED
  BY <1>1, <1>2, <1>3, TypeCorrect, PTL DEF Spec

-----------------------------------------------------------------------------
(***************************************************************************)
(* The barrier: as with the two other locks, where a task is in the code   *)
(* determines what it holds of it.                                         *)
(***************************************************************************)
BarrierFollowsCode == Fits("barrier")

\* The capture task writes a candidate under the barrier.
LEMMA CapStepBarrier ==
    ASSUME TypeOK, BarrierFollowsCode, CapStep
    PROVE  BarrierFollowsCode'
<1> USE LocksKnown DEF BarrierFollowsCode
<1>0. Cap \in Tasks /\ LocksTyped
  BY TaskKinds DEF TypeOK
<1>1. CASE CapIdle
  BY <1>1 DEF CapIdle, Fits, WellQueued, Queued, Holds
<1>2. CASE CapAskLease \/ CapLeasePaused \/ CapBeginRead \/ CapSkip \/ CapEnd
  <2>1. lock'["barrier"] = lock["barrier"]
    BY <1>0, <1>2, AwaitEffect, DropEffect DEF CapAskLease, CapLeasePaused, CapBeginRead,
       CapSkip, CapEnd
  <2>2. /\ pc[Cap] \in {"top", "lease", "read", "stored", "lost"}
        /\ \E place \in {"lease", "top", "read"} : Goto(Cap, place)
    BY <1>2 DEF CapAskLease, CapLeasePaused, CapBeginRead, CapSkip, CapEnd
  <2> QED
    BY <1>0, <2>1, <2>2, FitsKept DEF ModeAt, Writing, Reading, Waits, Granted
<1>3. ASSUME NEW app \in Apps, NEW near \in BOOLEAN, CapObserve(app, near)
      PROVE  BarrierFollowsCode'
  <2>1. lock'["barrier"] = Join(lock["barrier"], Cap, "write")
    BY <1>0, <1>3, AwaitEffect DEF CapObserve
  <2> QED
    BY <1>0, <1>3, <2>1, FitsJoined DEF CapObserve, ModeAt, Writing, Reading, Waits
<1>4. CASE CapPersist
  <2>1. lock'["barrier"] = Leave(lock["barrier"], Cap)
    BY <1>0, <1>4, DropEffect DEF CapPersist
  <2>2. \E place \in {"stored", "lost"} : Goto(Cap, place)
    BY <1>4 DEF CapPersist
  <2> QED
    BY <1>0, <2>1, <2>2, FitsLeft DEF ModeAt, Writing, Reading
<1> QED
  BY <1>1, <1>2, <1>3, <1>4 DEF CapStep

\* A pruning holds it from its transaction to its end.
LEMMA PruneStepBarrier ==
    ASSUME TypeOK, BarrierFollowsCode, NEW t \in {Pruner} \cup Requests, PruneStep(t)
    PROVE  BarrierFollowsCode'
<1> USE LocksKnown DEF BarrierFollowsCode
<1>0. t \in Tasks /\ LocksTyped
  BY TaskKinds DEF TypeOK
<1>1. ASSUME NEW answer, Finish(t, answer)
      PROVE  BarrierFollowsCode'
  <2>1. lock'["barrier"] = Leave(lock["barrier"], t)
    BY <1>0, <1>1, DropEffect DEF Finish, PruneLocks
  <2>2. \E place \in {"idle", "done"} : Goto(t, place)
    BY <1>1 DEF Finish
  <2> QED
    BY <1>0, <2>1, <2>2, FitsLeft DEF ModeAt, Writing, Reading
<1>2. ASSUME PruneCommit(t), ~(\E answer : Finish(t, answer))
      PROVE  BarrierFollowsCode'
  <2>1. /\ lock' = lock /\ HoldsWrite(lock["barrier"], t)
        /\ pc[t] \in {"barrier", "rPrune"}
        /\ \E place \in {"pruned", "rPruned"} : Goto(t, place)
    BY <1>2 DEF PruneCommit
  <2> QED
    BY <1>0, <2>1, FitsKept DEF ModeAt, Writing, Reading, Waits, Granted, HoldsWrite
<1> QED
  BY <1>1, <1>2 DEF PruneStep, PruneFinish, PruneFails

\* The handlers that write to the database wait for it.
LEMMA RequestBarrier ==
    ASSUME TypeOK, BarrierFollowsCode, NEW r \in Requests,
           Requested(r) \/ Serve(r) \/ Disconnect(r)
    PROVE  BarrierFollowsCode'
<1> USE LocksKnown DEF BarrierFollowsCode
<1>0. r \in Tasks /\ LocksTyped
  BY TaskKinds DEF TypeOK
<1>1. ASSUME NEW asked \in Asked, Arrive(r, asked)
      PROVE  BarrierFollowsCode'
  <2>1. asked.kind \in {"pause", "blacklist", "deleteAll", "inline", "retention"}
    BY <1>1, KindsKnown DEF Arrive, RequestKinds
  <2>2. PICK l \in {"gate", "config"}, m \in {"read", "write"},
             place \in {"pGate", "bGate", "dGate", "iGate", "rConfig"} :
           FirstLock(asked.kind) = <<l, m, place>>
    BY <2>1 DEF FirstLock
  <2>3. Await(r, l, m) /\ Goto(r, place) /\ pc[r] = "new"
    BY <1>1, <2>2 DEF Arrive
  <2>4. lock'["barrier"] = lock["barrier"]
    BY <1>0, <2>3, AwaitEffect
  <2> QED
    BY <1>0, <2>3, <2>4, FitsKept DEF ModeAt, Writing, Reading, Waits, Granted
<1>2. ASSUME NEW ready \in BOOLEAN, Resume(r, ready)
      PROVE  BarrierFollowsCode'
  BY <1>0, <1>2, FitsKept DEF Resume, ModeAt, Writing, Reading, Waits, Granted
<1>3. CASE BlacklistBarrier(r) \/ RetentionBarrier(r) \/ DeleteBarrier(r)
  <2>1. lock'["barrier"] = Join(lock["barrier"], r, "write")
    BY <1>0, <1>3, AwaitEffect DEF BlacklistBarrier, RetentionBarrier, DeleteBarrier,
       GrantedThenAwait
  <2>2. /\ pc[r] \in {"bConfig", "rConfig", "dQuiesce"}
        /\ \E place \in {"bBarrier", "rBarrier", "dBarrier"} : Goto(r, place)
    BY <1>3 DEF BlacklistBarrier, RetentionBarrier, DeleteBarrier, GrantedThenAwait
  <2> QED
    BY <1>0, <2>1, <2>2, FitsJoined DEF ModeAt, Writing, Reading, Waits
<1>4. CASE BlacklistStart(r) \/ RetentionStart(r) \/ DeleteObserve(r)
  <2>1. /\ lock' = lock /\ HoldsWrite(lock["barrier"], r)
        /\ pc[r] \in {"bBarrier", "rBarrier", "dBarrier"}
        /\ \E place \in {"bSave", "rSave", "dPause"} : Goto(r, place)
    BY <1>4 DEF BlacklistStart, RetentionStart, DeleteObserve
  <2> QED
    BY <1>0, <2>1, FitsKept DEF ModeAt, Writing, Reading, Waits, Granted, HoldsWrite
<1>5. CASE BlacklistSave(r) \/ DeleteResume(r) \/ Disconnect(r)
  <2>1. PICK ls : Drop(r, ls) /\ "barrier" \in ls
    BY <1>5 DEF BlacklistSave, DeleteResume, Disconnect, Answer
  <2>3. lock'["barrier"] = Leave(lock["barrier"], r)
    BY <1>0, <2>1, DropEffect
  <2>2. \E place \in {"done", "dReset"} : Goto(r, place)
    BY <1>5 DEF BlacklistSave, DeleteResume, Disconnect, Answer
  <2> QED
    BY <1>0, <2>2, <2>3, FitsLeft DEF ModeAt, Writing, Reading
<1>6. CASE RetentionSave(r)
  <2>1. CASE \E answer : Finish(r, answer)
    <3>1. lock'["barrier"] = Leave(lock["barrier"], r)
      BY <1>0, <2>1, DropEffect, TaskKinds DEF Finish, PruneLocks
    <3>2. \E place \in {"done", "idle"} : Goto(r, place)
      BY <2>1 DEF Finish
    <3> QED
      BY <1>0, <3>1, <3>2, FitsLeft DEF ModeAt, Writing, Reading
  <2>2. CASE lock' = lock /\ pc[r] = "rSave" /\ Goto(r, "rPrune")
    BY <1>0, <2>2, FitsKept DEF ModeAt, Writing, Reading, Waits, Granted
  <2> QED
    BY <1>6, <2>1, <2>2 DEF RetentionSave
<1>7. CASE DeletePause(r) \/ DeleteCommit(r) \/ DeleteFails(r) \/ DeleteFinish(r)
  <2>1. /\ lock' = lock /\ pc[r] \in {"dPause", "dErase", "dErased"}
        /\ \E place \in {"dErase", "dErased", "dResume"} : Goto(r, place)
    BY <1>7 DEF DeletePause, DeleteCommit, DeleteFails, DeleteFinish
  <2> QED
    BY <1>0, <2>1, FitsKept DEF ModeAt, Writing, Reading, Waits, Granted
<1>8. CASE \/ PauseTake(r) \/ PauseAnswer(r) \/ BlacklistConfig(r) \/ InlineStart(r)
           \/ InlineAnswer(r) \/ DeleteSerial(r) \/ DeleteFlag(r) \/ DeleteQuiesce(r)
           \/ DeleteReset(r) \/ DeleteRelease(r)
  <2>1. lock'["barrier"] = lock["barrier"]
    BY ZenonT(40), <1>0, <1>8, AwaitEffect, DropEffect DEF PauseTake, PauseAnswer, BlacklistConfig,
       InlineStart, InlineAnswer, DeleteSerial, DeleteFlag, DeleteQuiesce, DeleteReset,
       DeleteRelease, GrantedThenAwait, Answer
  <2>2. /\ pc[r] \in {"pGate", "pPaused", "bGate", "iGate", "iRead", "dGate", "dSerial",
                     "dFlag", "dReset", "dRelease"}
        /\ \E place \in {"pPaused", "done", "bConfig", "iRead", "dSerial", "dFlag",
                        "dQuiesce", "dRelease"} : Goto(r, place)
    BY <1>8 DEF PauseTake, PauseAnswer, BlacklistConfig, InlineStart, InlineAnswer,
       DeleteSerial, DeleteFlag, DeleteQuiesce, DeleteReset, DeleteRelease,
       GrantedThenAwait, Answer
  <2> QED
    BY <1>0, <2>1, <2>2, FitsKept DEF ModeAt, Writing, Reading, Waits, Granted
<1>9. CASE PruneStep(r)
  BY <1>9, PruneStepBarrier
<1> QED
  BY <1>1, <1>2, <1>3, <1>4, <1>5, <1>6, <1>7, <1>8, <1>9 DEF Requested, Serve

\* A memory run waits for it to commit.
LEMMA RunStepBarrier ==
    ASSUME TypeOK, BarrierFollowsCode, NEW m \in Runs, RunStep(m) \/ RunComplete(m) \/ RunFails(m)
    PROVE  BarrierFollowsCode'
<1> USE LocksKnown DEF BarrierFollowsCode
<1>0. m \in Tasks /\ LocksTyped
  BY TaskKinds DEF TypeOK
<1>1. CASE RunLeave(m)
  <2>1. lock'["barrier"] = Leave(lock["barrier"], m) /\ Goto(m, "idle")
    BY <1>0, <1>1, DropEffect DEF RunLeave, RunLocks
  <2> QED
    BY <1>0, <2>1, FitsLeft DEF ModeAt, Writing, Reading
<1>2. CASE RunComplete(m)
  <2>1. lock'["barrier"] = Join(lock["barrier"], m, "write") /\ Goto(m, "commit") /\ pc[m] = "llm"
    BY <1>0, <1>2, AwaitEffect DEF RunComplete
  <2> QED
    BY <1>0, <2>1, FitsJoined DEF ModeAt, Writing, Reading, Waits
<1>3. CASE ~RunLeave(m) /\ RunStep(m)
  <2>1. lock'["barrier"] = lock["barrier"]
    BY <1>0, <1>3, AwaitEffect DEF RunStep, RunRegister, RunAwaitSerial, RunAwaitGate, RunEnter,
       RunCancelled, RunPlan, RunGather, RunCommit
  <2>2. /\ pc[m] \in {"idle", "registered", "serial", "runGate", "plan", "gather"}
        /\ \E place \in {"registered", "serial", "runGate", "plan", "gather", "llm"} :
              Goto(m, place)
    BY <1>3 DEF RunStep, RunRegister, RunAwaitSerial, RunAwaitGate, RunEnter,
       RunCancelled, RunPlan, RunGather, RunCommit
  <2> QED
    BY <1>0, <2>1, <2>2, FitsKept DEF ModeAt, Writing, Reading, Waits, Granted
<1> QED
  BY <1>1, <1>2, <1>3 DEF RunFails

\* Where a task is in the code determines what it holds of the barrier.
THEOREM BarrierFollowsTheCode == Spec => []BarrierFollowsCode
<1>1. Init => BarrierFollowsCode
  <2> SUFFICES ASSUME Init PROVE BarrierFollowsCode
    OBVIOUS
  <2>1. lock["barrier"] = FreeLock(Tasks)
    BY LocksKnown DEF Init
  <2>2. \A t \in Tasks : pc[t] \in {"top", "new", "idle"}
    BY DEF Init
  <2> QED
    BY <2>1, <2>2, FreeLockIsWellQueued DEF BarrierFollowsCode, Fits, FreeLock, ModeAt, Writing,
       Reading, Waits, Granted
<1>2. TypeOK /\ BarrierFollowsCode /\ [Next]_vars => BarrierFollowsCode'
  <2> SUFFICES ASSUME TypeOK, BarrierFollowsCode, [Next]_vars PROVE BarrierFollowsCode'
    OBVIOUS
  <2>1. CASE CapStep \/ PruneStep(Pruner)
    BY <2>1, CapStepBarrier, PruneStepBarrier
  <2>2. CASE PrunerBegin
    <3>1. lock'["barrier"] = Join(lock["barrier"], Pruner, "write")
      BY <2>2, LocksKnown, AwaitEffect DEF PrunerBegin, TypeOK
    <3> QED
      BY <2>2, <3>1, LocksKnown, TaskKinds, FitsJoined DEF PrunerBegin, BarrierFollowsCode,
         ModeAt, Writing, Reading, Waits
  <2>3. ASSUME NEW r \in Requests, Requested(r) \/ Serve(r) \/ Disconnect(r)
        PROVE  BarrierFollowsCode'
    BY <2>3, RequestBarrier
  <2>4. ASSUME NEW m \in Runs, RunStep(m) \/ RunComplete(m) \/ RunFails(m)
        PROVE  BarrierFollowsCode'
    BY <2>4, RunStepBarrier
  <2>5. CASE UNCHANGED vars
    BY <2>5 DEF vars, BarrierFollowsCode, Fits, WellQueued, Queued, Holds
  <2> QED
    BY <2>1, <2>2, <2>3, <2>4, <2>5 DEF Next
<1> QED
  BY <1>1, <1>2, TypeCorrect, PTL DEF Spec

-----------------------------------------------------------------------------
(***************************************************************************)
(* Generated memory.  A run that read its rows at the present data_epoch   *)
(* holds none that expired, unless the task that removed them has yet to   *)
(* advance the epoch, and that one still holds the barrier.                *)
(***************************************************************************)
Pruned == \E t \in {Pruner} \cup Requests : pc[t] \in {"pruned", "rPruned"}

PromptsLive ==
    \A m \in Runs :
        /\ pc[m] \in {"gather", "llm", "commit"} => run[m].epoch <= dataEpoch
        /\ pc[m] \in {"llm", "commit"} /\ run[m].epoch = dataEpoch =>
             run[m].prompt \cap history.expired = {} \/ Pruned

Live == PromptsLive /\ NoExpiredInMemory

\* The barrier admits one writer: nobody commits while a pruning is unfinished.
LEMMA PruningIsExclusive ==
    ASSUME TypeOK, BarrierFollowsCode, NEW t \in Tasks, HoldsWrite(lock["barrier"], t), Pruned
    PROVE  pc[t] \in {"pruned", "rPruned"}
<1>1. PICK u \in {Pruner} \cup Requests : pc[u] \in {"pruned", "rPruned"}
  BY DEF Pruned
<1>2. /\ u \in Tasks
      /\ lock["barrier"] \in LockStates(Tasks) /\ WellQueued(lock["barrier"])
      /\ Holds(lock["barrier"], u)
  BY <1>1, TaskKinds, LocksKnown DEF TypeOK, LocksTyped, BarrierFollowsCode, Fits, Writing,
     Reading, Waits, Granted
<1>3. t = u
  BY <1>2, WriterIsAlone
<1> QED
  BY <1>1, <1>3

\* Nothing expires and no epoch changes, and an unfinished pruning stays so.
LEMMA LiveKept ==
    ASSUME Live, UNCHANGED <<dataEpoch, run>>, chronicle' \in {chronicle, NoMemory},
           history'.expired = history.expired, \A m \in Runs : pc'[m] = pc[m],
           Pruned => Pruned'
    PROVE  Live'
<1>1. PromptsLive'
  BY DEF Live, PromptsLive
<1>2. NoExpiredInMemory'
  BY DEF Live, NoExpiredInMemory, NoMemory
<1> QED
  BY <1>1, <1>2 DEF Live

\* The epoch advances: no run has read its rows since.
LEMMA LiveRenewed ==
    ASSUME TypeOK, Live, dataEpoch' = dataEpoch + 1, UNCHANGED <<run, chronicle>>,
           history'.expired = history.expired, \A m \in Runs : pc'[m] = pc[m]
    PROVE  Live'
<1>1. \A m \in Runs : run[m].epoch \in Nat
  BY DEF TypeOK
<1>2. PromptsLive'
  BY <1>1 DEF Live, PromptsLive, TypeOK
<1> QED
  BY <1>2 DEF Live, NoExpiredInMemory

\* A pruning removes the memory with the rows behind it, and moves the epoch
\* before it lets go of the barrier.
LEMMA PruneStepLive ==
    ASSUME TypeOK, Live, VacuumMayFail = FALSE, NEW t \in {Pruner} \cup Requests, PruneStep(t)
    PROVE  Live'
<1>0. t \in Tasks /\ history \in HistoryStates
  BY TaskKinds DEF TypeOK
<1>1. /\ run' = run
      /\ \A u \in Tasks : u # t => pc'[u] = pc[u]
  BY DEF PruneStep, PruneCommit, PruneFinish, PruneFails, Finish, Goto, TypeOK, PCsTyped
<1>2. \A m \in Runs : pc'[m] = pc[m]
  BY <1>1, TaskKinds
<1>3. CASE PruneCommit(t) /\ Expired(cutoff[t]) = {}
  <2>1. /\ history'.expired = history.expired \cup {} /\ chronicle' = chronicle
        /\ dataEpoch' = dataEpoch
    BY <1>0, <1>3 DEF PruneCommit, HistoryStates
  <2>2. pc[t] \notin {"pruned", "rPruned"}
    BY <1>3 DEF PruneCommit
  <2>3. Pruned => Pruned'
    BY <1>1, <2>2, TaskKinds DEF Pruned
  <2> QED
    BY <1>1, <1>2, <2>1, <2>3, LiveKept
<1>4. CASE PruneCommit(t) /\ Expired(cutoff[t]) # {}
  <2>1. /\ chronicle' = NoMemory /\ dataEpoch' = dataEpoch
        /\ pc'[t] \in {"pruned", "rPruned"}
    BY <1>0, <1>4 DEF PruneCommit, Goto, TypeOK, PCsTyped
  <2>2. Pruned'
    BY <2>1 DEF Pruned
  <2>3. PromptsLive'
    BY <1>1, <1>2, <2>1, <2>2 DEF Live, PromptsLive
  <2>4. NoExpiredInMemory'
    BY <2>1 DEF NoExpiredInMemory, NoMemory
  <2> QED
    BY <2>3, <2>4 DEF Live
<1>5. CASE PruneFinish(t)
  BY <1>1, <1>2, <1>5, LiveRenewed DEF PruneFinish
<1>6. CASE PruneFails(t)
  <2>1. pc[t] \notin {"pruned", "rPruned"}
    BY <1>6 DEF PruneFails
  <2>2. Pruned => Pruned'
    BY <1>1, <2>1, TaskKinds DEF Pruned
  <2> QED
    BY <1>1, <1>2, <1>6, <2>2, LiveKept DEF PruneFails
<1> QED
  BY <1>3, <1>4, <1>5, <1>6 DEF PruneStep

\* A handler prunes, or erases, or leaves memory alone.
LEMMA RequestLive ==
    ASSUME TypeOK, Live, VacuumMayFail = FALSE, NEW r \in Requests,
           Requested(r) \/ Serve(r) \/ Disconnect(r)
    PROVE  Live'
<1>0. r \in Tasks
  BY TaskKinds
<1>1. CASE PruneStep(r)
  BY <1>1, PruneStepLive
<1>2. CASE ~PruneStep(r)
  <2>1. /\ run' = run /\ history'.expired = history.expired
        /\ chronicle' \in {chronicle, NoMemory}
    <3>1. chronicle' \in {chronicle, NoMemory}
      BY RequestFrame DEF PauseTake, BlacklistSave, DeletePause, DeleteCommit, Quiet
    <3> QED
      BY <1>2, <3>1, HandlerFrame, RequestHistory DEF PruneStep
  <2>2. \A u \in Tasks : u # r => pc'[u] = pc[u]
    <3>1. CASE PauseTake(r) \/ DeletePause(r) \/ DeleteCommit(r)
      BY <3>1 DEF PauseTake, DeletePause, DeleteCommit, Goto, TypeOK, PCsTyped
    <3>2. CASE BlacklistSave(r)
      BY <3>2, MoveFrame DEF BlacklistSave, Answer
    <3> QED
      BY <3>1, <3>2, RequestFrame DEF Quiet
  <2>3. \A m \in Runs : pc'[m] = pc[m]
    BY <2>2, TaskKinds
  <2>4. CASE DeleteFinish(r)
    BY <2>1, <2>3, <2>4, LiveRenewed DEF DeleteFinish
  <2>5. CASE ~DeleteFinish(r)
    <3>1. dataEpoch' = dataEpoch /\ pc[r] # "rPruned" /\ pc[r] # "pruned"
      BY <1>2, <2>5 DEF Requested, Arrive, Resume, Disconnect, Waiting, Serve, PauseTake,
         PauseAnswer, BlacklistConfig, BlacklistBarrier, BlacklistStart, BlacklistSave,
         InlineStart, InlineAnswer, RetentionBarrier, RetentionStart, RetentionSave,
         DeleteSerial, DeleteFlag, DeleteQuiesce, DeleteBarrier, DeleteObserve, DeletePause,
         DeleteCommit, DeleteFails, DeleteResume, DeleteReset, DeleteRelease, GrantedThenAwait
    <3>2. Pruned => Pruned'
      BY <2>2, <3>1, TaskKinds DEF Pruned
    <3> QED
      BY <2>1, <2>3, <3>1, <3>2, LiveKept
  <2> QED
    BY <2>4, <2>5
<1> QED
  BY <1>1, <1>2

\* A run commits only what it read at the present epoch.
LEMMA RunStepLive ==
    ASSUME TypeOK, BarrierFollowsCode, Live, ExpiredRowStaysExpired, NEW m \in Runs,
           RunStep(m) \/ RunComplete(m) \/ RunFails(m)
    PROVE  Live'
<1>0. /\ m \in Tasks /\ dataEpoch \in Nat
      /\ UNCHANGED <<dataEpoch, rows, history>>
      /\ \A t \in Requests \cup {Pruner} : m # t
  BY TaskKinds DEF TypeOK, RunStep, RunComplete, RunFails, RunRegister, RunAwaitSerial,
     RunAwaitGate, RunEnter, RunCancelled, RunPlan, RunGather, RunCommit, RunUnchanged
<1>1. /\ \A u \in Tasks : u # m => pc'[u] = pc[u]
      /\ \A n \in Runs : n # m => run'[n] = run[n]
  BY <1>0 DEF RunStep, RunComplete, RunFails, RunRegister, RunAwaitSerial, RunAwaitGate,
     RunEnter, RunCancelled, RunPlan, RunGather, RunCommit, RunLeave, Goto, TypeOK, PCsTyped
<1>2. Pruned' <=> Pruned
  BY <1>0, <1>1, TaskKinds DEF Pruned
<1>3. ASSUME /\ pc'[m] \in {"gather", "llm", "commit"} => run'[m].epoch <= dataEpoch
             /\ pc'[m] \in {"llm", "commit"} /\ run'[m].epoch = dataEpoch =>
                  run'[m].prompt \cap history.expired = {} \/ Pruned
      PROVE  PromptsLive'
  BY <1>0, <1>1, <1>2, <1>3, TaskKinds DEF Live, PromptsLive
<1>4. PromptsLive'
  <2>1. CASE RunLeave(m)
    <3>1. pc'[m] = "idle"
      BY <1>0, <2>1 DEF RunLeave, Goto, TypeOK, PCsTyped
    <3> QED
      BY <1>3, <3>1
  <2>2. CASE RunPlan(m)
    <3>1. pc'[m] = "gather" /\ run'[m].epoch = dataEpoch
      BY <1>0, <2>2 DEF RunPlan, Goto, TypeOK, PCsTyped
    <3> QED
      BY <1>0, <1>3, <3>1
  <2>3. CASE RunGather(m) /\ ~RunLeave(m)
    <3>1. /\ pc[m] = "gather" /\ run'[m].epoch = run[m].epoch
          /\ run'[m].prompt = {row.id : row \in rows}
      BY <1>0, <2>3 DEF RunGather, TypeOK
    <3>2. run'[m].prompt \cap history.expired = {}
      BY <3>1 DEF ExpiredRowStaysExpired
    <3> QED
      BY <1>3, <3>1, <3>2 DEF Live, PromptsLive
  <2>4. CASE RunComplete(m)
    BY <1>3, <2>4 DEF RunComplete, Live, PromptsLive
  <2>5. CASE RunRegister(m) \/ RunAwaitSerial(m) \/ RunAwaitGate(m) \/ RunEnter(m)
    <3>1. pc'[m] \notin {"gather", "llm", "commit"}
      BY <1>0, <2>5 DEF RunRegister, RunAwaitSerial, RunAwaitGate, RunEnter, Goto, TypeOK, PCsTyped
    <3> QED
      BY <1>3, <3>1
  <2> QED
    BY <2>1, <2>2, <2>3, <2>4, <2>5 DEF RunStep, RunFails, RunCancelled, RunCommit
<1>5. NoExpiredInMemory'
  <2>1. CASE chronicle' = chronicle
    BY <1>0, <2>1 DEF Live, NoExpiredInMemory
  <2>2. CASE chronicle' # chronicle
    <3>1. /\ pc[m] = "commit" /\ HoldsWrite(lock["barrier"], m)
          /\ run[m].epoch = dataEpoch /\ chronicle'.sources = run[m].prompt
      BY <2>2 DEF RunStep, RunComplete, RunFails, RunRegister, RunAwaitSerial, RunAwaitGate,
         RunEnter, RunCancelled, RunPlan, RunGather, RunCommit
    <3>2. ~Pruned
      BY <1>0, <3>1, PruningIsExclusive
    <3> QED
      BY <1>0, <3>1, <3>2 DEF Live, PromptsLive, NoExpiredInMemory
  <2> QED
    BY <2>1, <2>2
<1> QED
  BY <1>4, <1>5 DEF Live

\* Expired text does not survive in generated memory, if what follows the
\* commit of a pruning does not fail (see the run `vacuum` for when it does):
\* a run that read a snapshot before it expired finds another data_epoch when
\* it wants to commit, for the pruning moves it while it has the barrier.
THEOREM MemoryOutlivesNoSource ==
    ASSUME VacuumMayFail = FALSE
    PROVE  Spec => []NoExpiredInMemory
<1>1. Init => Live
  <2> SUFFICES ASSUME Init PROVE Live
    OBVIOUS
  <2>1. chronicle = NoMemory /\ \A m \in Runs : pc[m] = "idle"
    BY TaskKinds DEF Init
  <2> QED
    BY <2>1 DEF Live, PromptsLive, NoExpiredInMemory, NoMemory
<1>2. TypeOK /\ BarrierFollowsCode /\ ExpiredRowStaysExpired /\ Live /\ [Next]_vars => Live'
  <2> SUFFICES ASSUME TypeOK, BarrierFollowsCode, ExpiredRowStaysExpired, Live, [Next]_vars
               PROVE  Live'
    OBVIOUS
  <2>1. CASE CapStep
    <3>1. Pruned => Pruned'
      BY <2>1, CapStepFrame, TaskKinds DEF Pruned
    <3> QED
      BY <2>1, <3>1, CapStepFrame, TaskKinds, LiveKept
  <2>2. CASE PrunerBegin
    <3>1. pc[Pruner] = "idle" /\ \A t \in Tasks : t # Pruner => pc'[t] = pc[t]
      BY <2>2 DEF PrunerBegin, Goto, TypeOK, PCsTyped
    <3>2. Pruned => Pruned'
      BY <3>1, TaskKinds DEF Pruned
    <3> QED
      BY <2>2, <3>1, <3>2, TaskKinds, LiveKept DEF PrunerBegin
  <2>3. CASE PruneStep(Pruner)
    BY <2>3, PruneStepLive
  <2>4. ASSUME NEW r \in Requests, Requested(r) \/ Serve(r) \/ Disconnect(r)
        PROVE  Live'
    BY <2>4, RequestLive
  <2>5. ASSUME NEW m \in Runs, RunStep(m) \/ RunComplete(m) \/ RunFails(m)
        PROVE  Live'
    BY <2>5, RunStepLive
  <2>6. CASE UNCHANGED vars
    BY <2>6, LiveKept DEF vars, Pruned
  <2> QED
    BY <2>1, <2>2, <2>3, <2>4, <2>5, <2>6 DEF Next
<1>3. Live => NoExpiredInMemory
  BY DEF Live
<1> QED
  BY <1>1, <1>2, <1>3, TypeCorrect, BarrierFollowsTheCode, RetentionIsFinal, PTL DEF Spec
=============================================================================
