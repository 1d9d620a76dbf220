--------------------------- MODULE SupervisorProofs ---------------------------
(***************************************************************************)
(* The fields of the supervisor agree with each other, with its tasks and  *)
(* with the sidecars that run, in every behaviour: for any number of       *)
(* commands, pending restarts, sidecars and faults.                        *)
(***************************************************************************)
EXTENDS Supervisor, TLAPS

-----------------------------------------------------------------------------
\* Three invariants of the runs, and what makes them inductive: a restart is
\* pending, an attempt is under way or a child is there, never two of them, and
\* none after the shutdown.
OneAtATime ==
    /\ inner.deadline => inner.child = NoPid /\ ~inner.spawning
    /\ inner.spawning => inner.child = NoPid
    /\ current.attempt # Nobody => inner.spawning
    /\ machine.stop =>
          machine.phase = "Stopped" /\ inner.child = NoPid /\ ~inner.spawning

Linked == ChildIsWatched /\ WaitHasTimer /\ SpawningEnds /\ OneAtATime

-----------------------------------------------------------------------------
\* Process ids are not the marks for "none" and "somebody else's".
LEMMA PidsApart == NoPid \notin Pids /\ External \notin Pids /\ External # NoPid
  BY PidsKnown DEF NoPid, External

LEMMA TasksApart ==
    /\ Monitor \in Tasks /\ Quitter \in Tasks
    /\ Nobody \notin Tasks
    /\ \A t \in Timers : t \in Tasks
  BY SupervisorTasksDistinct DEF Tasks, Nobody

LEMMA RestTyped == \A t \in Tasks : Rest(t) \in {"sleep", "free", "done"}
  BY DEF Rest

\* The machine's own operations keep its type.
LEMMA MachineTyped ==
    ASSUME NEW m \in Machines
    PROVE  /\ Checking(m) \in Machines /\ Failed(m) \in Machines
           /\ Restarted(m) \in Machines /\ ShutDown(m) \in Machines
           /\ \A p \in Pids : Spawned(m, p) \in Machines
           /\ \A healthy \in BOOLEAN : Observed(m, healthy) \in Machines
  <1>1. UnhealthyProbeLimit \in Nat \ {0} /\ 0 \in 0..(UnhealthyProbeLimit - 1)
    BY LimitKnown
  <1>2. /\ Checking(m) \in Machines /\ Failed(m) \in Machines
        /\ Restarted(m) \in Machines /\ ShutDown(m) \in Machines
        /\ \A p \in Pids : Spawned(m, p) \in Machines
    BY <1>1 DEF Machines, SupervisorPhases, Checking, Failed, Restarted, ShutDown, Spawned
  <1>3. ASSUME NEW healthy \in BOOLEAN PROVE Observed(m, healthy) \in Machines
    <2>1. CASE m.stop
      BY <2>1 DEF Observed
    <2>2. CASE ~m.stop /\ healthy
      BY <1>1, <2>2 DEF Observed, Machines, SupervisorPhases
    <2>3. CASE ~m.stop /\ ~healthy
      <3>1. (m.unhealthy + 1) % UnhealthyProbeLimit \in 0..(UnhealthyProbeLimit - 1)
        BY <1>1 DEF Machines
      <3>2. Observed(m, healthy) =
              [m EXCEPT !.unhealthy = (m.unhealthy + 1) % UnhealthyProbeLimit,
                        !.phase = IF m.phase = "RestartWaiting" THEN m.phase
                                  ELSE "Unhealthy"]
        BY <2>3 DEF Observed
      <3> QED BY <3>1, <3>2 DEF Machines, SupervisorPhases
    <2> QED BY <2>1, <2>2, <2>3 DEF Machines
  <1> QED BY <1>2, <1>3

LEMMA AnswersTyped == \A healthy \in Answers : healthy \in BOOLEAN
  BY DEF Answers

\* The supervisor's side of the type invariant.
TypedTasks ==
    /\ machine \in Machines /\ inner \in Inners /\ current \in Currents
    /\ pc \in [Tasks -> Places] /\ local \in [Tasks -> Locals]

LEMMA FailThenScheduleTyped ==
    ASSUME TypedTasks, NEW next \in Inners, NEW at \in [Tasks -> Places],
           FailThenSchedule(next, at)
    PROVE  machine' \in Machines /\ inner' \in Inners /\ current' \in Currents
           /\ pc' \in [Tasks -> Places]
  <1>1. machine' \in Machines
    BY MachineTyped DEF FailThenSchedule, TypedTasks
  <1>2. CASE machine.stop
    BY <1>1, <1>2 DEF FailThenSchedule, NewGeneration, Currents
  <1>3. CASE ~machine.stop
    <2>1. PICK n \in Timers :
            /\ current' = [NewGeneration EXCEPT !.timer = n]
            /\ inner' = [next EXCEPT !.deadline = TRUE]
            /\ pc' = [at EXCEPT ![n] = "waiting"]
      BY <1>3 DEF FailThenSchedule
    <2>2. current' \in Currents
      BY <2>1 DEF NewGeneration, Currents
    <2>3. inner' \in Inners
      BY <2>1 DEF Inners
    <2>4. pc' \in [Tasks -> Places]
      BY <2>1 DEF Places
    <2> QED BY <1>1, <2>2, <2>3, <2>4
  <1> QED BY <1>2, <1>3

LEMMA StepTyped ==
    ASSUME TypedTasks, NEW t \in Tasks, Step(t)
    PROVE  TypedTasks'
  <1> USE DEF TypedTasks
  <1>r. Rest(t) \in Places
    BY RestTyped DEF Places
  <1>1. CASE Probe(t)
    BY <1>1, AnswersTyped DEF Probe, Goto, Places, Locals
  <1>2. CASE Observe(t)
    <2>1. local[t].healthy \in BOOLEAN
      BY DEF Locals
    <2>2. machine' \in Machines
      BY <1>2, <2>1, MachineTyped DEF Observe
    <2>3. inner' \in Inners /\ current' \in Currents
      BY <1>2 DEF Observe, Inners, Currents, NewGeneration
    <2>4. pc' \in [Tasks -> Places]
      BY <1>2, <1>r DEF Observe, Goto, Decided, Places
    <2>5. local' \in [Tasks -> Locals]
      BY <1>2 DEF Observe, Locals
    <2> QED BY <2>2, <2>3, <2>4, <2>5
  <1>3. CASE Replace(t)
    <2>1. CASE inner.child = NoPid
      BY <1>3, <1>r, <2>1 DEF Replace, Goto
    <2>2. CASE inner.child # NoPid
      <3>1. [inner EXCEPT !.child = NoPid] \in Inners
        BY DEF Inners
      <3>2. [pc EXCEPT ![t] = "kill"] \in [Tasks -> Places]
        BY DEF Places
      <3>3. FailThenSchedule([inner EXCEPT !.child = NoPid], [pc EXCEPT ![t] = "kill"])
        BY <1>3, <2>2 DEF Replace
      <3>4. local' \in [Tasks -> Locals]
        BY <1>3, <2>2 DEF Replace, Locals, Inners
      <3> QED BY <3>1, <3>2, <3>3, <3>4, FailThenScheduleTyped
    <2> QED BY <2>1, <2>2
  <1>4. CASE Kill(t)
    BY <1>4, <1>r DEF Kill, Goto, Places, Locals
  <1>5. CASE Ensure(t)
    <2>1. machine' \in Machines
      BY <1>5, MachineTyped DEF Ensure
    <2>2. inner' \in Inners /\ current' \in Currents
      BY <1>5 DEF Ensure, Inners, Currents, NewGeneration
    <2>3. pc' \in [Tasks -> Places] /\ local' \in [Tasks -> Locals]
      BY <1>5, <1>r DEF Ensure, Goto, Places, Locals
    <2> QED BY <2>1, <2>2, <2>3
  <1>6. CASE Check(t)
    BY <1>6 DEF Check, Goto, Places
  <1>7. CASE Accept(t)
    <2>1. machine' \in Machines
      BY <1>7, MachineTyped DEF Accept
    <2>2. inner' \in Inners /\ current' \in Currents
      BY <1>7 DEF Accept, Inners, Currents
    <2> QED BY <1>7, <1>r, <2>1, <2>2 DEF Accept, Goto
  <1>8. CASE Spawn(t)
    BY SMTT(30), <1>8 DEF Spawn, Goto, Places, Locals
  <1>9. CASE RegisterStale(t)
    BY <1>9, <1>r DEF RegisterStale, Goto, Places, Locals
  <1>10. CASE RegisterChild(t)
    <2>1. local[t].got \in Pids
      BY <1>10 DEF RegisterChild, Locals
    <2>2. machine' \in Machines
      BY <1>10, <2>1, MachineTyped DEF RegisterChild
    <2>3. inner' \in Inners /\ current' \in Currents
      BY <1>10, <2>1 DEF RegisterChild, Inners, Currents
    <2>4. pc' \in [Tasks -> Places] /\ local' \in [Tasks -> Locals]
      BY <1>10, <1>r DEF RegisterChild, Goto, Locals
    <2> QED BY <2>2, <2>3, <2>4
  <1>11. CASE RegisterFailure(t)
    <2>1. [inner EXCEPT !.spawning = FALSE] \in Inners
      BY DEF Inners
    <2>2. [pc EXCEPT ![t] = Rest(t)] \in [Tasks -> Places]
      BY <1>r
    <2> QED BY <1>11, <2>1, <2>2, FailThenScheduleTyped DEF RegisterFailure
  <1>12. CASE Fire(t)
    <2>1. machine' \in Machines
      BY <1>12, MachineTyped DEF Fire
    <2>2. inner' \in Inners /\ current' \in Currents
      BY ZenonT(40), <1>12 DEF Fire, Inners, Currents
    <2>3. pc' \in [Tasks -> Places] /\ local' \in [Tasks -> Locals]
      <3>1. CASE current.timer # t \/ machine.stop \/ machine.phase # "RestartWaiting"
        BY <1>12, <3>1 DEF Fire, Goto, Places
      <3>2. CASE ~(current.timer # t \/ machine.stop \/ machine.phase # "RestartWaiting")
        <4>1. pc' = [pc EXCEPT ![t] = "ensure"] /\ local' = [local EXCEPT ![t].bypass = TRUE]
          BY <1>12, <3>2 DEF Fire, Goto
        <4> QED BY <4>1 DEF Places, Locals
      <3> QED BY <3>1, <3>2
    <2> QED BY <2>1, <2>2, <2>3
  <1> QED
    BY <1>1, <1>2, <1>3, <1>4, <1>5, <1>6, <1>7, <1>8, <1>9, <1>10, <1>11, <1>12 DEF Step

LEMMA WorkingTyped ==
    ASSUME TypedTasks, Working
    PROVE  TypedTasks'
  <1> USE DEF TypedTasks
  <1>1. CASE Wake
    BY <1>1 DEF Wake, Goto, Places
  <1>2. CASE Shutdown
    <2>1. machine' \in Machines
      BY <1>2, MachineTyped DEF Shutdown
    <2>2. inner' \in Inners /\ current' \in Currents
      BY <1>2, PidsApart DEF Shutdown, NewGeneration, Inners, Currents
    <2>3. pc' \in [Tasks -> Places] /\ local' \in [Tasks -> Locals]
      BY <1>2, TasksApart DEF Shutdown, Goto, Places, Locals, Inners
    <2> QED BY <2>1, <2>2, <2>3
  <1>3. CASE Exit
    BY <1>3 DEF Exit
  <1>4. ASSUME NEW t \in Tasks, Step(t) PROVE TypedTasks'
    BY <1>4, StepTyped
  <1>5. ASSUME NEW t \in Tasks, Refresh(t) PROVE TypedTasks'
    BY <1>5 DEF Refresh, Goto, Places
  <1>6. ASSUME NEW t \in Tasks, Restart(t) PROVE TypedTasks'
    <2>1. machine' \in Machines
      BY <1>6, MachineTyped DEF Restart
    <2>2. inner' \in Inners /\ current' \in Currents
      BY <1>6, PidsApart DEF Restart, NewGeneration, Inners, Currents
    <2>3. pc' \in [Tasks -> Places] /\ local' \in [Tasks -> Locals]
      BY ZenonT(40), <1>6 DEF Restart, Goto, Places, Locals, Inners
    <2> QED BY <2>1, <2>2, <2>3
  <1>7. ASSUME NEW p \in Pids, Terminated(p) PROVE TypedTasks'
    <2>1. [inner EXCEPT !.child = NoPid] \in Inners
      BY DEF Inners
    <2> QED BY <1>7, <2>1, FailThenScheduleTyped DEF Terminated
  <1> QED BY <1>1, <1>2, <1>3, <1>4, <1>5, <1>6, <1>7 DEF Working

-----------------------------------------------------------------------------
\* The processes' side of it.
Fates == {"starting", "opening", "up", "hung", "killed", "gone"}
TypedWorld ==
    /\ daemon \in [Daemons -> Fates] /\ holder \in Daemons \cup {NoPid}
    /\ faults \in 0..MaxFaults /\ app \in {"running", "quitting", "gone"}

LEMMA WorkingWorldTyped ==
    ASSUME TypedWorld, Working
    PROVE  TypedWorld'
  <1> USE DEF TypedWorld
  <1>1. CASE World
    BY <1>1 DEF World
  <1>2. CASE Shutdown \/ Exit
    BY <1>2 DEF Shutdown, Exit
  <1>3. ASSUME NEW t \in Tasks, Kill(t) PROVE TypedWorld'
    BY <1>3 DEF Kill, Fates
  <1>4. ASSUME NEW t \in Tasks, Spawn(t) PROVE TypedWorld'
    <2>1. ASSUME NEW p \in Pids, daemon' = [daemon EXCEPT ![p] = "starting"],
                 UNCHANGED <<holder, faults, app>>
          PROVE  TypedWorld'
      BY <2>1 DEF Fates
    <2>2. ASSUME faults < MaxFaults, faults' = faults + 1, UNCHANGED <<daemon, holder, app>>
          PROVE  TypedWorld'
      BY <2>2, LimitKnown
    <2> QED BY <1>4, <2>1, <2>2 DEF Spawn
  <1>5. ASSUME NEW t \in Tasks, Step(t), ~Kill(t), ~Spawn(t) PROVE World
    BY <1>5 DEF Step, Probe, Observe, Replace, Ensure, Check, Accept, RegisterStale,
                RegisterChild, RegisterFailure, Fire
  <1> QED
    BY <1>1, <1>2, <1>3, <1>4, <1>5
    DEF Working, Wake, Refresh, Restart, Terminated

LEMMA ProcessTyped ==
    ASSUME TypedWorld, NEW p \in Daemons, Happens(p) \/ Crash(p) \/ Hang(p) \/ Recover(p)
    PROVE  TypedWorld' /\ Supervision
  <1> USE DEF TypedWorld
  <1>1. Supervision
    BY DEF Happens, Bind, Opened, BindFails, Reaped, ParentGone, Crash, Hang, Recover,
           Supervision
  <1>2. PICK fate \in Fates : daemon' = [daemon EXCEPT ![p] = fate]
    BY DEF Happens, Bind, Opened, BindFails, Reaped, ParentGone, Crash, Hang, Recover, Fates
  <1>3. holder' \in {holder, p, NoPid}
    BY DEF Happens, Bind, Opened, BindFails, Reaped, ParentGone, Crash, Hang, Recover, Released
  <1>4. faults' = faults \/ (faults < MaxFaults /\ faults' = faults + 1)
    BY DEF Happens, Bind, Opened, BindFails, Reaped, ParentGone, Crash, Hang, Recover
  <1>5. faults' \in 0..MaxFaults
    BY <1>4, LimitKnown
  <1> QED BY <1>1, <1>2, <1>3, <1>5 DEF Supervision

\* Every variable keeps its type.
THEOREM SupervisorTypeCorrect == Spec => []TypeOK
  <1>1. TypeOK <=> TypedTasks /\ TypedWorld
    BY DEF TypeOK, TypedTasks, TypedWorld, Fates
  <1>2. Init => TypeOK
    <2> SUFFICES ASSUME Init PROVE TypedTasks /\ TypedWorld
      BY <1>1
    <2>1. machine \in Machines
      BY LimitKnown, PidsApart DEF Init, Machines, SupervisorPhases
    <2>2. inner \in Inners /\ current \in Currents
      BY DEF Init, Inners, Currents, NewGeneration
    <2>3. pc \in [Tasks -> Places]
      BY DEF Init, Places
    <2>4. local \in [Tasks -> Locals]
      BY DEF Init, Locals
    <2>5. daemon \in [Daemons -> Fates] /\ holder \in Daemons \cup {NoPid}
      BY DEF Init, Fates, Daemons
    <2>6. faults \in 0..MaxFaults
      BY LimitKnown DEF Init
    <2> QED BY <2>1, <2>2, <2>3, <2>4, <2>5, <2>6 DEF Init, TypedTasks, TypedWorld
  <1>3. TypeOK /\ [Next]_vars => TypeOK'
    <2> SUFFICES ASSUME TypedTasks, TypedWorld, [Next]_vars PROVE TypedTasks' /\ TypedWorld'
      BY DEF TypeOK, TypedTasks, TypedWorld, Fates
    <2>1. CASE Working
      BY <2>1, WorkingTyped, WorkingWorldTyped
    <2>2. ASSUME NEW p \in Daemons, Happens(p) \/ Crash(p) \/ Hang(p) \/ Recover(p)
          PROVE  TypedTasks' /\ TypedWorld'
      BY <2>2, ProcessTyped DEF Supervision, TypedTasks
    <2>3. CASE UNCHANGED vars
      BY <2>3 DEF vars, TypedTasks, TypedWorld
    <2> QED BY <2>1, <2>2, <2>3 DEF Next
  <1> QED BY <1>2, <1>3, PTL DEF Spec

-----------------------------------------------------------------------------
Attempting == {"check", "accept", "spawn", "register"}

\* A task that touches none of the fields, and was neither the pending restart
\* nor the attempt that they name, or still is the attempt.
LEMMA LinkedKept ==
    ASSUME TypedTasks, Linked, UNCHANGED <<machine, inner, current>>,
           NEW t \in Tasks, NEW place, Goto(t, place),
           pc[t] = "waiting" => ~inner.deadline \/ current.timer # t,
           pc[t] \in Attempting => current.attempt # t \/ place \in Attempting
    PROVE  Linked'
  <1>1. ChildIsWatched' /\ OneAtATime'
    BY DEF Linked, ChildIsWatched, OneAtATime
  <1>2. WaitHasTimer'
    BY DEF Linked, WaitHasTimer, Goto, TypedTasks
  <1>3. SpawningEnds'
    BY DEF Linked, SpawningEnds, Goto, TypedTasks, Attempting
  <1> QED BY <1>1, <1>2, <1>3 DEF Linked

\* A failure ends the child and the attempt, and one restart is pending.
LEMMA FailureLinked ==
    ASSUME TypedTasks, Linked, NEW next \in Inners, NEW at \in [Tasks -> Places],
           next.child = NoPid, ~next.spawning, machine.stop => ~next.deadline,
           FailThenSchedule(next, at)
    PROVE  Linked'
  <1>1. machine' = Failed(machine)
    BY DEF FailThenSchedule
  <1>2. /\ machine'.owned = NoPid /\ machine'.stop = machine.stop
        /\ machine'.phase = IF machine.stop THEN "Stopped" ELSE "RestartWaiting"
    BY <1>1 DEF Failed, TypedTasks, Machines
  <1>3. CASE machine.stop
    <2>1. inner' = next /\ current' = NewGeneration
      BY <1>3 DEF FailThenSchedule
    <2> QED
      BY <1>2, <1>3, <2>1
      DEF Linked, ChildIsWatched, WaitHasTimer, SpawningEnds, OneAtATime, NewGeneration
  <1>4. CASE ~machine.stop
    <2>1. PICK n \in Timers :
            /\ current' = [NewGeneration EXCEPT !.timer = n]
            /\ inner' = [next EXCEPT !.deadline = TRUE]
            /\ pc' = [at EXCEPT ![n] = "waiting"]
      BY <1>4 DEF FailThenSchedule
    <2>2. n \in Tasks /\ n # Nobody
      BY TasksApart
    <2>3. /\ inner'.child = NoPid /\ ~inner'.spawning /\ inner'.deadline
          /\ current'.watch = NoPid /\ current'.attempt = Nobody /\ current'.timer = n
          /\ pc'[n] = "waiting"
      BY <2>1, <2>2 DEF Inners, NewGeneration
    <2> QED
      BY <1>2, <1>4, <2>2, <2>3
      DEF Linked, ChildIsWatched, WaitHasTimer, SpawningEnds, OneAtATime
  <1> QED BY <1>3, <1>4

LEMMA ObservedEffect ==
    ASSUME NEW m \in Machines, NEW healthy \in BOOLEAN
    PROVE  /\ Observed(m, healthy).owned = m.owned
           /\ Observed(m, healthy).stop = m.stop
           /\ m.stop => Observed(m, healthy) = m
           /\ ~m.stop /\ healthy => Observed(m, healthy).phase \in {"OwnedHealthy", "ExternalHealthy"}
           /\ ~m.stop /\ ~healthy =>
                (Observed(m, healthy).phase = "RestartWaiting" <=> m.phase = "RestartWaiting")
  <1>1. CASE m.stop
    BY <1>1 DEF Observed
  <1>2. CASE ~m.stop /\ healthy
    <2>1. Observed(m, healthy) =
            [m EXCEPT !.unhealthy = 0,
                      !.phase = IF m.owned # NoPid THEN "OwnedHealthy" ELSE "ExternalHealthy"]
      BY <1>2 DEF Observed
    <2> QED BY <1>2, <2>1 DEF Machines
  <1>3. CASE ~m.stop /\ ~healthy
    <2>1. Observed(m, healthy) =
            [m EXCEPT !.unhealthy = (m.unhealthy + 1) % UnhealthyProbeLimit,
                      !.phase = IF m.phase = "RestartWaiting" THEN m.phase ELSE "Unhealthy"]
      BY <1>3 DEF Observed
    <2> QED BY <1>3, <2>1 DEF Machines
  <1> QED BY <1>1, <1>2, <1>3

LEMMA ObserveLinked ==
    ASSUME TypedTasks, Linked, NEW t \in Tasks, Observe(t)
    PROVE  Linked'
  <1>1. local[t].healthy \in BOOLEAN /\ machine \in Machines
    BY DEF TypedTasks, Locals
  <1>2. machine' = Observed(machine, local[t].healthy)
    BY DEF Observe
  <1>3. /\ machine'.owned = machine.owned /\ machine'.stop = machine.stop
        /\ machine.stop => machine' = machine
        /\ ~machine.stop /\ local[t].healthy => machine'.phase # "RestartWaiting"
        /\ ~machine.stop /\ ~local[t].healthy =>
              (machine'.phase = "RestartWaiting" <=> machine.phase = "RestartWaiting")
    BY <1>1, <1>2, ObservedEffect
  <1>4. \A u \in Tasks : pc[u] \in Attempting \cup {"waiting"} => pc'[u] = pc[u]
    BY DEF Observe, Goto, TypedTasks, Attempting
  <1>5. CASE Overtaken(local[t].healthy)
    <2>1. inner' = [inner EXCEPT !.deadline = FALSE] /\ current' = NewGeneration
      BY <1>5 DEF Observe
    <2>2. /\ ~inner'.deadline /\ inner'.child = NoPid /\ ~inner'.spawning
          /\ current'.watch = NoPid /\ current'.attempt = Nobody
      BY <1>5, <2>1 DEF Overtaken, Linked, OneAtATime, NewGeneration, TypedTasks, Inners
    <2>3. machine.phase = "RestartWaiting" /\ machine.owned = NoPid
      BY <1>5 DEF Overtaken, Linked, WaitHasTimer, ChildIsWatched
    <2>4. ~machine.stop /\ local[t].healthy
      BY <1>5, <2>3 DEF Overtaken, Linked, OneAtATime
    <2> QED
      BY <1>3, <2>2, <2>3, <2>4
      DEF Linked, ChildIsWatched, WaitHasTimer, SpawningEnds, OneAtATime
  <1>6. CASE ~Overtaken(local[t].healthy)
    <2>1. inner' = inner /\ current' = current
      BY <1>6 DEF Observe
    <2>2. ~machine.stop /\ local[t].healthy => ~inner.deadline
      BY <1>6 DEF Overtaken, Linked, OneAtATime
    <2>3. ChildIsWatched' /\ OneAtATime'
      BY <1>3, <2>1 DEF Linked, ChildIsWatched, OneAtATime
    <2>4. machine'.phase = "RestartWaiting" <=> inner'.deadline
      BY <1>3, <2>1, <2>2 DEF Linked, WaitHasTimer
    <2>5. inner.deadline => current.timer \in Tasks
      BY TasksApart DEF TypedTasks, Currents, Linked, WaitHasTimer
    <2>6. WaitHasTimer'
      BY <1>4, <2>1, <2>4, <2>5 DEF Linked, WaitHasTimer
    <2>7. inner.spawning => current.attempt \in Tasks
      BY DEF TypedTasks, Currents, Linked, SpawningEnds
    <2>8. SpawningEnds'
      BY <1>4, <2>1, <2>7 DEF Linked, SpawningEnds, Attempting
    <2> QED BY <2>3, <2>6, <2>8 DEF Linked
  <1> QED BY <1>5, <1>6

\* The three attempts to become the one that spawns.
LEMMA EnsureLinked ==
    ASSUME TypedTasks, Linked, NEW t \in Tasks, Ensure(t)
    PROVE  Linked'
  <1>1. CASE machine.stop \/ inner.child # NoPid \/ inner.spawning
             \/ (~local[t].bypass /\ machine.phase = "RestartWaiting")
    <2>1. UNCHANGED <<machine, inner, current>> /\ Goto(t, Rest(t)) /\ pc[t] = "ensure"
      BY <1>1 DEF Ensure
    <2> QED BY <2>1, LinkedKept DEF Attempting
  <1>2. CASE ~(machine.stop \/ inner.child # NoPid \/ inner.spawning
               \/ (~local[t].bypass /\ machine.phase = "RestartWaiting"))
    <2>1. /\ current' = [NewGeneration EXCEPT !.attempt = t]
          /\ inner' = [inner EXCEPT !.spawning = TRUE, !.deadline = FALSE]
          /\ machine' = Checking(machine) /\ pc' = [pc EXCEPT ![t] = "check"]
      BY <1>2 DEF Ensure, Goto
    <2>2. /\ current'.watch = NoPid /\ current'.attempt = t
          /\ inner'.child = NoPid /\ inner'.spawning /\ ~inner'.deadline
      BY <1>2, <2>1 DEF NewGeneration, TypedTasks, Inners
    <2>3. /\ machine'.owned = machine.owned /\ machine'.phase = "Checking"
          /\ machine'.stop = machine.stop
      BY <1>2, <2>1 DEF Checking, TypedTasks, Machines
    <2>4. t # Nobody /\ pc'[t] = "check"
      BY <2>1, TasksApart DEF TypedTasks
    <2> QED
      BY <1>2, <2>2, <2>3, <2>4
      DEF Linked, ChildIsWatched, WaitHasTimer, SpawningEnds, OneAtATime
  <1> QED BY <1>1, <1>2

LEMMA AcceptLinked ==
    ASSUME TypedTasks, Linked, NEW t \in Tasks, Accept(t)
    PROVE  Linked'
  <1>1. CASE current.attempt = t /\ inner.spawning
    <2>1. /\ machine' = Observed(machine, TRUE)
          /\ inner' = [inner EXCEPT !.spawning = FALSE]
          /\ current' = [current EXCEPT !.attempt = Nobody]
      BY <1>1 DEF Accept
    <2>2. ~machine.stop /\ ~inner.deadline /\ inner.child = NoPid
      BY <1>1 DEF Linked, OneAtATime
    <2>3. /\ ~inner'.spawning /\ ~inner'.deadline /\ inner'.child = NoPid
          /\ current'.attempt = Nobody /\ current'.watch = current.watch
      BY <2>1, <2>2 DEF TypedTasks, Inners, Currents
    <2>4. /\ machine'.owned = machine.owned /\ machine'.stop = machine.stop
          /\ machine'.phase # "RestartWaiting"
      BY <2>1, <2>2, ObservedEffect DEF TypedTasks
    <2> QED
      BY <2>2, <2>3, <2>4
      DEF Linked, ChildIsWatched, WaitHasTimer, SpawningEnds, OneAtATime
  <1>2. CASE ~(current.attempt = t /\ inner.spawning)
    <2>1. UNCHANGED <<machine, inner, current>> /\ Goto(t, Rest(t)) /\ pc[t] = "accept"
      BY <1>2 DEF Accept
    <2>2. current.attempt # t
      BY <1>2, TasksApart DEF Linked, OneAtATime
    <2> QED BY <2>1, <2>2, LinkedKept
  <1> QED BY <1>1, <1>2

LEMMA RegisterChildLinked ==
    ASSUME TypedTasks, Linked, NEW t \in Tasks, RegisterChild(t)
    PROVE  Linked'
  <1>1. inner.spawning /\ ~machine.stop /\ ~inner.deadline
    BY DEF RegisterChild, Stale, Linked, OneAtATime
  <1>2. /\ inner'.child = local[t].got /\ ~inner'.spawning /\ ~inner'.deadline
        /\ current'.watch = local[t].got /\ current'.attempt = Nobody
    BY <1>1 DEF RegisterChild, TypedTasks, Inners, Currents
  <1>3. /\ machine'.owned = local[t].got /\ machine'.phase = "Starting"
        /\ machine'.stop = machine.stop
    BY DEF RegisterChild, Spawned, TypedTasks, Machines
  <1> QED
    BY <1>1, <1>2, <1>3
    DEF Linked, ChildIsWatched, WaitHasTimer, SpawningEnds, OneAtATime

LEMMA FireLinked ==
    ASSUME TypedTasks, Linked, NEW t \in Tasks, Fire(t)
    PROVE  Linked'
  <1>1. CASE current.timer # t \/ machine.stop \/ machine.phase # "RestartWaiting"
    <2>1. UNCHANGED <<machine, inner, current>> /\ Goto(t, "free") /\ pc[t] = "waiting"
      BY <1>1 DEF Fire
    <2>2. ~inner.deadline \/ current.timer # t
      BY <1>1 DEF Linked, WaitHasTimer, OneAtATime
    <2> QED BY <2>1, <2>2, LinkedKept DEF Attempting
  <1>2. CASE ~(current.timer # t \/ machine.stop \/ machine.phase # "RestartWaiting")
    <2>1. /\ inner' = [inner EXCEPT !.deadline = FALSE]
          /\ machine' = Checking(machine)
          /\ current' = [current EXCEPT !.timer = Nobody]
      BY <1>2 DEF Fire
    <2>2. inner.deadline /\ inner.child = NoPid /\ ~inner.spawning
      BY <1>2 DEF Linked, WaitHasTimer, OneAtATime
    <2>3. /\ ~inner'.deadline /\ inner'.child = NoPid /\ ~inner'.spawning
          /\ current'.watch = current.watch /\ current'.attempt = current.attempt
      BY <2>1, <2>2 DEF TypedTasks, Inners, Currents
    <2>4. /\ machine'.owned = machine.owned /\ machine'.phase = "Checking"
          /\ machine'.stop = machine.stop
      BY <1>2, <2>1 DEF Checking, TypedTasks, Machines
    <2> QED
      BY <1>2, <2>2, <2>3, <2>4
      DEF Linked, ChildIsWatched, WaitHasTimer, SpawningEnds, OneAtATime
  <1> QED BY <1>1, <1>2

\* restart and shutdown leave nothing behind.
LEMMA ClearedLinked ==
    ASSUME TypedTasks, current' = NewGeneration,
           inner' = [child |-> NoPid, spawning |-> FALSE, deadline |-> FALSE],
           machine' = Restarted(machine) \/ machine' = ShutDown(machine)
    PROVE  Linked'
  <1>1. /\ machine'.owned = NoPid /\ machine'.phase # "RestartWaiting"
        /\ machine'.stop => machine'.phase = "Stopped"
    BY DEF Restarted, ShutDown, TypedTasks, Machines
  <1> QED
    BY <1>1
    DEF Linked, ChildIsWatched, WaitHasTimer, SpawningEnds, OneAtATime, NewGeneration

LEMMA WorkingLinked ==
    ASSUME TypedTasks, Linked, Working
    PROVE  Linked'
  <1>1. ASSUME NEW t \in Tasks, Step(t) PROVE Linked'
    <2>1. CASE Probe(t)
      BY <2>1, LinkedKept DEF Probe, Attempting
    <2>2. CASE Observe(t)
      BY <2>2, ObserveLinked
    <2>3. CASE Replace(t)
      <3>1. CASE inner.child = NoPid
        BY <2>3, <3>1, LinkedKept DEF Replace, Attempting
      <3>2. CASE inner.child # NoPid
        <4> DEFINE next == [inner EXCEPT !.child = NoPid]
                   at == [pc EXCEPT ![t] = "kill"]
        <4>1. next \in Inners /\ at \in [Tasks -> Places]
          BY DEF TypedTasks, Inners, Places
        <4>2. next.child = NoPid /\ ~next.spawning /\ (machine.stop => ~next.deadline)
          BY <3>2 DEF Linked, OneAtATime, TypedTasks, Inners
        <4>3. FailThenSchedule(next, at)
          BY <2>3, <3>2 DEF Replace
        <4> QED BY <4>1, <4>2, <4>3, FailureLinked
      <3> QED BY <3>1, <3>2
    <2>4. CASE Kill(t)
      <3>1. PICK place : Goto(t, place)
        BY <2>4 DEF Kill
      <3> QED BY <2>4, <3>1, LinkedKept DEF Kill, Attempting
    <2>5. CASE Ensure(t)
      BY <2>5, EnsureLinked
    <2>6. CASE Check(t)
      <3>1. PICK healthy \in Answers : Goto(t, IF healthy THEN "accept" ELSE "spawn")
        BY <2>6 DEF Check
      <3> QED BY <2>6, <3>1, LinkedKept DEF Check, Attempting
    <2>7. CASE Accept(t)
      BY <2>7, AcceptLinked
    <2>8. CASE Spawn(t)
      BY <2>8, LinkedKept DEF Spawn, Attempting
    <2>9. CASE RegisterStale(t)
      <3>1. PICK place : Goto(t, place)
        BY <2>9 DEF RegisterStale
      <3>2. current.attempt # t
        BY <2>9, TasksApart DEF RegisterStale, Stale, Linked, OneAtATime
      <3> QED BY <2>9, <3>1, <3>2, LinkedKept DEF RegisterStale
    <2>10. CASE RegisterChild(t)
      BY <2>10, RegisterChildLinked
    <2>11. CASE RegisterFailure(t)
      <3> DEFINE next == [inner EXCEPT !.spawning = FALSE]
                 at == [pc EXCEPT ![t] = Rest(t)]
      <3>1. next \in Inners /\ at \in [Tasks -> Places]
        BY RestTyped DEF TypedTasks, Inners, Places
      <3>2. next.child = NoPid /\ ~next.spawning /\ (machine.stop => ~next.deadline)
        BY <2>11 DEF RegisterFailure, Stale, Linked, OneAtATime, TypedTasks, Inners
      <3>3. FailThenSchedule(next, at)
        BY <2>11 DEF RegisterFailure
      <3> QED BY <3>1, <3>2, <3>3, FailureLinked
    <2>12. CASE Fire(t)
      BY <2>12, FireLinked
    <2> QED
      BY <1>1, <2>1, <2>2, <2>3, <2>4, <2>5, <2>6, <2>7, <2>8, <2>9, <2>10, <2>11, <2>12
      DEF Step
  <1>2. CASE Wake
    <2>1. PICK place : Goto(Monitor, place)
      BY <1>2 DEF Wake
    <2> QED BY <1>2, <2>1, TasksApart, LinkedKept DEF Wake, Attempting
  <1>3. CASE Exit
    BY <1>3 DEF Exit, Linked, ChildIsWatched, WaitHasTimer, SpawningEnds, OneAtATime
  <1>4. CASE Shutdown
    BY <1>4, ClearedLinked DEF Shutdown
  <1>5. ASSUME NEW t \in Tasks, Refresh(t) PROVE Linked'
    BY <1>5, LinkedKept DEF Refresh, Attempting
  <1>6. ASSUME NEW t \in Tasks, Restart(t) PROVE Linked'
    BY <1>6, ClearedLinked DEF Restart
  <1>7. ASSUME NEW p \in Pids, Terminated(p) PROVE Linked'
    <2> DEFINE next == [inner EXCEPT !.child = NoPid]
    <2>1. next \in Inners /\ pc \in [Tasks -> Places]
      BY DEF TypedTasks, Inners
    <2>2. inner.child # NoPid
      BY <1>7, PidsApart DEF Terminated, Linked, ChildIsWatched
    <2>3. next.child = NoPid /\ ~next.spawning /\ (machine.stop => ~next.deadline)
      BY <2>2 DEF Linked, OneAtATime, TypedTasks, Inners
    <2>4. FailThenSchedule(next, pc)
      BY <1>7 DEF Terminated
    <2> QED BY <2>1, <2>3, <2>4, FailureLinked
  <1> QED BY <1>1, <1>2, <1>3, <1>4, <1>5, <1>6, <1>7 DEF Working

-----------------------------------------------------------------------------
\* Task t will register p, or kill it.
Custodian(t, p) ==
    \/ pc[t] = "register" /\ local[t].got = p
    \/ pc[t] = "kill" /\ local[t].victim = p

\* A step of t: the other custodians stay, and what t or the supervisor answered
\* for, one of them still answers for, or it no longer runs.
LEMMA CustodyKept ==
    ASSUME OneChild, NEW t \in Tasks,
           \A p \in Pids : p \in Alive' => p \in Alive \/ Custodian(t, p)',
           \A u \in Tasks \ {t}, p \in Pids : Custodian(u, p) => Custodian(u, p)',
           \A p \in Pids : p \in Alive' /\ (p = inner.child \/ Custodian(t, p))
                             => p = inner'.child \/ Custodian(t, p)'
    PROVE  OneChild'
  BY DEF OneChild, Custodian

\* The common case: t neither starts nor ends being a custodian, and only the
\* place of t changes.
LEMMA CustodyUntouched ==
    ASSUME TypedTasks, OneChild, NEW t \in Tasks,
           NEW place, Goto(t, place), \A p \in Pids : ~Custodian(t, p),
           \A u \in Tasks \ {t} : local'[u] = local[u], inner'.child = inner.child,
           UNCHANGED daemon
    PROVE  OneChild'
  <1>1. \A p \in Pids : p \in Alive' => p \in Alive
    BY DEF Alive
  <1>2. \A u \in Tasks \ {t}, p \in Pids : Custodian(u, p) => Custodian(u, p)'
    BY DEF Custodian, Goto, TypedTasks
  <1> QED BY <1>1, <1>2, CustodyKept

LEMMA FailureCustody ==
    ASSUME NEW next, NEW at \in [Tasks -> Places], FailThenSchedule(next, at),
           next.child = NoPid, next \in Inners
    PROVE  /\ inner'.child = NoPid
           /\ \A u \in Tasks : at[u] \in {"register", "kill"} => pc'[u] = at[u]
  <1>1. CASE machine.stop
    BY <1>1 DEF FailThenSchedule
  <1>2. CASE ~machine.stop
    BY <1>2 DEF FailThenSchedule, Inners
  <1> QED BY <1>1, <1>2

LEMMA StepCustody ==
    ASSUME TypedTasks, TypedWorld, Linked, OneChild, NEW t \in Tasks, Step(t)
    PROVE  OneChild'
  <1>1. CASE Probe(t)
    BY <1>1, CustodyUntouched DEF Probe, World, Custodian, TypedTasks
  <1>2. CASE Observe(t)
    <2>1. PICK place : Goto(t, place)
      BY <1>2 DEF Observe
    <2>2. inner'.child = inner.child
      BY <1>2 DEF Observe, TypedTasks, Inners
    <2> QED BY <1>2, <2>1, <2>2, CustodyUntouched DEF Observe, World, Custodian, TypedTasks
  <1>3. CASE Replace(t)
    <2>1. CASE inner.child = NoPid
      BY <1>3, <2>1, CustodyUntouched DEF Replace, World, Custodian
    <2>2. CASE inner.child # NoPid
      <3> DEFINE next == [inner EXCEPT !.child = NoPid]
                 at == [pc EXCEPT ![t] = "kill"]
      <3>1. next \in Inners /\ next.child = NoPid /\ at \in [Tasks -> Places]
        BY DEF TypedTasks, Inners, Places
      <3>2. /\ FailThenSchedule(next, at) /\ UNCHANGED daemon /\ pc[t] = "replace"
            /\ local' = [local EXCEPT ![t].victim = inner.child]
        BY <1>3, <2>2 DEF Replace, World
      <3>3. inner'.child = NoPid /\ \A u \in Tasks : at[u] \in {"register", "kill"} => pc'[u] = at[u]
        BY <3>1, <3>2, FailureCustody
      <3>4. ASSUME NEW p \in Pids, p = inner.child PROVE Custodian(t, p)'
        <4>1. pc'[t] = "kill" /\ local'[t].victim = p
          BY <3>2, <3>3, <3>4 DEF TypedTasks, Locals
        <4> QED BY <4>1 DEF Custodian
      <3>5. \A u \in Tasks \ {t}, p \in Pids : Custodian(u, p) => Custodian(u, p)'
        BY <3>2, <3>3 DEF Custodian, TypedTasks
      <3>6. \A p \in Pids : ~Custodian(t, p) /\ (p \in Alive' => p \in Alive)
        BY <3>2 DEF Custodian, Alive
      <3> QED BY <3>4, <3>5, <3>6, CustodyKept
    <2> QED BY <2>1, <2>2
  <1>4. CASE Kill(t)
    <2>1. \A p \in Pids : p \in Alive' => p \in Alive /\ p # local[t].victim
      BY <1>4 DEF Kill, Alive, TypedWorld, Daemons
    <2>2. \A u \in Tasks \ {t}, p \in Pids : Custodian(u, p) => Custodian(u, p)'
      BY <1>4 DEF Kill, Custodian, Goto, TypedTasks
    <2>3. inner' = inner /\ \A p \in Pids : Custodian(t, p) => p = local[t].victim
      BY <1>4 DEF Kill, Custodian
    <2> QED BY <2>1, <2>2, <2>3, CustodyKept
  <1>5. CASE Ensure(t)
    <2>1. PICK place : Goto(t, place)
      BY <1>5 DEF Ensure
    <2>2. inner'.child = inner.child
      BY <1>5 DEF Ensure, TypedTasks, Inners
    <2> QED BY <1>5, <2>1, <2>2, CustodyUntouched DEF Ensure, World, Custodian, TypedTasks
  <1>6. CASE Check(t)
    <2>1. PICK place : Goto(t, place)
      BY <1>6 DEF Check
    <2> QED BY <1>6, <2>1, CustodyUntouched DEF Check, World, Custodian
  <1>7. CASE Accept(t)
    <2>1. inner'.child = inner.child
      BY <1>7 DEF Accept, TypedTasks, Inners
    <2> QED BY <1>7, <2>1, CustodyUntouched DEF Accept, World, Custodian
  <1>8. CASE Spawn(t)
    <2>1. \A u \in Tasks \ {t}, p \in Pids : Custodian(u, p) => Custodian(u, p)'
      BY <1>8 DEF Spawn, Custodian, Goto, TypedTasks
    <2>2. inner' = inner /\ \A p \in Pids : ~Custodian(t, p)
      BY <1>8 DEF Spawn, Custodian
    <2>3. ASSUME NEW p \in Pids, p \in Alive', p \notin Alive PROVE Custodian(t, p)'
      <3>1. PICK q \in Pids : /\ daemon' = [daemon EXCEPT ![q] = "starting"]
                              /\ local' = [local EXCEPT ![t].got = q]
        BY <1>8, <2>3 DEF Spawn, Alive
      <3>2. p = q
        BY <2>3, <3>1 DEF Alive, TypedWorld
      <3>3. pc'[t] = "register" /\ local'[t].got = q
        BY <1>8, <3>1 DEF Spawn, Goto, TypedTasks, Locals
      <3> QED BY <3>2, <3>3 DEF Custodian
    <2> QED BY <2>1, <2>2, <2>3, CustodyKept
  <1>9. CASE RegisterStale(t)
    <2>1. \A p \in Pids : p \in Alive' => p \in Alive
      BY <1>9 DEF RegisterStale, World, Alive
    <2>2. \A u \in Tasks \ {t}, p \in Pids : Custodian(u, p) => Custodian(u, p)'
      BY <1>9 DEF RegisterStale, Custodian, Goto, TypedTasks
    <2>3. ASSUME NEW p \in Pids, Custodian(t, p) PROVE Custodian(t, p)'
      <3>1. local[t].got = p /\ p # NoPid
        BY <1>9, <2>3, PidsApart DEF RegisterStale, Custodian
      <3>2. pc'[t] = "kill" /\ local'[t].victim = p
        BY <1>9, <3>1 DEF RegisterStale, Goto, TypedTasks, Locals
      <3> QED BY <3>2 DEF Custodian
    <2>4. inner' = inner
      BY <1>9 DEF RegisterStale
    <2> QED BY <2>1, <2>2, <2>3, <2>4, CustodyKept
  <1>10. CASE RegisterChild(t)
    <2>1. \A p \in Pids : p \in Alive' => p \in Alive
      BY <1>10 DEF RegisterChild, World, Alive
    <2>2. \A u \in Tasks \ {t}, p \in Pids : Custodian(u, p) => Custodian(u, p)'
      BY <1>10 DEF RegisterChild, Custodian, Goto, TypedTasks
    <2>3. inner.child = NoPid /\ inner'.child = local[t].got
      BY <1>10 DEF RegisterChild, Stale, Linked, OneAtATime, TypedTasks, Inners
    <2>4. \A p \in Pids : Custodian(t, p) => p = local[t].got
      BY <1>10 DEF RegisterChild, Custodian
    <2> QED BY <2>1, <2>2, <2>3, <2>4, PidsApart, CustodyKept
  <1>11. CASE RegisterFailure(t)
    <2> DEFINE next == [inner EXCEPT !.spawning = FALSE]
               at == [pc EXCEPT ![t] = Rest(t)]
    <2>1. next \in Inners /\ at \in [Tasks -> Places]
      BY RestTyped DEF TypedTasks, Inners, Places
    <2>2. inner.child = NoPid /\ next.child = NoPid
      BY <1>11 DEF RegisterFailure, Stale, Linked, OneAtATime, TypedTasks, Inners
    <2>3. FailThenSchedule(next, at) /\ local' = local /\ UNCHANGED daemon
      BY <1>11 DEF RegisterFailure, World
    <2>4. inner'.child = NoPid /\ \A u \in Tasks : at[u] \in {"register", "kill"} => pc'[u] = at[u]
      BY <2>1, <2>2, <2>3, FailureCustody
    <2>5. \A u \in Tasks \ {t}, p \in Pids : Custodian(u, p) => Custodian(u, p)'
      BY <2>3, <2>4 DEF Custodian, TypedTasks
    <2>6. \A p \in Pids : ~Custodian(t, p) /\ p # inner.child /\ (p \in Alive' => p \in Alive)
      BY <1>11, <2>2, <2>3, PidsApart DEF RegisterFailure, Custodian, Alive
    <2> QED BY <2>5, <2>6, CustodyKept
  <1>12. CASE Fire(t)
    <2>1. PICK place : Goto(t, place)
      BY <1>12 DEF Fire
    <2>2. inner'.child = inner.child
      BY <1>12 DEF Fire, TypedTasks, Inners
    <2> QED BY <1>12, <2>1, <2>2, CustodyUntouched DEF Fire, World, Custodian, TypedTasks
  <1> QED
    BY <1>1, <1>2, <1>3, <1>4, <1>5, <1>6, <1>7, <1>8, <1>9, <1>10, <1>11, <1>12 DEF Step

LEMMA WorkingCustody ==
    ASSUME TypedTasks, TypedWorld, Linked, OneChild, Working
    PROVE  OneChild'
  <1>1. ASSUME NEW t \in Tasks, Step(t) PROVE OneChild'
    BY <1>1, StepCustody
  <1>2. CASE Wake
    <2>1. PICK place : Goto(Monitor, place)
      BY <1>2 DEF Wake
    <2> QED BY <1>2, <2>1, TasksApart, CustodyUntouched DEF Wake, World, Custodian
  <1>3. CASE Exit
    BY <1>3 DEF Exit, OneChild, Alive
  <1>4. ASSUME NEW t \in Tasks, Refresh(t) PROVE OneChild'
    BY <1>4, CustodyUntouched DEF Refresh, World, Custodian
  <1>5. ASSUME NEW t \in Tasks, pc[t] \in {"idle", "done"}, UNCHANGED daemon,
               Goto(t, IF inner.child = NoPid THEN "done" ELSE "kill")
                 \/ Goto(t, IF inner.child = NoPid THEN "ensure" ELSE "kill"),
               \A u \in Tasks \ {t} : local'[u] = local[u],
               local'[t].victim = inner.child
        PROVE  OneChild'
    <2>1. \A p \in Pids : ~Custodian(t, p) /\ (p \in Alive' => p \in Alive)
      BY <1>5 DEF Custodian, Alive
    <2>2. \A u \in Tasks \ {t}, p \in Pids : Custodian(u, p) => Custodian(u, p)'
      BY <1>5 DEF Custodian, Goto, TypedTasks
    <2>3. ASSUME NEW p \in Pids, p = inner.child PROVE Custodian(t, p)'
      <3>1. pc'[t] = "kill"
        BY <1>5, <2>3, PidsApart DEF Goto, TypedTasks
      <3> QED BY <1>5, <2>3, <3>1 DEF Custodian
    <2> QED BY <2>1, <2>2, <2>3, CustodyKept
  <1>6. CASE Shutdown
    BY <1>5, <1>6, TasksApart DEF Shutdown, TypedTasks, Locals
  <1>7. ASSUME NEW t \in Tasks, Restart(t) PROVE OneChild'
    BY <1>5, <1>7 DEF Restart, World, TypedTasks, Locals
  <1>8. ASSUME NEW p \in Pids, Terminated(p) PROVE OneChild'
    <2> DEFINE next == [inner EXCEPT !.child = NoPid]
    <2>1. next \in Inners /\ next.child = NoPid /\ pc \in [Tasks -> Places]
      BY DEF TypedTasks, Inners
    <2>2. \A u \in Tasks : pc[u] \in {"register", "kill"} => pc'[u] = pc[u]
      BY <1>8, <2>1, FailureCustody DEF Terminated
    <2>3. inner.child = p /\ p \notin Alive /\ UNCHANGED <<local, daemon>>
      BY <1>8 DEF Terminated, World, Alive, Linked, ChildIsWatched
    <2> QED BY <2>2, <2>3 DEF OneChild, Alive
  <1> QED BY <1>1, <1>2, <1>3, <1>4, <1>6, <1>7, <1>8 DEF Working

\* No process begins to run by itself.
LEMMA ProcessCustody ==
    ASSUME OneChild, NEW p \in Daemons, TypedWorld,
           Happens(p) \/ Crash(p) \/ Hang(p) \/ Recover(p)
    PROVE  OneChild'
  <1>1. Supervision
    BY ProcessTyped
  <1>2. PICK fate \in Fates : /\ daemon' = [daemon EXCEPT ![p] = fate]
                              /\ fate \in {"starting", "opening", "up", "hung"} => p \in Alive
    BY DEF Happens, Bind, Opened, BindFails, Reaped, ParentGone, Crash, Hang, Recover, Fates, Alive
  <1>3. \A q \in Pids : q \in Alive' => q \in Alive
    <2> SUFFICES ASSUME NEW q \in Pids, q \in Alive' PROVE q \in Alive
      OBVIOUS
    <2>1. CASE q = p
      BY <1>2, <2>1 DEF Alive, TypedWorld
    <2>2. CASE q # p
      BY <1>2, <2>2 DEF Alive, TypedWorld
    <2> QED BY <2>1, <2>2
  <1> QED BY <1>1, <1>3 DEF OneChild, Supervision

-----------------------------------------------------------------------------
\* The inductive invariant.
Supervised == TypeOK /\ Linked /\ OneChild

\* A sidecar that runs is the supervisor's child, or a task is about to
\* register it or to kill it; the fields that describe the child, the pending
\* restart and the attempt agree with the tasks.
THEOREM SupervisorConsistent == Spec => []Supervised
  <1>1. TypeOK => TypedTasks /\ TypedWorld
    BY DEF TypeOK, TypedTasks, TypedWorld, Fates
  <1>2. Init => Linked /\ OneChild
    <2> SUFFICES ASSUME Init PROVE Linked /\ OneChild
      OBVIOUS
    <2>1. Linked
      BY DEF Init, Linked, ChildIsWatched, WaitHasTimer, SpawningEnds, OneAtATime, NewGeneration
    <2>2. OneChild
      BY PidsApart DEF Init, OneChild, Alive, Daemons
    <2> QED BY <2>1, <2>2
  <1>3. TypeOK /\ Linked /\ OneChild /\ [Next]_vars => Linked' /\ OneChild'
    <2> SUFFICES ASSUME TypedTasks, TypedWorld, Linked, OneChild, [Next]_vars
                 PROVE  Linked' /\ OneChild'
      BY <1>1
    <2>1. CASE Working
      BY <2>1, WorkingLinked, WorkingCustody
    <2>2. ASSUME NEW p \in Daemons, Happens(p) \/ Crash(p) \/ Hang(p) \/ Recover(p)
          PROVE  Linked' /\ OneChild'
      <3>1. Supervision
        BY <2>2, ProcessTyped
      <3>2. Linked'
        BY <3>1
        DEF Supervision, Linked, ChildIsWatched, WaitHasTimer, SpawningEnds, OneAtATime
      <3> QED BY <2>2, <3>2, ProcessCustody
    <2>3. CASE UNCHANGED vars
      BY <2>3
      DEF vars, Linked, ChildIsWatched, WaitHasTimer, SpawningEnds, OneAtATime, OneChild, Alive
    <2> QED BY <2>1, <2>2, <2>3 DEF Next
  <1> QED BY <1>2, <1>3, SupervisorTypeCorrect, PTL DEF Spec, Supervised

\* Never a sidecar that runs and that nobody answers for.
THEOREM OneChildAlways == Spec => []OneChild
  <1>1. Supervised => OneChild
    BY DEF Supervised
  <1> QED BY <1>1, SupervisorConsistent, PTL

\* The end of the child is never taken for somebody else's.
THEOREM ChildIsAlwaysWatched == Spec => []ChildIsWatched
  <1>1. Supervised => ChildIsWatched
    BY DEF Supervised, Linked
  <1> QED BY <1>1, SupervisorConsistent, PTL

\* A restart is announced exactly while a task sleeps that will make it.
THEOREM WaitAlwaysHasTimer == Spec => []WaitHasTimer
  <1>1. Supervised => WaitHasTimer
    BY DEF Supervised, Linked
  <1> QED BY <1>1, SupervisorConsistent, PTL

\* Whoever raised `spawning` is there to lower it.
THEOREM SpawningAlwaysEnds == Spec => []SpawningEnds
  <1>1. Supervised => SpawningEnds
    BY DEF Supervised, Linked
  <1> QED BY <1>1, SupervisorConsistent, PTL
===============================================================================
