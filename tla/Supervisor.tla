------------------------------ MODULE Supervisor ------------------------------
(***************************************************************************)
(* DaemonSupervisor, the part of the desktop process that keeps one woof_d *)
(* running.  Four kinds of tasks work on one Mutex:                        *)
(*                                                                         *)
(*   Monitor   ensure_running, then probe_and_act every two seconds        *)
(*   Callers   the daemon_health command: refresh or restart               *)
(*   Timers    schedule_restart, asleep for the backoff delay              *)
(*   Quitter   shutdown, from the tray or from RunEvent::Exit              *)
(*                                                                         *)
(* Each health probe, each spawn and each kill happens outside the Mutex.  *)
(* `generation` is only ever compared with the number that a task took     *)
(* with it; the model keeps, instead of the number, who holds the current  *)
(* one, and a new generation takes it away from all of them.               *)
(***************************************************************************)
EXTENDS Integers, FiniteSets

CONSTANTS
    Monitor,
    Quitter,
    Callers,               \* daemon_health commands, each issued once
    Timers,                \* bound: restarts in flight
    Pids,                  \* bound: sidecars that have not been reaped
    MaxFaults,             \* bound: crashes, hangs and failed spawns
    UnhealthyProbeLimit    \* UNHEALTHY_PROBE_LIMIT, 3 in the code

ASSUME LimitKnown == UnhealthyProbeLimit \in Nat \ {0} /\ MaxFaults \in Nat
ASSUME SupervisorTasksDistinct ==
    /\ Monitor # Quitter
    /\ Callers \cap (Timers \cup {Monitor, Quitter}) = {}
    /\ Timers \cap {Monitor, Quitter} = {}
    /\ "nobody" \notin Callers \cup Timers \cup {Monitor, Quitter}
ASSUME PidsKnown == Pids \subseteq Nat \ {0}

Tasks == {Monitor, Quitter} \cup Callers \cup Timers
NoPid == 0
\* A daemon that this desktop process did not spawn.
External == -1
Daemons == Pids \cup {External}

VARIABLES
    machine,   \* SupervisorMachine
    inner,     \* SupervisorInner: child, spawning, restart_deadline
    current,   \* who holds the current generation
    pc,
    local,     \* per task: [bypass, healthy, got, victim]
    daemon,    \* what has become of each process
    holder,    \* the process that listens on the daemon's port
    faults,
    app        \* the desktop process itself

vars == <<machine, inner, current, pc, local, daemon, holder, faults, app>>

SupervisorPhases == {"Stopped", "Checking", "Starting", "OwnedHealthy", "ExternalHealthy",
                     "Unhealthy", "RestartWaiting"}
Machines == [phase : SupervisorPhases, owned : Pids \cup {NoPid},
             unhealthy : 0..(UnhealthyProbeLimit - 1), stop : BOOLEAN]
Inners == [child : Pids \cup {NoPid}, spawning : BOOLEAN, deadline : BOOLEAN]
Nobody == "nobody"
Currents == [timer : Timers \cup {Nobody}, watch : Pids \cup {NoPid},
             attempt : Tasks \cup {Nobody}]
Locals == [bypass : BOOLEAN, healthy : BOOLEAN,
           got : Pids \cup {NoPid}, victim : Pids \cup {NoPid}]

NewGeneration == [timer |-> Nobody, watch |-> NoPid, attempt |-> Nobody]

Init ==
    /\ machine = [phase |-> "Stopped", owned |-> NoPid, unhealthy |-> 0, stop |-> FALSE]
    /\ inner = [child |-> NoPid, spawning |-> FALSE, deadline |-> FALSE]
    /\ current = NewGeneration
    /\ pc = [t \in Tasks |-> IF t = Monitor THEN "ensure"
                             ELSE IF t \in Timers THEN "free" ELSE "idle"]
    /\ local = [t \in Tasks |-> [bypass |-> t = Monitor, healthy |-> FALSE,
                                 got |-> NoPid, victim |-> NoPid]]
    /\ \E external \in {"gone", "up", "hung"} :
          daemon = [p \in Daemons |-> IF p = External THEN external ELSE "gone"]
    /\ holder = IF daemon[External] = "gone" THEN NoPid ELSE External
    /\ faults = 0
    /\ app = "running"

-----------------------------------------------------------------------------
(***************************************************************************)
(* SupervisorMachine.                                                      *)
(***************************************************************************)
\* begin_check
Checking(m) == IF m.stop THEN m ELSE [m EXCEPT !.phase = "Checking"]

\* spawned
Spawned(m, p) == [m EXCEPT !.phase = "Starting", !.owned = p, !.unhealthy = 0]

\* The streak is not started again at the limit.
ObservedEndless(m, healthy) ==
    IF m.stop \/ healthy THEN m ELSE [m EXCEPT !.unhealthy = @ + 1, !.phase = "Unhealthy"]

\* A pending restart is forgotten when the daemon does not answer.
ObservedForgetful(m, healthy) ==
    CASE m.stop -> m
      [] ~m.stop /\ healthy ->
            [m EXCEPT !.unhealthy = 0,
                      !.phase = IF m.owned # NoPid THEN "OwnedHealthy" ELSE "ExternalHealthy"]
      [] ~m.stop /\ ~healthy ->
            [m EXCEPT !.unhealthy = (@ + 1) % UnhealthyProbeLimit, !.phase = "Unhealthy"]

\* observe_health
Observed(m, healthy) ==
    CASE m.stop -> m
      [] ~m.stop /\ healthy ->
            [m EXCEPT !.unhealthy = 0,
                      !.phase = IF m.owned # NoPid THEN "OwnedHealthy" ELSE "ExternalHealthy"]
      [] ~m.stop /\ ~healthy ->
            [m EXCEPT !.unhealthy = (@ + 1) % UnhealthyProbeLimit,
                      !.phase = IF @ = "RestartWaiting" THEN @ ELSE "Unhealthy"]

\* ProbeAction
Decided(m, healthy) ==
    IF m.stop \/ healthy \/ m.unhealthy + 1 < UnhealthyProbeLimit THEN "None"
    ELSE IF m.owned # NoPid THEN "RestartOwned"
    ELSE IF m.phase = "RestartWaiting" THEN "None"
    ELSE "Spawn"

\* record_failure
Failed(m) ==
    [m EXCEPT !.owned = NoPid, !.unhealthy = 0,
              !.phase = IF m.stop THEN "Stopped" ELSE "RestartWaiting"]

\* prepare_manual_restart
Restarted(m) ==
    [m EXCEPT !.stop = FALSE, !.phase = "Checking", !.owned = NoPid, !.unhealthy = 0]

\* begin_shutdown
ShutDown(m) ==
    [m EXCEPT !.stop = TRUE, !.phase = "Stopped", !.owned = NoPid, !.unhealthy = 0]

-----------------------------------------------------------------------------
Alive == {p \in Daemons : daemon[p] \in {"starting", "opening", "up", "hung"}}

\* What a health probe may return.  A process that was killed may answer until
\* it is gone.
Answers ==
    IF holder = NoPid THEN {FALSE}
    ELSE CASE daemon[holder] = "up"     -> {TRUE}
           [] daemon[holder] = "killed" -> BOOLEAN
           [] OTHER                     -> {FALSE}

Rest(t) == IF t = Monitor THEN "sleep" ELSE IF t \in Timers THEN "free" ELSE "done"
Goto(t, place) == pc' = [pc EXCEPT ![t] = place]
World == UNCHANGED <<daemon, holder, faults, app>>

\* record_failure and schedule_restart, in a new generation: the places become
\* `at`, and one more task sleeps, unless the machine was shut down.
FailThenSchedule(next, at) ==
    /\ machine' = Failed(machine)
    /\ IF machine.stop
       THEN current' = NewGeneration /\ inner' = next /\ pc' = at
       ELSE \E n \in {m \in Timers : at[m] = "free"} :
            /\ current' = [NewGeneration EXCEPT !.timer = n]
            /\ inner' = [next EXCEPT !.deadline = TRUE]
            /\ pc' = [at EXCEPT ![n] = "waiting"]

-----------------------------------------------------------------------------
(***************************************************************************)
(* probe_and_act: Monitor, and a caller that refreshes.                    *)
(***************************************************************************)
\* monitor
Wake ==
    /\ pc[Monitor] = "sleep"
    /\ Goto(Monitor, IF machine.stop THEN "ended" ELSE "probe")
    /\ UNCHANGED <<machine, inner, current, local>> /\ World

Refresh(t) ==
    /\ pc[t] = "idle" /\ t \in Callers
    /\ Goto(t, "probe")
    /\ UNCHANGED <<machine, inner, current, local>> /\ World

Probe(t) ==
    /\ pc[t] = "probe"
    /\ \E healthy \in Answers : local' = [local EXCEPT ![t].healthy = healthy]
    /\ Goto(t, "observe")
    /\ UNCHANGED <<machine, inner, current>> /\ World

\* Every healthy answer takes a new generation.
OvertakenAlways(healthy) == healthy

\* A healthy daemon that is not ours makes a pending restart pointless.
Overtaken(healthy) == healthy /\ inner.child = NoPid /\ inner.deadline

Observe(t) ==
    LET healthy == local[t].healthy
        act == Decided(machine, healthy)
    IN  /\ pc[t] = "observe"
        /\ machine' = Observed(machine, healthy)
        /\ inner' = IF Overtaken(healthy) THEN [inner EXCEPT !.deadline = FALSE] ELSE inner
        /\ current' = IF Overtaken(healthy) THEN NewGeneration ELSE current
        /\ local' = [local EXCEPT ![t].bypass = FALSE, ![t].healthy = FALSE]
        /\ Goto(t, CASE act = "None" -> Rest(t)
                     [] act = "Spawn" -> "ensure"
                     [] act = "RestartOwned" -> "replace")
        /\ World

\* restart_unhealthy
Replace(t) ==
    /\ pc[t] = "replace"
    /\ IF inner.child = NoPid
       THEN Goto(t, Rest(t)) /\ UNCHANGED <<machine, inner, current, local>>
       ELSE /\ local' = [local EXCEPT ![t].victim = inner.child]
            /\ FailThenSchedule([inner EXCEPT !.child = NoPid], [pc EXCEPT ![t] = "kill"])
    /\ World

\* CommandChild::kill, of a child that was taken or came too late.
Kill(t) ==
    /\ pc[t] = "kill"
    /\ daemon' = [daemon EXCEPT ![local[t].victim] = IF @ = "gone" THEN @ ELSE "killed"]
    /\ local' = [local EXCEPT ![t].victim = NoPid]
    /\ Goto(t, IF t \in Callers /\ local[t].bypass THEN "ensure" ELSE Rest(t))
    /\ UNCHANGED <<machine, inner, current, holder, faults, app>>

-----------------------------------------------------------------------------
(***************************************************************************)
(* ensure_running.                                                         *)
(***************************************************************************)
Ensure(t) ==
    /\ pc[t] = "ensure"
    /\ IF \/ machine.stop \/ inner.child # NoPid \/ inner.spawning
          \/ ~local[t].bypass /\ machine.phase = "RestartWaiting"
       THEN Goto(t, Rest(t)) /\ UNCHANGED <<machine, inner, current>>
       ELSE /\ current' = [NewGeneration EXCEPT !.attempt = t]
            /\ inner' = [inner EXCEPT !.spawning = TRUE, !.deadline = FALSE]
            /\ machine' = Checking(machine)
            /\ Goto(t, "check")
    /\ local' = [local EXCEPT ![t].bypass = FALSE]
    /\ World

Check(t) ==
    /\ pc[t] = "check"
    /\ \E healthy \in Answers : Goto(t, IF healthy THEN "accept" ELSE "spawn")
    /\ UNCHANGED <<machine, inner, current, local>> /\ World

Accept(t) ==
    /\ pc[t] = "accept"
    /\ IF current.attempt = t /\ inner.spawning
       THEN /\ inner' = [inner EXCEPT !.spawning = FALSE]
            /\ machine' = Observed(machine, TRUE)
            /\ current' = [current EXCEPT !.attempt = Nobody]
       ELSE UNCHANGED <<inner, machine, current>>
    /\ Goto(t, Rest(t))
    /\ UNCHANGED local /\ World

\* No process the desktop started uses p any more.
Free(p) ==
    /\ daemon[p] = "gone"
    /\ p \notin {inner.child, current.watch}
    /\ \A t \in Tasks : p \notin {local[t].got, local[t].victim}

Spawn(t) ==
    /\ pc[t] = "spawn"
    /\ \/ \E p \in Pids :
             /\ Free(p)
             /\ daemon' = [daemon EXCEPT ![p] = "starting"]
             /\ local' = [local EXCEPT ![t].got = p]
             /\ UNCHANGED faults
       \/ /\ faults < MaxFaults
          /\ faults' = faults + 1
          /\ local' = [local EXCEPT ![t].got = NoPid]
          /\ UNCHANGED daemon
    /\ Goto(t, "register")
    /\ UNCHANGED <<machine, inner, current, holder, app>>

\* The attempt was overtaken by a restart or by the shutdown.
Stale(t) == current.attempt # t \/ ~inner.spawning \/ machine.stop

\* The child that came too late is dropped, which does not end it.
RegisterStaleFaulty(t) ==
    /\ pc[t] = "register"
    /\ Stale(t)
    /\ local' = [local EXCEPT ![t].got = NoPid]
    /\ Goto(t, Rest(t))
    /\ UNCHANGED <<machine, inner, current>> /\ World

RegisterStale(t) ==
    /\ pc[t] = "register"
    /\ Stale(t)
    /\ local' = [local EXCEPT ![t].victim = local[t].got, ![t].got = NoPid]
    /\ Goto(t, IF local[t].got = NoPid THEN Rest(t) ELSE "kill")
    /\ UNCHANGED <<machine, inner, current>> /\ World

RegisterChild(t) ==
    /\ pc[t] = "register"
    /\ ~Stale(t)
    /\ local[t].got # NoPid
    /\ inner' = [inner EXCEPT !.spawning = FALSE, !.child = local[t].got]
    /\ machine' = Spawned(machine, local[t].got)
    /\ current' = [current EXCEPT !.attempt = Nobody, !.watch = local[t].got]
    /\ local' = [local EXCEPT ![t].got = NoPid]
    /\ Goto(t, Rest(t))
    /\ World

\* Only a child that was spawned lowers `spawning`.
RegisterFailureFaulty(t) ==
    /\ pc[t] = "register"
    /\ ~Stale(t)
    /\ local[t].got = NoPid
    /\ FailThenSchedule(inner, [pc EXCEPT ![t] = Rest(t)])
    /\ UNCHANGED local /\ World

RegisterFailure(t) ==
    /\ pc[t] = "register"
    /\ ~Stale(t)
    /\ local[t].got = NoPid
    /\ FailThenSchedule([inner EXCEPT !.spawning = FALSE], [pc EXCEPT ![t] = Rest(t)])
    /\ UNCHANGED local /\ World

\* The task of schedule_restart wakes up.
Fire(n) ==
    /\ pc[n] = "waiting"
    /\ IF current.timer # n \/ machine.stop \/ machine.phase # "RestartWaiting"
       THEN Goto(n, "free") /\ UNCHANGED <<machine, inner, current, local>>
       ELSE /\ inner' = [inner EXCEPT !.deadline = FALSE]
            /\ machine' = Checking(machine)
            /\ current' = [current EXCEPT !.timer = Nobody]
            /\ local' = [local EXCEPT ![n].bypass = TRUE]
            /\ Goto(n, "ensure")
    /\ World

\* handle_terminated: the receiver of the child's events.
Terminated(p) ==
    /\ daemon[p] = "gone"
    /\ current.watch = p
    /\ FailThenSchedule([inner EXCEPT !.child = NoPid], pc)
    /\ UNCHANGED local /\ World

-----------------------------------------------------------------------------
(***************************************************************************)
(* restart and shutdown.                                                   *)
(***************************************************************************)
\* spawning is left as it was.
RestartFaulty(t) ==
    /\ pc[t] = "idle" /\ t \in Callers
    /\ current' = NewGeneration
    /\ inner' = [inner EXCEPT !.child = NoPid, !.deadline = FALSE]
    /\ machine' = Restarted(machine)
    /\ local' = [local EXCEPT ![t].victim = inner.child, ![t].bypass = TRUE]
    /\ Goto(t, IF inner.child = NoPid THEN "ensure" ELSE "kill")
    /\ World

\* The probes that wait for a killed child to disappear change nothing.
Restart(t) ==
    /\ pc[t] = "idle" /\ t \in Callers
    /\ current' = NewGeneration
    /\ inner' = [child |-> NoPid, spawning |-> FALSE, deadline |-> FALSE]
    /\ machine' = Restarted(machine)
    /\ local' = [local EXCEPT ![t].victim = inner.child, ![t].bypass = TRUE]
    /\ Goto(t, IF inner.child = NoPid THEN "ensure" ELSE "kill")
    /\ World

\* First from the tray's Quit, then again from RunEvent::Exit.
Shutdown ==
    /\ pc[Quitter] \in {"idle", "done"}
    /\ app' = "quitting"
    /\ current' = NewGeneration
    /\ inner' = [child |-> NoPid, spawning |-> FALSE, deadline |-> FALSE]
    /\ machine' = ShutDown(machine)
    /\ local' = [local EXCEPT ![Quitter].victim = inner.child]
    /\ Goto(Quitter, IF inner.child = NoPid THEN "done" ELSE "kill")
    /\ UNCHANGED <<daemon, holder, faults>>

\* After RunEvent::Exit the process ends, whatever its other tasks were at.
Exit ==
    /\ pc[Quitter] = "done"
    /\ app' = "gone"
    /\ UNCHANGED <<machine, inner, current, pc, local, daemon, holder, faults>>

-----------------------------------------------------------------------------
(***************************************************************************)
(* The daemons: bind_before_storage, and what may happen to a process.     *)
(***************************************************************************)
Supervision == UNCHANGED <<machine, inner, current, pc, local, app>>
Released(p) == IF holder = p THEN NoPid ELSE holder

Bind(p) ==
    /\ daemon[p] = "starting"
    /\ holder = NoPid
    /\ daemon' = [daemon EXCEPT ![p] = "opening"]
    /\ holder' = p
    /\ UNCHANGED faults /\ Supervision

\* The storage is open and the router answers.
Opened(p) ==
    /\ daemon[p] = "opening"
    /\ daemon' = [daemon EXCEPT ![p] = "up"]
    /\ UNCHANGED <<holder, faults>> /\ Supervision

\* The port is taken: the daemon exits before it touches the database.
BindFails(p) ==
    /\ daemon[p] = "starting"
    /\ holder # NoPid
    /\ daemon' = [daemon EXCEPT ![p] = "gone"]
    /\ UNCHANGED <<holder, faults>> /\ Supervision

Reaped(p) ==
    /\ daemon[p] = "killed"
    /\ daemon' = [daemon EXCEPT ![p] = "gone"]
    /\ holder' = Released(p)
    /\ UNCHANGED faults /\ Supervision

Crash(p) ==
    /\ p \in Alive
    /\ faults < MaxFaults
    /\ faults' = faults + 1
    /\ daemon' = [daemon EXCEPT ![p] = "gone"]
    /\ holder' = Released(p)
    /\ Supervision

Hang(p) ==
    /\ daemon[p] = "up"
    /\ faults < MaxFaults
    /\ faults' = faults + 1
    /\ daemon' = [daemon EXCEPT ![p] = "hung"]
    /\ UNCHANGED holder /\ Supervision

Recover(p) ==
    /\ daemon[p] = "hung"
    /\ daemon' = [daemon EXCEPT ![p] = "up"]
    /\ UNCHANGED <<holder, faults>> /\ Supervision

\* The pipe is not watched.
ParentGoneFaulty(p) == FALSE /\ UNCHANGED vars

\* shutdown_signal: a sidecar whose standard input ends, because the desktop
\* process has, stops by itself.
ParentGone(p) ==
    /\ app = "gone"
    /\ p \in Pids
    /\ daemon[p] \in {"up", "hung"}
    /\ daemon' = [daemon EXCEPT ![p] = "gone"]
    /\ holder' = Released(p)
    /\ UNCHANGED faults /\ Supervision

-----------------------------------------------------------------------------
\* What a task does once it is under way.
Step(t) ==
    \/ Probe(t) \/ Observe(t) \/ Replace(t) \/ Kill(t)
    \/ Ensure(t) \/ Check(t) \/ Accept(t) \/ Spawn(t)
    \/ RegisterStale(t) \/ RegisterChild(t) \/ RegisterFailure(t)
    \/ Fire(t)

Working ==
    \/ Wake \/ Shutdown \/ Exit
    \/ \E t \in Tasks : Step(t) \/ Refresh(t) \/ Restart(t)
    \/ \E p \in Pids : Terminated(p)

Happens(p) == Bind(p) \/ Opened(p) \/ BindFails(p) \/ Reaped(p) \/ ParentGone(p)

Next ==
    \/ app # "gone" /\ Working
    \/ \E p \in Daemons : Happens(p) \/ Crash(p) \/ Hang(p) \/ Recover(p)

Spec == Init /\ [][Next]_vars

\* Tasks that are under way go on, the monitor polls, the events of a child
\* are delivered, and processes that are started, killed or left alone notice.
Fairness ==
    /\ WF_vars(app # "gone" /\ Wake)
    /\ \A t \in Tasks : WF_vars(app # "gone" /\ Step(t))
    /\ \A p \in Pids : WF_vars(app # "gone" /\ Terminated(p))
    /\ \A p \in Daemons : WF_vars(Happens(p))

FairSpec == Spec /\ Fairness

-----------------------------------------------------------------------------
Places == {"idle", "free", "waiting", "sleep", "ended", "done", "probe", "observe", "replace",
           "kill", "ensure", "check", "accept", "spawn", "register"}

TypeOK ==
    /\ machine \in Machines
    /\ inner \in Inners
    /\ current \in Currents
    /\ pc \in [Tasks -> Places]
    /\ local \in [Tasks -> Locals]
    /\ daemon \in [Daemons -> {"starting", "opening", "up", "hung", "killed", "gone"}]
    /\ holder \in Daemons \cup {NoPid}
    /\ faults \in 0..MaxFaults
    /\ app \in {"running", "quitting", "gone"}

\* The supervisor "starts one daemon child": a sidecar that runs is the child,
\* or a task holds it that will make it the child or kill it.
OneChild ==
    \A p \in Pids \cap Alive :
        \/ p = inner.child
        \/ \E t \in Tasks : \/ pc[t] = "register" /\ local[t].got = p
                            \/ pc[t] = "kill" /\ local[t].victim = p

\* The end of the child will not be missed: whoever receives its events holds
\* the current generation, and the machine counts it as owned.
ChildIsWatched == current.watch = inner.child /\ machine.owned = inner.child

\* A restart is waited for exactly as long as a task is asleep that will be
\* allowed to make it.
WaitHasTimer ==
    /\ machine.phase = "RestartWaiting" <=> inner.deadline
    /\ inner.deadline => current.timer # Nobody /\ pc[current.timer] = "waiting"

\* Whoever raised `spawning` still runs, and will be allowed to lower it.
SpawningEnds ==
    inner.spawning =>
        current.attempt # Nobody /\ pc[current.attempt] \in {"check", "accept", "spawn", "register"}

\* Once faults have stopped, the desktop and a daemon that answers find each
\* other for good, if in the end no daemon of somebody else blocks the port and
\* no child is given up that is merely slow: three probes leave it some seconds
\* to open its storage.
Blocked == daemon[External] = "hung"
Misjudged ==
    \E t \in Tasks : pc[t] = "replace" /\ inner.child # NoPid
                     /\ daemon[inner.child] \in {"starting", "opening", "up"}
Serving ==
    /\ machine.phase \in {"OwnedHealthy", "ExternalHealthy"}
    /\ holder # NoPid /\ daemon[holder] = "up"
ServiceRestored ==
    <>[](~Blocked /\ ~Misjudged) => <>[](app = "running" => Serving)

\* "Parent-stdin monitoring and shutdown hooks prevent an orphaned daemon":
\* no sidecar outlives the desktop process, wherever its tasks were stopped.
NoOrphan == app = "gone" ~> Pids \cap Alive = {}
=============================================================================
