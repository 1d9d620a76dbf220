---------------------------- MODULE ModifierMonitor ----------------------------
(***************************************************************************)
(* The thread that watches the modifier keys: macOS reports every change   *)
(* of the flags to a callback, which puts it into a bounded queue; the     *)
(* dispatcher takes it out, runs the state machine of taps and holds and   *)
(* calls the handlers.  Callback and dispatcher run on one thread, the     *)
(* keys, secure input, the permission and a cancellation change under it.  *)
(***************************************************************************)
EXTENDS Naturals, Sequences

CONSTANTS
    MONITOR_QUEUE_CAPACITY,
    DOUBLE_TAP, MAX_TAP, HOLD_DELAY,   \* ModifierConfig
    MaxTime,      \* bound: ticks of the clock
    MaxChanges,   \* bound: keys that go down or up
    MaxFaults     \* bound: secure input, a disabled tap, a cancellation, a stop

VARIABLES
    inline,       \* the key for inline help: "inline", or "talk" when shared
    down,         \* the keys that are down
    clock,
    tap, granted, \* the event tap is enabled; Input Monitoring is granted
    secure,       \* IsSecureEventInputEnabled
    port,         \* what macOS has for the callback
    queue, flags, \* MonitorContext: the inputs, and the flags that are set
    at,           \* the next step of monitor_thread
    press, last,  \* ModifierStateMachine
    refused,      \* the refusals that were reported
    out,          \* events about to be reported
    event, parity, \* what was reported last, and whether it is an odd report
    masked,       \* history: the key came up while its twin was down
    changes, faults

world == <<inline, down, clock, tap, granted, secure, port, masked, changes>>
machine == <<press, last>>
seen == <<event, parity>>
vars == <<inline, down, clock, tap, granted, secure, port, queue, flags, at, press, last, refused,
          out, event, parity, masked, changes, faults>>

Keys == {"talk", "twin", "inline"}

\* modifier_flag: the left and the right key of a modifier have one flag.
Flag(key) == IF key = "twin" THEN "talk" ELSE key

Nothing == [key |-> "none", since |-> 0]
NoPress == [key |-> "none", since |-> 0, eligible |-> FALSE, hold |-> FALSE]
Inputs == [key : Keys \cup {"disabled"}, pressed : BOOLEAN, others : BOOLEAN, at : 0..MaxTime]
Events == {"HoldToTalkStarted", "HoldToTalkReleased", "Cancelled", "InlineInvoked",
           "SecureInputRefused", "PermissionRefused"}
Steps == {"control", "disabled", "permission", "secure", "dispatch", "poll", "wait",
          "stopped"}

TypeOK ==
    /\ inline \in {"inline", "talk"} /\ down \subseteq Keys /\ clock \in 0..MaxTime
    /\ {tap, granted, secure, masked} \subseteq BOOLEAN
    /\ \A i \in DOMAIN port : port[i] \in Inputs
    /\ \A i \in DOMAIN queue : queue[i] \in Inputs
    /\ Len(queue) <= MONITOR_QUEUE_CAPACITY
    /\ flags \subseteq {"cancel", "disabled", "permission", "secure", "overflow"}
    /\ at \in Steps
    /\ press \in [key : Keys \cup {"none"}, since : 0..MaxTime, eligible : BOOLEAN, hold : BOOLEAN]
    /\ last \in [key : Keys \cup {"none"}, since : 0..MaxTime]
    /\ refused \subseteq {"SecureInputRefused", "PermissionRefused"}
    /\ \A i \in DOMAIN out : out[i] \in Events
    /\ event \in Events \cup {"none"} /\ parity \in 0..1
    /\ changes \in 0..MaxChanges /\ faults \in 0..MaxFaults

Init ==
    /\ inline \in {"inline", "talk"} /\ down = {} /\ clock = 0
    /\ tap = TRUE /\ granted = TRUE /\ secure = FALSE /\ port = <<>>
    /\ queue = <<>> /\ flags = {} /\ at = "control"
    /\ press = NoPress /\ last = Nothing /\ refused = {} /\ out = <<>>
    /\ event = "none" /\ parity = 0 /\ masked = FALSE
    /\ changes = 0 /\ faults = 0

Fault == faults < MaxFaults /\ faults' = faults + 1

-----------------------------------------------------------------------------
(***************************************************************************)
(* The user and macOS.                                                     *)
(***************************************************************************)
\* The flags an event carries are those of its moment.
Input(key, keys) ==
    [key |-> key,
     pressed |-> \E k \in keys : Flag(k) = Flag(key),
     others |-> \E k \in keys : Flag(k) # Flag(key),
     at |-> clock]

Key ==
    \E key \in Keys :
        LET keys == (down \ {key}) \cup ({key} \ down) IN
        /\ down' = keys
        /\ port' = IF tap THEN Append(port, Input(key, keys)) ELSE port
        /\ masked' = (IF key = "talk" THEN "twin" \in down /\ "talk" \in down ELSE masked)
    /\ changes < MaxChanges /\ changes' = changes + 1
    /\ UNCHANGED <<inline, clock, tap, granted, secure, queue, flags, at, machine, refused, out,
                   seen, faults>>

Tick ==
    /\ clock < MaxTime /\ clock' = clock + 1
    /\ UNCHANGED <<inline, down, tap, granted, secure, port, queue, flags, at, machine, refused,
                   out, seen, masked, changes, faults>>

\* A tap that is too slow, or not wanted any more; what it had is lost.
Disable ==
    /\ tap /\ Fault
    /\ tap' = FALSE /\ port' = <<[Input("inline", {}) EXCEPT !.key = "disabled"]>>
    /\ granted' \in {granted, FALSE}
    /\ UNCHANGED <<inline, down, clock, secure, queue, flags, at, machine, refused, out, seen,
                   masked, changes>>

SecureInput ==
    /\ secure \/ Fault
    /\ secure' = ~secure
    /\ (secure => UNCHANGED faults)
    /\ UNCHANGED <<inline, down, clock, tap, granted, port, queue, flags, at, machine, refused,
                   out, seen, masked, changes>>

\* ModifierMonitorHandle::cancel_active
CancelActive ==
    /\ Fault
    /\ flags' = flags \cup {"cancel"}
    /\ UNCHANGED <<world, queue, at, machine, refused, out, seen>>

-----------------------------------------------------------------------------
(***************************************************************************)
(* ModifierStateMachine: each operation gives the new state and events.    *)
(***************************************************************************)
Cancelled == IF press.hold THEN <<"Cancelled">> ELSE <<>>

Bound(key) == key \in {inline, "talk"}

Press(i) ==
    /\ out' = IF press.key = "none" THEN <<>> ELSE Cancelled
    /\ last' = IF press.key # "none" \/ i.others \/ ~Bound(i.key) THEN Nothing ELSE last
    /\ press' = IF Bound(i.key)
                THEN [key |-> i.key, since |-> i.at, eligible |-> ~i.others, hold |-> FALSE]
                ELSE NoPress

HeldFor(i) == i.at - press.since

LateHold(i) == press.eligible /\ press.key = "talk" /\ HeldFor(i) >= HOLD_DELAY

\* The delay passed before the poll saw it.
ReleaseLong(i) ==
    /\ press.hold \/ LateHold(i)
    /\ out' = IF press.hold THEN <<"HoldToTalkReleased">>
              ELSE <<"HoldToTalkStarted", "HoldToTalkReleased">>
    /\ last' = Nothing

IsTap(i) == press.eligible /\ ~i.others /\ HeldFor(i) <= MAX_TAP /\ press.key = inline

ReleaseShort(i) ==
    /\ ~(press.hold \/ LateHold(i))
    /\ LET second == \/ press.key = "talk"
                     \/ last.key = press.key /\ i.at - last.since <= DOUBLE_TAP
       IN /\ out' = IF IsTap(i) /\ second THEN <<"InlineInvoked">> ELSE <<>>
          /\ last' = IF IsTap(i) /\ ~second THEN [key |-> press.key, since |-> i.at] ELSE Nothing

Release(i) == press' = NoPress /\ (ReleaseLong(i) \/ ReleaseShort(i))

Handle(i) ==
    CASE i.pressed /\ i.key # press.key  -> Press(i)
      [] ~i.pressed /\ i.key = press.key -> Release(i)
      [] OTHER                           -> UNCHANGED machine /\ out' = <<>>

\* The handlers hear of it, or of nothing.
CancelMachine == press' = NoPress /\ last' = Nothing

-----------------------------------------------------------------------------
(***************************************************************************)
(* monitor_thread.  The events of a step are reported before the next one. *)
(***************************************************************************)
Turn(from, to) == at = from /\ out = <<>> /\ at' = to

Report ==
    /\ out # <<>>
    /\ event' = Head(out) /\ out' = Tail(out)
    /\ parity' = 1 - parity
    /\ UNCHANGED <<world, queue, flags, at, machine, refused, faults>>

Control ==
    /\ Turn("control", "disabled")
    /\ flags' = flags \ {"cancel"}
    /\ IF "cancel" \in flags THEN CancelMachine /\ out' = Cancelled ELSE UNCHANGED <<machine, out>>
    /\ UNCHANGED <<world, queue, refused, seen, faults>>

\* stop_inner: the hold is cancelled first.
Stop ==
    /\ Turn("control", "stopped") /\ Fault
    /\ CancelMachine /\ out' = Cancelled
    /\ UNCHANGED <<world, queue, flags, refused, seen>>

\* The tap is enabled again, the hold goes on.
DisabledFaulty ==
    /\ Turn("disabled", "permission")
    /\ flags' = flags \ {"disabled"}
    /\ tap' = (IF "disabled" \in flags THEN granted ELSE tap)
    /\ UNCHANGED <<inline, down, clock, granted, secure, port, masked, changes, queue, machine, out,
                   refused, seen, faults>>

Disabled ==
    /\ Turn("disabled", "permission")
    /\ flags' = flags \ {"disabled"}
    /\ IF "disabled" \in flags
       THEN CancelMachine /\ out' = Cancelled /\ tap' = granted
       ELSE UNCHANGED <<machine, out, tap>>
    /\ UNCHANGED <<inline, down, clock, granted, secure, port, masked, changes, queue, refused, seen,
                   faults>>

\* refuse_secure_input, refuse_permission: reported once.
Refuse(refusal) ==
    /\ CancelMachine /\ queue' = <<>>
    /\ refused' = refused \cup {refusal}
    /\ out' = Cancelled \o (IF refusal \in refused THEN <<>> ELSE <<refusal>>)

Permission ==
    /\ Turn("permission", "secure")
    /\ flags' = flags \ {"permission"}
    /\ IF "permission" \in flags THEN Refuse("PermissionRefused")
       ELSE UNCHANGED <<machine, queue, refused, out>>
    /\ UNCHANGED <<world, seen, faults>>

Secure ==
    /\ at = "secure" /\ out = <<>>
    /\ IF secure \/ "secure" \in flags
       THEN /\ Refuse("SecureInputRefused")
            /\ at' = "wait" /\ flags' = flags \ {"secure"}
       ELSE /\ refused' = {} /\ at' = "dispatch" /\ flags' = flags \ {"overflow"}
            /\ IF "overflow" \in flags
               THEN CancelMachine /\ out' = Cancelled /\ queue' = <<>>
               ELSE UNCHANGED <<machine, out, queue>>
    /\ UNCHANGED <<world, seen, faults>>

\* dispatch_pending
Dispatch ==
    /\ at = "dispatch" /\ out = <<>>
    /\ IF queue = <<>> THEN at' = "poll" /\ UNCHANGED <<queue, machine, out>>
       ELSE Handle(Head(queue)) /\ queue' = Tail(queue) /\ UNCHANGED at
    /\ UNCHANGED <<world, flags, refused, seen, faults>>

\* A hold is started over and over while the key is down.
PollFaulty ==
    /\ Turn("poll", "wait")
    /\ IF press.eligible /\ press.key = "talk" /\ clock - press.since >= HOLD_DELAY
       THEN press' = [press EXCEPT !.hold = TRUE] /\ out' = <<"HoldToTalkStarted">>
       ELSE UNCHANGED <<press, out>>
    /\ UNCHANGED <<world, queue, flags, last, refused, seen, faults>>

Poll ==
    /\ Turn("poll", "wait")
    /\ IF press.eligible /\ ~press.hold /\ press.key = "talk" /\ clock - press.since >= HOLD_DELAY
       THEN /\ press' = [press EXCEPT !.hold = TRUE] /\ last' = Nothing
            /\ out' = <<"HoldToTalkStarted">>
       ELSE UNCHANGED <<machine, out>>
    /\ UNCHANGED <<world, queue, flags, refused, seen, faults>>

\* event_tap_callback
Callback ==
    LET i == Head(port) IN
    /\ port' = Tail(port)
    /\ CASE i.key = "disabled" ->
                 /\ flags' = flags \cup {"disabled"} \cup (IF granted THEN {} ELSE {"permission"})
                 /\ UNCHANGED queue
         [] i.key # "disabled" /\ secure -> flags' = flags \cup {"secure"} /\ UNCHANGED queue
         [] i.key # "disabled" /\ ~secure /\ Len(queue) >= MONITOR_QUEUE_CAPACITY ->
                 flags' = flags \cup {"overflow"} /\ UNCHANGED queue
         [] OTHER -> queue' = Append(queue, i) /\ UNCHANGED flags

\* CFRunLoopRunInMode returns after ten milliseconds, or after one event.
Wait ==
    /\ Turn("wait", "control")
    /\ IF port = <<>> THEN UNCHANGED <<port, queue, flags>> ELSE Callback
    /\ UNCHANGED <<inline, down, clock, tap, granted, secure, masked, changes, machine, refused, out,
                   seen, faults>>

Next ==
    \/ Key \/ Tick \/ Disable \/ SecureInput \/ CancelActive
    \/ Report \/ Control \/ Stop \/ Disabled \/ Permission \/ Secure \/ Dispatch \/ Poll \/ Wait

Spec == Init /\ [][Next]_vars

-----------------------------------------------------------------------------
(***************************************************************************)
(* Properties.                                                             *)
(***************************************************************************)
Contract == INSTANCE Gestures

\* ModifierMonitor::start, whose callback is called from this thread: whatever
\* is lost, refused or cancelled, a hold is started once and ended once, and
\* nothing else is reported while it lasts.
HoldsPaired == Contract!Spec

\* Nothing is on its way.
Quiet == at = "wait" /\ out = <<>> /\ port = <<>> /\ queue = <<>> /\ flags = {}

\* "macOS reports the physical left and right modifier keys independently":
\* a hold that lasts has its key down.
HeldKeyIsDown == Quiet /\ Contract!Holding => "talk" \in down

\* The same, unless the other key of that modifier was down when it came up;
\* and no hold outlives its monitor.
HeldKeyIsDownUnlessTwin ==
    /\ Quiet /\ Contract!Holding => "talk" \in down \/ masked
    /\ at = "stopped" /\ out = <<>> => ~Contract!Holding
=============================================================================
