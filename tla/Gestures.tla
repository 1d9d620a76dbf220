------------------------------- MODULE Gestures -------------------------------
(***************************************************************************)
(* What the handlers of the modifier keys may rely on: a hold is started   *)
(* once, and ended once before anything else is reported.                  *)
(***************************************************************************)
EXTENDS Naturals

VARIABLES
    event,     \* what was reported last
    parity     \* of the number of reports: the same may be reported twice

Init == event = "none" /\ parity = 0

Holding == event = "HoldToTalkStarted"

Reported(events) == event' \in events /\ parity' = 1 - parity

Started == ~Holding /\ Reported({"HoldToTalkStarted"})
Ended == Holding /\ Reported({"HoldToTalkReleased", "Cancelled"})
Other == ~Holding /\ Reported({"InlineInvoked", "SecureInputRefused", "PermissionRefused"})

Next == Started \/ Ended \/ Other

Spec == Init /\ [][Next]_<<event, parity>>
=============================================================================
