---- MODULE MCSupervisor ----
(* Small instances of Supervisor. *)
EXTENDS Supervisor, TLC

CONSTANTS monitor, quitter, c1, c2, t1, t2

NoCaller == {}
OneCaller == {c1}
TwoCallers == {c1, c2}
OneTimer == {t1}
TwoTimers == {t1, t2}
TwoPids == 1..2
ThreePids == 1..3

Interchangeable == Permutations(Callers) \cup Permutations(Timers)
====
