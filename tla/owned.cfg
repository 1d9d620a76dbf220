SPECIFICATION Spec
CONSTANTS
  monitor = monitor
  quitter = quitter
  c1 = c1
  c2 = c2
  t1 = t1
  t2 = t2
  Monitor <- monitor
  Quitter <- quitter
  Callers <- OneCaller
  Timers <- TwoTimers
  Pids <- TwoPids
  MaxFaults = 1
  UnhealthyProbeLimit = 2
SYMMETRY Interchangeable
INVARIANTS
  TypeOK
  OneChild
  ChildIsWatched
  WaitHasTimer
  SpawningEnds
CHECK_DEADLOCK FALSE
