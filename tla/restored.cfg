SPECIFICATION FairSpec
CONSTANTS
  monitor = monitor
  quitter = quitter
  c1 = c1
  c2 = c2
  t1 = t1
  t2 = t2
  Monitor <- monitor
  Quitter <- quitter
  Callers <- NoCaller
  Timers <- TwoTimers
  Pids <- TwoPids
  MaxFaults = 2
  UnhealthyProbeLimit = 3
PROPERTIES
  ServiceRestored
  NoOrphan
CHECK_DEADLOCK FALSE
