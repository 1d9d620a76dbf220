SPECIFICATION Spec
CONSTANTS
  c = c
  a = a
  m1 = m1
  m2 = m2
  r1 = r1
  r2 = r2
  slack = slack
  forever = forever
  Cap <- c
  Pruner <- a
  Forever <- forever
  Runs <- OneRun
  Requests <- OneRequest
  Kinds <- RetentionKinds
  Apps <- OneApp
  Policies <- OneWindow
  MaxObs = 3
  VacuumMayFail = TRUE
INVARIANTS
  NoExpiredInMemory
