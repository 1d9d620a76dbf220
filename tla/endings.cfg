SPECIFICATION PartsSpec
CONSTANTS
  Ids <- TwoIncidents
  MaxVersion = 4
  MaxCrashes = 3
  Contested = FALSE
  TornState = FALSE
  c1 = c1
  c2 = c2
  sync = sync
  w1 = w1
  w2 = w2
  dailyRule = dailyRule
  flag = flag
INVARIANTS
  StorageSound
PROPERTIES
  MovesAtOnce
  StartCompletes
  PauseKept
  StreamSound
  RequestsEnd
  BackgroundWorkDone
CHECK_DEADLOCK FALSE
