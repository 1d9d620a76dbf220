SPECIFICATION Spec
CONSTANTS
  Ids <- TwoIncidents
  MaxVersion = 3
  MaxCrashes = 1
  Contested = TRUE
  TornState = FALSE
INVARIANTS
  NeverStuck
