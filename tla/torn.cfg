SPECIFICATION Spec
CONSTANTS
  Ids <- TwoIncidents
  MaxVersion = 2
  MaxCrashes = 1
  Contested = FALSE
  TornState = TRUE
INVARIANTS
  NeverStuck
