SPECIFICATION PartsSpec
CONSTANTS
  Ids <- TwoIncidents
  MaxVersion = 4
  MaxCrashes = 1
  Contested = TRUE
  TornState = FALSE
  Components <- WikiOnly
  SameSlug <- BothNames
  ada = ada
  bob = bob
  person = person
  project = project
  dailyRule = dailyRule
  IndexIds = {row1, row2}
  Contents = {words, glyph}
  Featureless = {glyph}
  Vectors = {1, 2}
  IndexSeconds = 2
  Upsets = 1
  Candidates = 2
  cap = cap
  pruner = pruner
  memoryRuns = {memoryRun}
  callers = {caller}
  programs = {slack}
  ages = {1}
  Observations = 3
  Backfill = 1
  Retention = 2
  LastHour = 4
  Captures = 2
  HourRows = 2
  PromptRows = 2
  Erases = 1
  Failures = 1
  forever = forever
  mail = mail
  code = code
INVARIANTS
  EveryHourInstalled
