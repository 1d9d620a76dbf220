SPECIFICATION PartsSpec
CONSTANTS
  MAX_LEADING_BLANK_LINES = 1
  MAX_HEADER_LINES = 2
  DAEMON_STARTUP_TIMEOUT = 3
  DAEMON_HEALTH_PROBE_TIMEOUT = 2
  DAEMON_HEALTH_POLL_INTERVAL = 1
  Methods <- BridgeMethods
  MaxFrames = 2
  MaxPadding = 1
  MaxChanges = 1
  Submissions = {submit1, submit2}
  Rewrites = 2
  Edits = 2
  Failures = 1
  Capacity = 2
  DoubleTap = 1
  MaxTap = 1
  HoldDelay = 2
  Ticks = 2
  Strokes = 3
  Troubles = 1
  w1 = w1
  open = open
  Windows = {w1, w2}
  Pages = {open, excluded, twin}
  Elements = {}
  Own = {}
  Siblings = {w1}
  Alike = {open, twin}
  Web = {open, excluded, twin}
  Unlabelled = {}
  Deep = {}
  Slack = {}
  WhatsApp = {open}
  HostExcluded = {excluded}
  TitleExcluded = {}
  Glances = 1
  Disturbances = 2
  Mishaps = 1
  Recordings = 2
  Dictations = 2
  Interruptions = 1
  Attempts = 2
  ToolRounds = 0
  Messages = 2
  TextPieces = 1
  Breaks = 1
  Screens <- TwoScreens
  Pointed <- TwoPoints
  Chosen = {"right"}
  Transitions = 3
  Happenings = 2
  Declined = 1
INVARIANTS
  DeliverySound
  DictationSound
  ChatSound
  BridgeSound
  TextSound
  ReaderSound
  PanelSound
PROPERTIES
  RewriteSound
  KeysSound
CHECK_DEADLOCK FALSE
