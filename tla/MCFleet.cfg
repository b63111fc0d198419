SPECIFICATION InterviewFairSpec
CONSTANTS
  MaxSubmit = 2
  MaxBuffer = 2
  ChunkMax = 1
  MaxItems = 1
  MaxTries = 2
  EventBound = 3
  Nodes = {1}
  Beats = {1, 2}
  MinAuto = 2
  Recommended = 4
  KnownBroken = {3}
  Manifest = 4
  InFlight = 1
  AttemptWindow = 3
  MaxAttempts = 1
  Cooldown = 3
  MaxBlock = 7
  Scenes <- MCScenes
INVARIANTS CommandsBounded WindowsSound
CHECK_DEADLOCK FALSE
PROPERTIES EventsInterviewed
