SPECIFICATION ServicesSpec
CHECK_DEADLOCK FALSE
CONSTANTS
  w1 = w1
  w2 = w2
  w3 = w3
  i1 = i1
  i2 = i2
  i3 = i3
  None = None
  Writers = {w1, w2, w3}
  Inodes = {i1, i2, i3}
  Exclusive = TRUE
  MaxFailures = 2
  Tasks = {t1, t2, t3}
  Unknown = Unknown
  Files = {f1, f2}
  Limit = 2
  MaxDeps = 2
  MaxGroups = 1
  MaxCrashes = 1
  Notices = {"stall", "urgent"}
  Cooldown <- Hours
  Channels <- TwoChannels
  DayHours = 3
  QuietFrom = 2
  QuietTo = 0
  Exceptions = {"urgent"}
  MaxHour = 3
  MaxSaved = 3
  MaxNotices = 2
  MaxRepFaults = 1
  EventIds = {e1}
  NoEvent = NoEvent
  MaxFiles = 2
  MaxEvFaults = 1
  SlotSizes = {1, 3}
  Budget = 4
  MaxSessions = 3
  MaxSessFaults = 2
  NumStages = 2
  MaxRetries = 3
  FAILURE_THRESHOLD = 3
  BreakerCooldown = 2
  MaxPipeFaults = 1
  MaxRequests = 2
  MaxWait = 2
  Creators = {c1, c2}
  MaxIssues = 3
  MAX_RETRY_ATTEMPTS = 3
  Confidences = {5, 6}
  CONFIDENCE_FLAG_THRESHOLD = 6
  Checkers = {k1, k2}
  MaxModelFaults = 1
  MaxCalls = 2
  Runnable = {g1, g2}
  GoalIds = {g1, g2, g3}
  NoGoal = NoGoal
  MaxRuns = 2
  MaxQuestions = 2
  MaxCommands = 3
  LogSize = 1
  LogFiles = 3
  MaxLines = 5
  MaxDays = 2
  MaxLogFaults = 1
  Registries = {TRUE, FALSE}
  ReviewRetries = 1
  MaxReviewFaults = 2
INVARIANTS Whole AcknowledgedKept DispatchSound OutcomeHonest TypesOK ServicesSound
PROPERTIES LogImplemented WorkEnds
