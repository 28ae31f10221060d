SPECIFICATION KeptSpec
CHECK_DEADLOCK FALSE
CONSTANTS
  Window = 1
  NumDims = 2
  Gaps <- MCGaps
  MaxPivots = 2
  MaxNew = 2
  MaxStrategies = 4
  MaxCycles = 5
  MaxRuns = 2
  MaxFailures = 1
  e1 = e1
  e2 = e2
  e3 = e3
  d1 = d1
  d2 = d2
  MemEntries = {e1, e2}
  DataTypes = {"task"}
  TypeOf <- MCTypeOf
  DimsOf <- MCDimsOf
  FailedEntries = {e1}
  MemDims = {d1}
  Retention = 1
  MaxMemLoop = 1
  MaxMemFaults = 1
  MaxLessons = 1
  MaxCloses = 1
  ShortTermLimit = 1
  Items = {e1, e2, e3}
  ItemDims <- MCItemDims
  Contexts <- MCContexts
  HasVector = TRUE
  MaxSlots = 2
  MaxIdxFaults = 1
  KnowGoals = {g1, g2}
  Facts = {f1, f2}
  Decisions = {x1, x2}
  PivotStrategies = {s1, s2}
  MaxAge = 4
  MaxKnowFaults = 1
  LearnGoals = {g1, g2}
  Patterns = {p1}
  TaggedPatterns = {}
  MaxPatterns = 1
  MaxEvaluations = 4
  MaxRestarts = 1
  Deltas <- MCDeltas
  MaxFeedback = 6
INVARIANTS OneActive HistoryKept TypesOK MemorySound KnowledgeSound
PROPERTIES FirstStallWaits OutcomeSettled PairSilenced SteadyTuning
