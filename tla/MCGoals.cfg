SPECIFICATION Spec
CHECK_DEADLOCK FALSE
CONSTANTS
  NoGoal = NoGoal
  d1 = d1
  d2 = d2
  NegDims = {d1, d2}
  HasCapabilities = TRUE
  MaxGoals = 4
  MaxDepth = 2
  RefineDepth = 1
  MaxChildren = 2
  TokenBudget = 2
  MaxOps = 3
  MaxCrashes = 1
  MaxRewrites = 1
  DepGoals = {g1, g2, g3}
  MaxEdges = 3
  MaxDepFaults = 1
  DataSources <- TwoSources
  Readings = {0, 5, 12}
  Scores = {0, 3, 9}
  MaxObserves = 4
  MaxObsFaults = 1
  NumChildren = 2
  AggGaps = {0, 4}
  AggMethods = {"min", "avg", "max", "all_required"}
  MaxAggChanges = 3
  CapNames = {a, b, c}
  NoName = NoName
  IdOf <- SameId
  Permissions = {b}
  NumCaps = 3
  MaxDeficiencies = 5
  MaxCapFaults = 1
  Descriptions = {x1}
  GoalKinds <- SomeGoals
  MaxActive = 1
  Expiry = 1
  LoopLimit = 3
  Period = 1
  MaxProposals = 2
  MaxSaves = 2
  MaxCurHours = 1
  MaxCurFaults = 1
  Unit = 4
  Subjects <- SomeSubjects
  Companions <- SomeCompanions
  Deadlines = {0, 1}
  NoDeadline = NoDeadline
  NumSrcGoals = 2
  FileDims = {"readme_exists", "src_exists"}
  ShellDims = {"todo_count"}
  IssueDims = {"open_issue_count"}
  DimSets <- SomeDimSets
  ByHand <- SomeAdded
  MaxAdded = 1
  MaxSrcFaults = 1
INVARIANTS TypesOK TreeSound RegisteredAsTold NoWaitingCircle GroundsHold
PROPERTIES WalksEnd
