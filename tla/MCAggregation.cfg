SPECIFICATION AggSpec
CHECK_DEADLOCK FALSE
CONSTANTS
  NumChildren = 2
  AggGaps = {0, 4}
  AggMethods = {"min"}
  MaxAggChanges = 3
INVARIANT BottleneckDecides
