SPECIFICATION ReviewSpec
CHECK_DEADLOCK FALSE
CONSTANTS
  Registries = {FALSE}
  ReviewRetries = 1
  MaxReviewFaults = 0
INVARIANT MechanicalFirst
