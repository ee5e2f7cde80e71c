SPECIFICATION Spec
CONSTANTS
  N = 2
  Handlers <- Everything
  Runs <- RunsOf
  Unprotected <- KnownUnprotected
  LosesThunks <- KnownToLoseThunks
  LeavesBrackets <- KnownToLeaveBrackets
INVARIANTS HandlesLive BracketsBalanced
CHECK_DEADLOCK FALSE
