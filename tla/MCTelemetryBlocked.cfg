\* One sub-task, one attempt, and a dashboard that answers every post.
CONSTANTS
  None = None
  NumSubtasks = 1
  MaxAttempts = 1
  MaxWorkers = 1
  EarlyTrouble = 0
  MaxTrouble = 0
SPECIFICATION Spec
INVARIANTS ExhaustionIsShown
CHECK_DEADLOCK FALSE
