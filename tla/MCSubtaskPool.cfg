\* Four sub-tasks: an edge, two roots with a common dependent, a batch cut off
\* by the worker bound and a failure beside a sibling that runs on.
CONSTANTS
  NumSubtasks = 4
  MaxAttempts = 2
  MaxWorkers = 3
SPECIFICATION Spec
INVARIANTS TypeOK DependenciesFirst ParallelBound NeverSpins OutcomeIsHonest
PROPERTIES NoStartAfterGivingUp Terminates ImplementsPlan
CHECK_DEADLOCK FALSE
