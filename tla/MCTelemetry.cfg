\* Two sub-tasks, one after or beside the other, two attempts each; the
\* dashboard goes down, for as long as it likes, or applies a post late, once
\* while they run and once more from the review on.
CONSTANTS
  None = None
  NumSubtasks = 2
  MaxAttempts = 2
  MaxWorkers = 2
  EarlyTrouble = 1
  MaxTrouble = 2
SPECIFICATION Spec
INVARIANTS BoardAgrees NeverAhead SpendNotOverstated EscalationRecorded
PROPERTIES JobEnds RunsThePool
CHECK_DEADLOCK FALSE
