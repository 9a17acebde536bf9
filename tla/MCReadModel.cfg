CONSTANTS
  None = None
  Task = {t}
  Sub = {s}
  Day = {1, 2}
  MaxEvents = 4
SPECIFICATION Spec
INVARIANTS TypeOK TaskStatusIsLast SubtaskStatusIsLast CostConserved CountedOnce
CHECK_DEADLOCK FALSE
