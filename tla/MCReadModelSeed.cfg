\* The first event of a task is enough.
CONSTANTS
  None = None
  Task = {t}
  Sub = {s}
  Day = {1}
  MaxEvents = 1
SPECIFICATION Spec
INVARIANTS StatusIsTaskLevel
CHECK_DEADLOCK FALSE
