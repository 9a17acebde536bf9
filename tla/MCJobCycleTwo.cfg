\* The main thread's safety re-scan and the observer's handler thread.
CONSTANTS
  NumJobs = 1
  Gated = {}
  Git = {}
  Setups <- WatchingSound
  Refines = FALSE
  Cycler = {main, handler}
  Handler = {handler}
  Limit = 1
  MaxCost = 0
SPECIFICATION Spec
PROPERTIES SettledStaysSettled
