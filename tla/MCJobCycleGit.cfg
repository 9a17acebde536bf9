\* A git_branch job and a plain one behind it; the process is killed once.
CONSTANTS
  NumJobs = 2
  Gated = {}
  Git = {1}
  Setups <- PollingKilled
  Refines = FALSE
  Cycler = {main, handler}
  Handler = {handler}
  Limit = 1
  MaxCost = 0
SPECIFICATION Spec
PROPERTIES AlwaysSettled
