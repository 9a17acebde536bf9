\* A gated and more urgent job and a git_branch job, polled or watched.
CONSTANTS
  NumJobs = 2
  Gated = {1}
  Git = {2}
  Setups <- PollingOrWatching
  Refines = TRUE
  Cycler = {main, handler}
  Handler = {handler}
  Limit = 1
  MaxCost = 1
SPECIFICATION Spec
INVARIANTS TypeOK GateRespected MarkedIsSettled RegistryComplete SpendBound
PROPERTIES RunsOnce EventuallySettled
