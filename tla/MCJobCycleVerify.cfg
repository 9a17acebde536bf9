\* One plain job, no kill.
CONSTANTS
  NumJobs = 1
  Gated = {}
  Git = {}
  Setups <- PollingSound
  Refines = TRUE
  Cycler = {main, handler}
  Handler = {handler}
  Limit = 1
  MaxCost = 0
SPECIFICATION Spec
INVARIANTS DeliveryVerified
