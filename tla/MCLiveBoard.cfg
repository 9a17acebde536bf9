CONSTANTS
  Capacity = 2
  Rate = 1
  Cost = 2
  MaxNow = 2
  MaxForward = 4
  MaxPipe = 2
  MaxFlying = 2
  MaxFails = 1
SPECIFICATION Spec
INVARIANTS RateBounded FreshWhenQuiet OnePoller
PROPERTY CatchesUp
