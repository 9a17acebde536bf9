CONSTANTS
  None = None
  NumSubtasks = 2
  MaxAttempts = 2
  MaxWorkers = 2
  Path = {"page", "notes"}
  Long = {"page"}
  Stub = "notes"
  Setups <- MCSetups
  MaxPasses = 1
  MaxWorkersAgain = 1
SPECIFICATION Spec
INVARIANTS TypeOK HitsAreWhole HonestModel BuildsOnDependencies TokensAccounted JudgedAsDelivered CutOnlyWithoutReply
CHECK_DEADLOCK FALSE
