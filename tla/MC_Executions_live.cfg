SPECIFICATION FairSpec
CONSTANTS
  Execs <- TwoExecs
  Cancellable <- Nobody
  ListLimit = 2
  Faults <- NoFaults
PROPERTIES
  ReconcilerSparesLiveWorkers
  FinishedJobIsReconciled
CHECK_DEADLOCK FALSE
