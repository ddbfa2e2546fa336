SPECIFICATION FairSpec
CONSTANTS
  Execs <- OneExec
  Cancellable <- OneExec
  ListLimit = 2
  Faults <- NoFaults
PROPERTY
  CancellationCleansUp
CHECK_DEADLOCK FALSE
