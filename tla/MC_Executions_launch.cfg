SPECIFICATION Spec
CONSTANTS
  Execs <- OneExec
  Cancellable <- OneExec
  ListLimit = 2
  Faults <- KubeFault
INVARIANT
  LaunchFailureIsRecorded
CHECK_DEADLOCK FALSE
