SPECIFICATION Spec
CONSTANTS
  Execs <- OneExec
  Cancellable <- OneExec
  ListLimit = 2
  Faults <- AllFaults
INVARIANTS
  TypeOK
  VerdictsAreEarned
  Coherent
PROPERTIES
  ImplementsLife
  OnlyReportsOverwriteVerdicts
CHECK_DEADLOCK FALSE
