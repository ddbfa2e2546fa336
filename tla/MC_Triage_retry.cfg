SPECIFICATION FairSpec
CONSTANTS
  r1 = r1
  r2 = r2
  Reports <- OneReport
  FailureLists <- AllFailures
  Answers <- AllAnswers
  WorkerLimit = 2
  Faults <- NoFaults
PROPERTY
  RetriedTriageRuns
CHECK_DEADLOCK FALSE
