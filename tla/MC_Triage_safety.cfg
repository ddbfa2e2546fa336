SPECIFICATION FairSpec
CONSTANTS
  r1 = r1
  r2 = r2
  Reports <- TwoReports
  FailureLists <- AllFailures
  Answers <- AllAnswers
  WorkerLimit = 2
  Faults <- AllFaults
INVARIANTS
  AnyAnswerIsStored
  PoolAgreesWithRows
PROPERTIES
  VerdictStandsUntilRetry
  SlotsAreReturned
CHECK_DEADLOCK FALSE
