SPECIFICATION FairSpec
CONSTANTS
  h1 = h1
  h2 = h2
  e1 = e1
  Hooks <- TwoHooks
  Events <- OneEvent
  Retried <- OneHook
  PoolSize = 1
  MaxRetries = 2
  Faults <- AllFaults
INVARIANTS
  TypeOK
  LogIsTruthful
  PoolIsCoherent
PROPERTIES
  AnswersAreFinal
  NotificationsSettle
CHECK_DEADLOCK FALSE
