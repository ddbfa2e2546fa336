SPECIFICATION Spec
CONSTANTS
  Tests <- TestSet
  Rank <- InOrder
  MaxWorkers = 3
  Histories <- HistorySet
  DepRelations <- Relations
  Strategies <- AllStrategies
  DefaultEst = 2
INVARIANTS
  TypeOK
  EveryTestOnce
  DependentTogether
  GreedyBound
CHECK_DEADLOCK FALSE
