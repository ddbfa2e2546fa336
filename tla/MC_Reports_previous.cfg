SPECIFICATION Spec
CONSTANTS
  r1 = r1
  r2 = r2
  ta = ta
  tb = tb
  sa = sa
  sb = sb
  g1 = g1
  g2 = g2
  ask = ask
  Reports <- TwoReports
  Tests <- TwoTests
  Suites <- TwoSuites
  Gates <- TwoGates
  Requests <- OneRequest
  RuleSets <- SomeRules
  WorkerLimit = 1
  Setups <- AskedOnly
INVARIANT
  ComparedWithPreviousRun
CHECK_DEADLOCK FALSE
