SPECIFICATION Spec
CONSTANTS
  Name <- MCName
  Cases <- MCCases
  Elapsed <- MCElapsed
INVARIANT AmountIsRead
INVARIANT AccountIsConfigured
INVARIANT FailedIsFoundAgain
CHECK_DEADLOCK FALSE
