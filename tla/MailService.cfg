SPECIFICATION FairService
CONSTANTS
  Ids <- MCIds
  Cpus = 2
  Faults <- MCFaults
INVARIANT VerdictIsTrue
INVARIANT LossStaysInBucket
INVARIANT DeliveredOnce
INVARIANT NobodyStuck
PROPERTY StreamSpec
PROPERTY StepsRunOut
PROPERTY RunContinues
