SPECIFICATION FairSpec
CONSTANTS
  t1 = t1
  t2 = t2
  t3 = t3
  user = user
  income = income
  expense = expense
  Trxs <- MCTrxs
  Token <- MCToken
  Name <- MCName
  TokenOf <- MCTokenOf
  NameOf <- MCNameOf
  Cpus = 2
  Known <- MCKnown
  DryRuns <- MCDryRuns
  Faults <- MCFaults
INVARIANT OneClientPerToken
INVARIANT FiledUnderOwnName
INVARIANT ResultTellsEntry
INVARIANT OneResultEach
INVARIANT NobodyStuck
PROPERTY StepsRunOut
PROPERTY CategorySettles
PROPERTY DryRunKeepsLedger
PROPERTY StreamSpec
PROPERTY RegistrationSpec
PROPERTY RunContinues
