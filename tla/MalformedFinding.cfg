SPECIFICATION FairSpec
CONSTANTS
  LastUID = 2
  Parsable <- SecondMail
  Unparsable <- NoMail
  Malformed <- FirstMail
  LastDay = 1
  GraceDays = 1
  Skew = 0
  Delay = 0
  RunSpan = 1
  FallbackDays = 1
  MaxEntries = 1
  Executes <- NoCommandLine
  Faults <- NoFaults
PROPERTY EventuallyEntered
