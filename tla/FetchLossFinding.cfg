SPECIFICATION Spec
CONSTANTS
  LastUID = 1
  Parsable <- OneParsable
  Unparsable <- NoMail
  Malformed <- NoMail
  LastDay = 3
  GraceDays = 1
  Skew = 0
  Delay = 0
  RunSpan = 0
  FallbackDays = 3
  MaxEntries = 1
  Executes <- NoCommandLine
  Faults <- FetchLossOnly
INVARIANT NoMessageLost
