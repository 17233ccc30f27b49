SPECIFICATION Spec
CONSTANTS
  LastUID = 2
  Parsable <- TwoParsable
  Unparsable <- NoMail
  Malformed <- NoMail
  LastDay = 2
  GraceDays = 1
  Skew = 1
  Delay = 0
  RunSpan = 1
  FallbackDays = 1
  MaxEntries = 2
  Executes <- DryOnly
  Faults <- OnceFaults
INVARIANT RegisteredIsArchived
INVARIANT ReportedIsEntered
INVARIANT AtMostOnce
PROPERTY LedgerSpec
