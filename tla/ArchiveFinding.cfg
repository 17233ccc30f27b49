SPECIFICATION Spec
CONSTANTS
  LastUID = 2
  Parsable <- SecondMail
  Unparsable <- NoMail
  Malformed <- NoMail
  LastDay = 0
  GraceDays = 1
  Skew = 0
  Delay = 0
  RunSpan = 0
  FallbackDays = 0
  MaxEntries = 1
  Executes <- NoCommandLine
  Faults <- ExpungeOnly
INVARIANT RegisteredIsArchived
