SPECIFICATION FairSpec
CONSTANTS
  LastUID = 2
  Parsable <- TwoParsable
  Unparsable <- NoMail
  Malformed <- NoMail
  LastDay = 3
  GraceDays = 1
  Skew = 0
  Delay = 1
  RunSpan = 1
  FallbackDays = 3
  MaxEntries = 1
  Executes <- DryOnly
  Faults <- LiveFaults
PROPERTY EventuallyEntered
PROPERTY BoundedRewind
