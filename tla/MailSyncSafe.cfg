SPECIFICATION Spec
CONSTANTS
  LastUID = 2
  Parsable <- TwoParsable
  Unparsable <- NoMail
  Malformed <- NoMail
  LastDay = 3
  GraceDays = 1
  Skew = 1
  Delay = 0
  RunSpan = 1
  FallbackDays = 2
  MaxEntries = 1
  Executes <- DryOnly
  Faults <- SafeFaults
INVARIANT TypeOK
INVARIANT NoMessageLost
INVARIANT IInv
