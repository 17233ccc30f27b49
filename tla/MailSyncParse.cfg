SPECIFICATION RepeatSpec
CONSTANTS
  LastUID = 4
  Parsable <- SecondMail
  Unparsable <- OuterMails
  Malformed <- FourthMail
  LastDay = 1
  GraceDays = 1
  Skew = 0
  Delay = 0
  RunSpan = 1
  FallbackDays = 1
  MaxEntries = 2
  Executes <- DryOnly
  Faults <- ParseFaults
INVARIANT ErrorBoxIsUnparsable
INVARIANT RepeatsHaveCause
PROPERTY DryRunLeavesNoTrace
