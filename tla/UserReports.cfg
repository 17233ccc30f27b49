SPECIFICATION FairReportSpec
CONSTANTS
  ana = ana
  bob = bob
  Email <- MCEmail
  Registered <- MCRegistered
  Pages <- MCPages
  Candidates <- MCCandidates
  MaxVersion = 2
  Deadlines <- MCDeadlines
  Faults <- MCFaults
  TextOf <- MCTextOf
  Limit = 153
INVARIANT LookupsAgree
INVARIANT RegisteredIsFound
INVARIANT ReportIsTheOwners
INVARIANT PlainReportFits
PROPERTY EveryUserIsTold
