SPECIFICATION Spec
CONSTANTS
  None = None
  Operations <- TwoOperations
  MaxPolls = 2
  LogLimit = 2
  MaxAttempts = 2
  MaxRuns = 3
  MaxRequests = 1
  MaxFaults = 2
INVARIANT TypeOK
INVARIANT NothingMadeTwice
INVARIANT ReadyMeansSuccess
INVARIANT ReportComplete
INVARIANT VerdictStands
PROPERTY LastAttemptReported
PROPERTY RunEnds
CHECK_DEADLOCK FALSE
