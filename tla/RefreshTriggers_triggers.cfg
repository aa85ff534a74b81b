SPECIFICATION FairSpec
CONSTANTS
  MaxRequests = 3
  MaxJobs = 1
  MaxRestarts = 1
  FetchOnStartup = TRUE
CHECK_DEADLOCK FALSE
INVARIANT LoopConsistent
INVARIANT RunsNeverOverlap
PROPERTY NoOvertaking
PROPERTY AcceptedRefreshRuns
