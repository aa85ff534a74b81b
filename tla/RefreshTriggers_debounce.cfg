SPECIFICATION Spec
CONSTANTS
  MaxRequests = 2
  MaxJobs = 0
  MaxRestarts = 0
  FetchOnStartup = TRUE
CHECK_DEADLOCK FALSE
PROPERTY PageRefreshIsDebounced
