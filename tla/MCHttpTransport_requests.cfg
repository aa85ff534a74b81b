SPECIFICATION FairSpec
CONSTANTS
  r1 = r1
  r2 = r2
  r3 = r3
  Nobody = nobody
  Requests <- MCRequests
  Throttled <- TwoOfThree
  Retryable <- OneOfTwo
  MaxRetries = 2
  Backoff = 1
  Interval = 2
  RetryAfters <- MCRetryAfters
  MaxRetryAfter = 2
CHECK_DEADLOCK FALSE
INVARIANT TransportInv
INVARIANT HostIsHitByOne
INVARIANT AttemptsAreBounded
PROPERTY GapIsKept
PROPERTY EveryRequestEnds
