CONSTANTS
  MaxAttempts = 10
  NetworkRetries = 4
  ServerRetries = 3
  Max = 2
  Window = 2
  MaxTime = 6
  MaxCalls = 5
SPECIFICATION FairSpec
INVARIANTS RequestTypeOK OutlastsFailures RateKept
PROPERTIES ImplementsCall CallReturns
CHECK_DEADLOCK FALSE
