CONSTANTS
  c1 = c1
  c2 = c2
  catalog = catalog
  Channels = {c1, c2}
  Capabilities = {catalog}
  Interval <- MCInterval
  BackoffBase = 5
  BackoffMax = 5
  AuthFloor = 6
  RetryAfters = {0, 7}
  IdleDelay = 1
  MaxConcurrent = 1
  FailureCap = 1
  MaxDelay = 7
  MaxRestarts = 1
SPECIFICATION FairSpec
INVARIANTS AskedOnlyWhenDue NoOversleep

PROPERTIES EveryCapabilityServed
