SPECIFICATION FairSpec
CONSTANTS
  a1 = a1
  a2 = a2
  a3 = a3
  c1 = c1
  c2 = c2
  i1 = i1
  i2 = i2
  Instances <- MCInstances
  Accounts <- MCAccounts
  Channels <- MCChannels
  ChannelOf <- MCChannelOf
  Inactive <- MCInactive
  TargetLists <- MCTargetLists
  MaxTargets = 3
  ResolveLimit = 1
  MaxAttempts = 3
  History = 1
  MaxJobs = 2
  JobBound <- MCJobBound
  MaxRestarts = 1
INVARIANTS
  OneAutomation
  BatchAccounted
  SiteBudget
  RetryRounds
PROPERTIES
  ImplementsLedger
  BatchEnds
  LockFreed
