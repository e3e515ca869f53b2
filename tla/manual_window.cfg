CONSTANTS
  w1 = w1
  r1 = r1
  r2 = r2
  i1 = i1
  c1 = c1
  c2 = c2
  Channels = {c1}
  Workers = {w1}
  Requests = {r1}
  Imports = {}
  PoolSize = 3
  MinInterval = 1
  Free = Free
  None = None
  Others = Others
  MaxCrashes = 1
SPECIFICATION FairSpec
PROPERTIES WindowArmed
