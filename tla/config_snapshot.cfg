SPECIFICATION Spec
CONSTANTS
  p1 = p1 p2 = p2 b1 = b1 b2 = b2
  same = same key = key
  k1 = k1 v1 = v1 v2 = v2 q1 = q1 q2 = q2 i1 = i1
  Procs <- MCProcs Builds <- MCBuilds Checksum <- MCChecksum
  Secrets <- MCSecrets
  Keys <- MCKeys Values <- MCValues Default = v1
  Requests <- MCRequests Idems <- MCIdems
  MaxPreviews = 2 MaxApplies = 2 MaxStops = 1 None = None
SYMMETRY MCSymmetry
CHECK_DEADLOCK FALSE
PROPERTIES SnapshotFollows
