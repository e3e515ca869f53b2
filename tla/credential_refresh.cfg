CONSTANTS
  r1 = r1 
  r2 = r2 
  k1 = k1
  s1 = s1
  s2 = s2
  t1 = t1
  t2 = t2
  t3 = t3
  MaxHandSaves = 1
  None = None
  Rows <- MCRows
  Keys <- MCKeys
  RefreshLockKey <- MCRefreshLockKey
  Tokens <- MCTokens
  Issuer <- MCIssuer
  Sessions <- MCSessions
SPECIFICATION Spec
SYMMETRY MCSymmetry
INVARIANTS OneRenewalPerAccount RowsRenewable PresentsCurrent
CHECK_DEADLOCK FALSE
