CONSTANTS
  r1 = r1
  r2 = r2
  u1 = u1
  s1 = s1
  s2 = s2
  a1 = a1
  a2 = a2
  t1 = t1
  Nothing = Nothing
  Replicas <- MCReplicas
  Uploads <- MCUploads
  Sites <- MCSites
  HubAccounts <- MCAccounts
  SiteOf <- MCSiteOf
  CookieAccounts <- MCCookie
  Tokens <- MCTokens
  MaxEvents = 1
SPECIFICATION HubSpec
SYMMETRY MCSymmetry
INVARIANTS HubTypeOK RecordTellsTruth OneRun OneRowPerCookieAccount HubIsCollectable
PROPERTIES OnlyAbsenceDisables
CHECK_DEADLOCK FALSE
