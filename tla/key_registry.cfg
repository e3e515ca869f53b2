CONSTANTS
  a1 = a1
  a2 = a2
  g1 = g1
  g2 = g2
  r1 = r1
  r2 = r2
  None = None
  Accounts <- MCAccounts
  Groups <- MCGroups
  Refs <- MCRefs
  ListsSecrets <- MCListsSecrets
  ImportBudgets = {1}
  MaxCreates = 2
  MaxSecrets = 2
  MaxBatches = 2
SPECIFICATION Spec
SYMMETRY MCSymmetry
INVARIANTS OneAutoKeyPerGroup AtMostOneOrphan CleanMeansRegistered
CHECK_DEADLOCK FALSE
