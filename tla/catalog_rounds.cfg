CONSTANTS
  a1 = a1
  a2 = a2
  m1 = m1
  m2 = m2
  c1 = c1
  c2 = c2
  k1 = k1
  k2 = k2
  None = None
  Accounts <- MCAccounts
  Models <- MCModels
  Adapters <- MCAdapters
  EmptyIsError = TRUE
  MissingRounds = 2
  Selections <- MCSelections
  MaxSeq = 3
  Channel = c1
  OtherRows <- MCOtherRows
  Described <- MCDescribed
  NameOrder <- MCNameOrder
  Keys <- MCKeys
  InGroup = {k1}
  Filters <- MCFilters
  PageSize = 1
SPECIFICATION Spec
SYMMETRY MCSymmetry
INVARIANTS NeverWronglyDelisted FacetsAnnounceTotals
PROPERTIES OkIsComplete GroupShrinksKnowingly
CHECK_DEADLOCK FALSE
