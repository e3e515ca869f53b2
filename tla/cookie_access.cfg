CONSTANTS
  c1 = c1
  c2 = c2
  u1 = u1
  u2 = u2
  h1 = h1
  h2 = h2
  b1 = b1
  b2 = b2
  None = None
  Cookies <- MCCookies
  Users <- MCUsers
  Headers <- MCHeaders
  Sites <- MCSites
  Default = h1
  Owner <- MCOwner
  Reads <- MCReads
  MaxRev = 4
SPECIFICATION Spec
SYMMETRY MCSymmetry
INVARIANTS ReadyIsProven ExpiredIsRefused DataIsOwn
PROPERTIES BindsOwner
CHECK_DEADLOCK FALSE
