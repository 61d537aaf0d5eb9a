CONSTANTS
  m1 = m1  m2 = m2  p1 = p1  s1 = s1  s2 = s2  f1 = f1  f2 = f2  k1 = k1  k2 = k2
  Message = {m1, m2}
  Person = {p1}
  Recipient <- TwoDrafts
  Subject = {s1}
  Footer = {f1}
  Call = {k1, k2}
  None = None
  MaxInterventions = 1
  MaxCrashes = 1
  MaxQueue = 1
SPECIFICATION Spec
INVARIANT AtMostOncePerPerson
INVARIANT WriteAhead
PROPERTY LedgerAdvances
PROPERTY KeepsPromise
SYMMETRY SymmetricDrafts
CHECK_DEADLOCK FALSE
