CONSTANTS
  m1 = m1  m2 = m2  p1 = p1  s1 = s1  s2 = s2  f1 = f1  f2 = f2  k1 = k1  k2 = k2
  Message = {m1}
  Person = {p1}
  Recipient <- OneDraft
  Subject = {s1}
  Footer = {f1}
  Call = {k1}
  None = None
  MaxInterventions = 2
  MaxCrashes = 1
  MaxQueue = 1
SPECIFICATION FairSpec
PROPERTY CommandsEnd
CHECK_DEADLOCK FALSE
