CONSTANTS
  a1 = a1  a2 = a2  t1 = t1  q1 = q1  k1 = k1  k2 = k2
  Account = {a1, a2}
  PageToken = {t1}
  RequestId = {q1}
  Call = {k1, k2}
  None = None
  MaxAttempts = 3
  MaxStarts = 2
  MaxFaults = 1
SPECIFICATION FairSpec
INVARIANT AccountTypeOK
INVARIANT LastWordLasts
INVARIANT MeetingReportIsTrue
INVARIANT ReadersCanBeCancelled
PROPERTY AccountCommandsEnd
CHECK_DEADLOCK FALSE
