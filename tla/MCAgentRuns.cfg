CONSTANTS
  r1 = r1  q1 = q1
  Run = {r1}
  RequestId = {q1}
  None = None
  MaxCalls = 2
  MaxDeltas = 1
  MaxReviews = 1
  MaxFaults = 2
SPECIFICATION FairSpec
INVARIANT AgentTypeOK
INVARIANT RunIsSettled
INVARIANT ProposalsAreTold
PROPERTY CancelIsFinal
PROPERTY RunsEnd
CHECK_DEADLOCK FALSE
