CONSTANTS
  wrote = wrote  optOut = optOut  work = work  private = private  k1 = k1  k2 = k2
  Message = {wrote, optOut}
  Outbound = {wrote}
  OptOut = {optOut}
  Address = {work, private}
  Peer <- PeerOf
  Thread <- OneThread
  None = None
  Call = {k1}
  Provider = {"microsoft"}
  Overlap = 0
  MaxClock = 2
  MaxStarts = 2
  MaxFaults = 1
SPECIFICATION FairSpec
INVARIANT MailTypeOK
INVARIANT MailInvariant
INVARIANT CursorIsHonest
INVARIANT FreshScanIsCurrent
PROPERTY CommandEnds
CHECK_DEADLOCK FALSE
