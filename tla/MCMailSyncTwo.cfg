CONSTANTS
  wrote = wrote  optOut = optOut  work = work  private = private  k1 = k1  k2 = k2
  Message = {wrote, optOut}
  Outbound = {wrote}
  OptOut = {optOut}
  Address = {work, private}
  Peer <- PeerOf
  Thread <- OneThread
  None = None
  Call = {k1, k2}
  Provider = {"google"}
  Overlap = 1
  MaxClock = 3
  MaxStarts = 2
  MaxFaults = 0
SPECIFICATION Spec
INVARIANT CursorIsHonest
INVARIANT FreshScanIsCurrent
SYMMETRY Symmetric
CHECK_DEADLOCK FALSE
