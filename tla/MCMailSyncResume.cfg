CONSTANTS
  wrote = wrote  optOut = optOut  work = work  private = private  k1 = k1  k2 = k2
  Message = {wrote, optOut}
  Outbound = {wrote}
  OptOut = {optOut}
  Address = {work, private}
  Peer <- PeerOf
  Thread <- OneThread
  None = None
  Call = {k1}
  Provider = {"google"}
  Overlap = 0
  MaxClock = 2
  MaxStarts = 2
  MaxFaults = 1
SPECIFICATION Spec
PROPERTY OptOutBeforeSend
CHECK_DEADLOCK FALSE
