SPECIFICATION Spec
CONSTANTS
  Me = Me
  Nobody = Nobody
  Peers = {p}
  Rosters = {{Me, p}}
  PinRequired = TRUE
  MaxSock = 2
  MaxAsk = 1
  MaxStrays = 1
  MaxUpsets = 3
CHECK_DEADLOCK FALSE
INVARIANTS TypeOK OneLiveSocket SelfIsNoPeer
PROPERTIES NoSelfKick BackOnline
