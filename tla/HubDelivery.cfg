CONSTANTS
  c1 = c1  c2 = c2  d1 = d1  d2 = d2  d3 = d3
  Bad = bad
  Conn = {c1, c2}
  Device = {d1, d2}
  DeviceOf <- PairOf
  RawLists <- ToAll
  SendBuffer = 2
  MaxRecipients = 2
  HistoryTTL = 1
  SendQuota <- TwiceFirst
  Flaky = {}
  MaxClock = 0
SPECIFICATION FairSpec
PROPERTIES EventuallyShown
CHECK_DEADLOCK FALSE
