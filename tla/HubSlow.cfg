CONSTANTS
  c1 = c1  c2 = c2  d1 = d1  d2 = d2  d3 = d3
  Bad = bad
  Conn = {c1, c2}
  Device = {d1, d2}
  DeviceOf <- PairOf
  RawLists <- ToAll
  SendBuffer = 2
  MaxRecipients = 2
  HistoryTTL = 1
  SendQuota <- OnceFirst
  Flaky = {c2}
  MaxClock = 0
SPECIFICATION Spec
INVARIANTS TypeOK NoPanic LockInv Conserved AccurateArrived NothingLeftBehind
CHECK_DEADLOCK FALSE
