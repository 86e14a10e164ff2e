CONSTANTS
  c1 = c1  c2 = c2  d1 = d1  d2 = d2  d3 = d3
  Bad = bad
  Conn = {c1, c2}
  Device = {d1, d2, d3}
  DeviceOf <- PairOf
  RawLists <- MixedTo
  SendBuffer = 8
  MaxRecipients = 1
  HistoryTTL = 1
  SendQuota <- TwiceFirst
  Flaky = {}
  MaxClock = 2
SPECIFICATION Spec
INVARIANTS SenderOrder LateJoinerSeesFresh IntentPrivacy PrivacyInv
CHECK_DEADLOCK FALSE
