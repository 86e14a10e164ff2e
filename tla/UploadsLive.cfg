CONSTANTS
  Nobody = nobody
  Absent = absent
  Slot = {r1, r2}
  Id = {f1}
  Sizes = {0, 1}
  ChunkSize = 1
  MaxUpload = 1
  Retention = 0
  MaxClock = 1
  Ops <- AllOps
SPECIFICATION FairSpec
PROPERTIES Answered Expires
CHECK_DEADLOCK FALSE

