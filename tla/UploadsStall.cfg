CONSTANTS
  Nobody = nobody
  Absent = absent
  Slot = {r1}
  Id = {f1, f2}
  Sizes = {0, 1}
  ChunkSize = 1
  MaxUpload = 1
  Retention = 0
  MaxClock = 1
  Ops <- CleanupOps
SPECIFICATION ServerFairSpec
PROPERTIES Expires
CHECK_DEADLOCK FALSE

