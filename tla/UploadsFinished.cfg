CONSTANTS
  Nobody = nobody
  Absent = absent
  Slot = {r1, r2}
  Id = {f1}
  Sizes = {1}
  ChunkSize = 1
  MaxUpload = 1
  Retention = 1
  MaxClock = 0
  Ops <- UploadOps
SPECIFICATION Spec
PROPERTIES FinishedIsFound
CHECK_DEADLOCK FALSE

