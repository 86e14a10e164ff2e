CONSTANTS
  Nobody = nobody
  Absent = absent
  Slot = {r1, r2}
  Id = {f1}
  Sizes = {0, 3}
  ChunkSize = 2
  MaxUpload = 3
  Retention = 0
  MaxClock = 1
  Ops <- AllOps
SPECIFICATION Spec
INVARIANTS TypeOK PrefixIntegrity AckDurable FileComplete DiskOwned
PROPERTIES PurgeSparesActive ImplementsService
CHECK_DEADLOCK FALSE

