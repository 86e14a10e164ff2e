SPECIFICATION Spec
CONSTANTS
  MaxLoops = 2
  File = {f}
  MaxId = 2
  Length = 2
  Chunk = 1
  MaxRetries = 1
  Limit = 1
  Target = {Everyone, p}
  Everyone = Everyone
  MaxUpsets = 1
CHECK_DEADLOCK FALSE
INVARIANTS TypeOK AnnouncedRight RunningListed ResumableAfterReload FailsForReason
PROPERTIES EachFileEnds UsesService
