CONSTANTS
  Writer = {w1, w2}
  Names = {n1, n2}
  MaxLogSize = 1
  BufferSize = 1
  MaxEntries = 5
SPECIFICATION Spec
INVARIANTS TypeOK LoggerInv ArchivesKept
PROPERTIES LogIsKept QueuedIsWritten StopReturns
CHECK_DEADLOCK FALSE
