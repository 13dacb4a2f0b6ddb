SPECIFICATION Spec
CONSTANTS
  BlockSize = 2
  QueueFactor = 1
  ContentLength = 3
  MaxChunk = 3
  MaxTrailers = 0
  Results = {"ok", "error"}
  Faults = {"late_timer"}
  MaxStarts = 2
  MaxFlushes = 1
INVARIANTS TypeOK Conservation StopJoinsThreads
PROPERTIES OutputInOrder
