SPECIFICATION FairSpec
CONSTANTS
  BlockSize = 2
  QueueFactor = 1
  ContentLength = 4
  MaxChunk = 3
  MaxTrailers = 0
  Results = {"ok"}
  Faults = {}
  MaxStarts = 1
  MaxFlushes = 0
PROPERTIES UnlockReturns
