SPECIFICATION CompletingSpec
CONSTANTS
  BlockSize = 2
  QueueFactor = 1
  ContentLength = 2
  MaxChunk = 2
  MaxTrailers = 0
  Results = {"ok"}
  Faults = {}
  MaxStarts = 1
  MaxFlushes = 0
PROPERTIES EndWakesCreate
