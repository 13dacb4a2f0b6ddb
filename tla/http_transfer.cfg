SPECIFICATION Spec
CONSTANTS
  BlockSize = 2
  QueueFactor = 1
  ContentLength = 6
  MaxChunk = 5
  MaxTrailers = 1
  Results = {"ok", "error", "network", "closed"}
  Faults = {"curl_init"}
  MaxStarts = 1
  MaxFlushes = 0
INVARIANTS QueueAccounting NoWakeupLost InStreamOrder EosLossBounded
PROPERTIES OutputInOrder GapIsLast QueueSettled StreamOfBytes
