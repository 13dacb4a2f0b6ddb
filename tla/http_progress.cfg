SPECIFICATION FairSpec
CONSTANTS
  BlockSize = 2
  QueueFactor = 1
  ContentLength = 5
  MaxChunk = 2
  MaxTrailers = 0
  Results = {"ok"}
  Faults = {}
  MaxStarts = 1
  MaxFlushes = 0
PROPERTIES UnlockReturnsUnlessMissed TimerFlushesPartial StopReturns RoomIsSignalled
