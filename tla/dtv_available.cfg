SPECIFICATION FairSpec
CONSTANTS
  BufferSize = 6
  BlockSize = 2
  PacketSize = 1
  Services = {s1}
  Pids = {p1}
  Invalid = invalid
  Blank = blank
  Spurious = FALSE
  MaxStarts = 1
  MaxSpace = 12
PROPERTIES TakesOnlyAvailable
