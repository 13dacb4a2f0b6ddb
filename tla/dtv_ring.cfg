SPECIFICATION FairSpec
CONSTANTS
  BufferSize = 6
  BlockSize = 2
  PacketSize = 1
  Services = {s1}
  Pids = {p1, p2}
  Invalid = invalid
  Blank = blank
  Spurious = TRUE
  MaxStarts = 2
  MaxSpace = 12
INVARIANTS TypeOK RingConsistent PatOwed
PROPERTIES TakesOnlyFresh PatCatchesUp
