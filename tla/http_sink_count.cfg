SPECIFICATION ServerSpec
CONSTANTS
  Layouts = {"middle", "nocopy"}
  MaxPackets = 1
  MaxSessions = 1
  MaxResets = 0
  Sockets = {s1}
  NoSocket = NoSocket
  HeadSize = 1
  TailSize = 1
  Sizes = {2}
  Modulus = 256
  MaxRequests = 1
  MaxNulls = 0
  MaxPlays = 1
INVARIANT
  SentSizeIsWritten
CHECK_DEADLOCK FALSE
