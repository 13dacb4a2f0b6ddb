SPECIFICATION ServerSpec
CONSTANTS
  Layouts = {"bare", "middle", "end", "empty", "fail", "nocopy"}
  MaxPackets = 2
  MaxSessions = 2
  MaxResets = 1
  Sockets = {s1, s2}
  NoSocket = NoSocket
  HeadSize = 1
  TailSize = 1
  Sizes = {2}
  Modulus = 1
  MaxRequests = 1
  MaxNulls = 1
  MaxPlays = 1
INVARIANTS
  ReleasedOnce
  PacketsHaveSessions
  FramesIntact
PROPERTIES
  NewSocketKept
  SetHttpObjReturns
CHECK_DEADLOCK FALSE
