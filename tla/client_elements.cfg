SPECIFICATION ElementSpec
CONSTANTS
  DecMaxPackets = 2
  MaxOthers = 3
  MaxDecStarts = 2
  CountModulus = 8
  Positions = {p0, p1}
  Widths = {w0, w1}
  Heights = {h0, h1}
  DefaultPosition = p0
  DefaultWidth = w0
  DefaultHeight = h0
  Unset = Unset
  MaxRects = 2
  MaxEvents = 4
  MaxExtStarts = 2
  PacketSize = 9
  BlockSize = 2
  k1 = k1
  k2 = k2
  Keys <- MCKeys
  Ivs <- MCIvs
  Cipher <- MCCipher
  NotSet = NotSet
  MaxAesStarts = 2
INVARIANTS
  DecReleasedOnce
  CountExplained
  RectangleKept
  VpcFollowsWindow
  DecryptInverts
PROPERTIES
  ExtStopReturns
CHECK_DEADLOCK FALSE
