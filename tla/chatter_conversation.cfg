SPECIFICATION ChatterSpec
CONSTANTS
  a = a
  b = b
  x = x
  y = y
  blank = blank
  short = short
  long = long
  Channels = {a, b}
  Addrs = {x, y}
  LocalAddrs = {x, y}
  MyAddr <- AtoB
  PeerAddr <- BtoA
  Texts = {blank, long}
  Blank = blank
  Size <- MCSize
  BufferSize = 2
  FailingCalls = {"socket", "getsockname", "sendto"}
  OversizeFails = FALSE
  AppendOutcomes = {"shown", "lost"}
  MaxArrivals = 1
  MaxSaid = 1
CHECK_DEADLOCK FALSE
INVARIANT CrashesOnlyWhenClosed
PROPERTY IsConversation
