SPECIFICATION Spec
CONSTANTS
  a = a
  b = b
  x = x
  y = y
  empty = empty
  full = full
  long = long
  Channels = {a, b}
  Addrs = {x, y}
  LocalAddrs = {x, y}
  MyAddr <- AtoB
  PeerAddr <- BtoA
  Texts = {full}
  Size <- MCSize
  BufferSize = 2
  FailingCalls = {}
  OversizeFails = FALSE
  MaxArrivals = 1
CHECK_DEADLOCK FALSE
INVARIANT CountedIsHandled
