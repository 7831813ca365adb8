SPECIFICATION FairSpec
CONSTANTS
  a = a
  b = b
  x = x
  y = y
  empty = empty
  full = full
  long = long
  Channels = {a, b}
  Addrs = {x}
  LocalAddrs = {x}
  MyAddr <- BothX
  PeerAddr <- BothX
  Texts = {empty, long}
  Size <- MCSize
  BufferSize = 2
  FailingCalls = {}
  OversizeFails = FALSE
  MaxArrivals = 2
CHECK_DEADLOCK FALSE
INVARIANT ReinitialiseIsSafe
PROPERTIES DestructorReturns QueuedIsHandled AddressHandedOver
