SPECIFICATION Spec
CONSTANTS
  a = a
  b = b
  x = x
  y = y
  empty = empty
  full = full
  long = long
  Channels = {a, b}
  Addrs = {x, y}
  LocalAddrs = {x, y}
  MyAddr <- AtoB
  PeerAddr <- BtoA
  Texts = {full, long}
  Size <- MCSize
  BufferSize = 2
  FailingCalls = {"socket", "getsockname", "sendto"}
  OversizeFails = TRUE
  MaxArrivals = 2
CHECK_DEADLOCK FALSE
INVARIANTS TypeOK CountIsExact HandledOnce
PROPERTIES NothingDroppedOnceHandlerSet QuietWhenGone StopsWithinATurn IsInbox
