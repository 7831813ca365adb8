SPECIFICATION FairChatterSpec
CONSTANTS
  a = a
  b = b
  x = x
  y = y
  blank = blank
  short = short
  long = long
  Channels = {a}
  Addrs = {x}
  LocalAddrs = {x}
  MyAddr <- AtoA
  PeerAddr <- AtoA
  Texts = {blank, short, long}
  Blank = blank
  Size <- MCSize
  BufferSize = 2
  FailingCalls = {"socket", "sendto"}
  OversizeFails = FALSE
  AppendOutcomes = {"shown"}
  MaxArrivals = 3
  MaxSaid = 2
CHECK_DEADLOCK FALSE
INVARIANTS ChatterTypeOK HeardIsWhatArrived SaidIsTriedOnce
PROPERTIES WindowCloses QueuedIsShown
