SPECIFICATION EndpointSpec
CONSTANTS
  Chars = {"1", "8", "-", ":"}
  Strings <- MCStrings
  Delimiters = {{":"}}
  DigitValue <- MCDigitValue
  Blanks = {" "}
  MaxLen = 5
  NPos = 7
  LongMax = 127
  IntMax = 15
  UShortMax = 7
  Saturates = FALSE
CHECK_DEADLOCK FALSE
INVARIANTS EndpointTypeOK IpIsRead PortIsRead
