SPECIFICATION CalcSpec
CONSTANTS
  Chars <- MCChars
  Delimiters <- MCDelimiters
  DigitValue <- MCDigitValue
  Blanks = {" "}
  NPos = 15
  LongMax = 511
  IntMax = 63
  Saturates = FALSE
  MaxNumber = 11
  MaxLen = 3
  Strings <- MCStrings
CHECK_DEADLOCK FALSE
INVARIANT BiggerIgnored
