SPECIFICATION FairSpec
CONSTANTS
  Lines = {l1, l2, negative}
  Throws = {negative}
  Empty = empty
  MaxLines = 3
  Scripts <- MCScripts
  MaxDisplayed = 6
CHECK_DEADLOCK FALSE
INVARIANTS TypeOK AnswersInOrder StopsWhereItShould
PROPERTY SessionEnds
