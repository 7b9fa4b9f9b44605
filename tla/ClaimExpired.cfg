SPECIFICATION TxSpec
CONSTANTS
  Buttons = {b1}
  b1 = b1
  Validity = 2
  MaxHeight = 6
INVARIANTS
  ExpiredWasNotTaken
CHECK_DEADLOCK FALSE
