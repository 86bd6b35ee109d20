SPECIFICATION Spec
CHECK_DEADLOCK FALSE
CONSTANTS
  Key <- Keys
  Hash <- Sums
  Char <- Chars
  Blank = " "
  Line <- Lines
  Argument <- Arguments
  HomeDir = ""
  Tree <- Files
  NULL = NULL
  MaxInputs = 2
  MaxDepth = 4
PROPERTIES TokensReplaced
