SPECIFICATION Spec
CONSTANTS
  Key <- Keys
  Value = {1}
  NULL = NULL
  Hash <- Sums
  InitialSize = 6
  MaxTable = 6
PROPERTIES
  DeleteKeepsOthers
