SPECIFICATION Spec
CONSTANTS
  Key <- Keys
  Value = {1, 2}
  NULL = NULL
  Hash <- Sums
  InitialSize = 5
  MaxTable = 10
INVARIANTS
  TableInv
  EmptySlotLeft
PROPERTIES
  IsMap
  CallSeesItsEffect
