SPECIFICATION Spec
CONSTANTS
  Order = {o1, o2, o3, o4}
  NoOrder = NoOrder
  Grain = 2
  Mid = {35001}
  Spread = {0, 39}
  RawQty = {0, 2}
  ClockSteps = {1}
SYMMETRY Symmetry
CHECK_DEADLOCK FALSE
INVARIANTS
  TypeOK
  NotCrossed
  Agree
  NoFalsePriorityError
PROPERTIES
  PyKeepsBook
  CppKeepsBook
