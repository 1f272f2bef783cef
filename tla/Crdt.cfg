SPECIFICATION Spec
CONSTANTS
  None = None
  Device = {1, 2, 3}
  Request = {r1, r2}
  Value = {v1, v2}
  Element = {x}
  MaxTime = 2
  MaxOps = 4
SYMMETRY Symmetry
CHECK_DEADLOCK FALSE
INVARIANTS ExchangeAgrees StatesGrow
