SPECIFICATION Spec
CONSTANTS
  None = None
  Request = {r1, r2, r3, r4}
  Name = {n1, n2}
  Value = {v1, v2}
  MaxFaults = 2
SYMMETRY Symmetry
CHECK_DEADLOCK FALSE
INVARIANTS KeysAreKnown SerialUseKeepsOneKey
PROPERTIES ActsAsVault
