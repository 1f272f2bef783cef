SPECIFICATION Spec
CONSTANTS
  None = None
  Request = {r1, r2, r3, r4}
  State = {s1, s2}
  MaxFlows = 2
  MaxGrants = 3
  MaxId = 2
  MaxFaults = 1
SYMMETRY Symmetry
CHECK_DEADLOCK FALSE
INVARIANTS TokensStayUsable CodesKeepTheirVerifier
