CONSTANTS
  Requests = {r1, r2}
  Keys = {k1, k2}
  MaxRetry = 3
  MaxFaults = 3
  None = None
SPECIFICATION Spec
SYMMETRY Symmetry
INVARIANTS OneJobPerKey NotFoundMeansDone
CHECK_DEADLOCK FALSE
