SPECIFICATION RegistryFairSpec
CONSTANTS
  Goroutines = {g1, g2}
  Types = {A, B}
  Components = {c1, c2}
  Absent = absent
  Pending = pending
  Nobody = nobody
PROPERTIES SingletonUntilClear Implements CallsReturn
