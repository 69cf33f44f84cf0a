SPECIFICATION Spec
CONSTANTS
  Goroutines = {g1, g2}
  Pools = {p1, p2}
  Sources = 2
  MaxIdle = 2
  NoPool = noPool
INVARIANTS CalmPoolStaysInSchema SoleConfigureMigratesAll
SYMMETRY PoolSymmetry
CHECK_DEADLOCK FALSE
