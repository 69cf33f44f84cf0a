SPECIFICATION Spec
CONSTANTS
  t1 = t1  t2 = t2
  a = a  b = b  c = c
  Callers = {g1, g2}
  Main = main
  Tenants = {t1, t2}
  Keys = {dflt, a, b, c}
  DefaultKey = dflt
  Shared = shared
  MaxFailures = 1
  Namings <- CollidingNames
INVARIANTS TypeOK RoutesToClaimant InitRegistersAll RegisteredIsServed PoolsHaveACause
SYMMETRY CallerSymmetry
CHECK_DEADLOCK FALSE
