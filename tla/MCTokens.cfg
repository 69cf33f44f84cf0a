CONSTANTS
  i1 = i1
  i2 = i2
  rsa = rsa
  s1 = s1
  s2 = s2
  None = None
  Instances = {i1, i2}
  Requests = {r1}
  Permissions = {p1, p2}
  Configs <- SomeConfigs
  Skew <- Ahead
  Ttl = 1
  MaxTime = 2
  MaxBoots = 2
  MaxTokens = 2
SPECIFICATION Spec
SYMMETRY Symmetry
INVARIANTS GoodWhereMade ServedIfPermitted
CHECK_DEADLOCK FALSE
