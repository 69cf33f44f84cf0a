CONSTANTS
  Subs = {s1, s2}
  Msgs = {m1, m2}
  RedisSubs = {s1}
  Attempts = 2
  MaxFaults = 3
SPECIFICATION Spec
INVARIANTS TypeOK TakenInOrder AckedReachesConnected CountsAreExact
PROPERTIES Implements StaysSubscribed
CHECK_DEADLOCK FALSE
