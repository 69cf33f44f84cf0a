SPECIFICATION FairSpec
CONSTANTS
  A = A  B = B  C = C
  Names = {A, B, C}
  NoName = noName
  Worlds <- MCWorlds
  Lists <- MCLists
  Providers = 2
INVARIANTS TypeOK SucceedsIffOrderable HooksFollowDependencies AllOrNoInit
PROPERTY InitEnds
CHECK_DEADLOCK FALSE
