SPECIFICATION FairSpec
CONSTANTS
  Requests = {r1}
  Tenants = {t1, t2}
  NoTenant = none
INVARIANTS PanicNeverCommits SharedFate ReturnedIsDurable NoTxOutlivesWrapHandler
PROPERTIES HandlerStartsWithOneTenant TxEnds EveryRequestIsAnswered
CHECK_DEADLOCK FALSE
