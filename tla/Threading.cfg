SPECIFICATION ThreadingSpec
CONSTANTS
  Threads = {t1, t2, t3}
  NoOwner = NoOwner
  HaveFutex = TRUE
  MaxCalls = 2
  TpThreads = {t1, t2}
  Initial = t1
  Caches = {c1, c2, c3}
  None = None
  EarlyThreads = FALSE
  MaxDepth = 3
  TpCalls = 3
  MaxLives = 2
INVARIANTS MutualExclusion NoForgottenSleeper CachesOwned ScopeUsesEmergency
PROPERTIES ImplementsLock EveryLockCallReturns CallsReturn
CHECK_DEADLOCK FALSE
