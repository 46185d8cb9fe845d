SPECIFICATION Spec
CONSTANTS
  Threads = {t1, t2}
  Initial = t1
  Caches = {c1, c2, c3}
  None = None
  EarlyThreads = TRUE
  MaxDepth = 2
  MaxCalls = 2
  MaxLives = 1
INVARIANT InitializedOnce
CHECK_DEADLOCK FALSE
