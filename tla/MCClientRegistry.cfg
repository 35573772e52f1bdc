\* Two threads, two clients after or beside one another.
CONSTANTS
  t1 = t1
  t2 = t2
  x1 = x1
  x2 = x2
  None = None
  Threads = {t1, t2}
  Contexts = {x1, x2}
SPECIFICATION FairSpec
INVARIANTS PostsThroughReadyApi ContextOutlivesUse HandleMeansItsClient NoStaleRequests
PROPERTIES QuietOnceDestroyed DestroyReturns DestroyedIsFreed
CHECK_DEADLOCK FALSE
