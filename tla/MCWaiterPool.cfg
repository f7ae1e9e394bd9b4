CONSTANTS
  Threads = {t1, t2}
  Waiters = {w1, w2, w3, w4, w5}
  None = None
  SpinLimit = 1
  Programs <- PoolPrograms
SPECIFICATION FairSpec
INVARIANTS
  PoolInv
  LatePostsAreHarmless
PROPERTIES
  ExitingThreadEnds
