CONSTANTS
  Threads = {w1, w2}
  Posters = {p1, p2}
  MaxPosts = 2
  NsPerUs = 2
  UsPerMs = 2
  MsPerS = 2
  MaxSec = 7
  UintModulus = 15
  MaxInt64 = 99
  MaxInt32 = 15
  t1 = t1
  t2 = t2
  t3 = t3
  Callers = {t1, t2}
  Settings <- MCSettings
  Deadlines = {0, 3, 7, 18}
  MaxTime = 20
  CapS = 1
  CapMs = 1
  MaxCount = 2
  o1 = o1
  o2 = o2
  OnceThreads = {t1, t2, t3}
  Onces = {o1, o2}
  NoOnce = NoOnce
  NoThread = NoThread
  Inner <- OneInsideTheOther
  CalledBy <- MCCalledBy
SPECIFICATION MCSpec
INVARIANTS
  NoMissedPost
  OnceInv
PROPERTIES
  ImplementsSemaphore
  TimedImplementsSemaphore
  TimeoutIsTrue
  SemCallsReturn
  ReturnsAfterRun
  OnceCallReturns
