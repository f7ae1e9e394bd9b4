CONSTANTS
  t1 = t1
  t2 = t2
  t3 = t3
  c1 = c1
  Threads = {t1, t2}
  Conds = {c1}
  NoCond = NoCond
  LONG_WAIT_THRESHOLD = 1
  SemMax = 1
  MaxCalls = 0
  Menu <- AllCalls
  Programs <- FairPrograms
SPECIFICATION CvFairSpec
PROPERTIES
  ImplementsRWLock
  TimeoutTakesNoSignal
  MuCallsReturn
  MuWaitsEnd
  CvWaitsEnd
