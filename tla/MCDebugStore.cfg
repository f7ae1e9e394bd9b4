CONSTANTS
  t1 = t1
  t2 = t2
  t3 = t3
  c1 = c1
  Threads = {t1, t2, t3}
  Conds = {c1}
  NoCond = NoCond
  LONG_WAIT_THRESHOLD = 1
  SemMax = 1
  MaxCalls = 2
  Menu <- AllCalls
  Programs <- PrintedMuPrograms
SPECIFICATION DebugMuSpec
INVARIANT DebugKeepsExclusion
CHECK_DEADLOCK FALSE
