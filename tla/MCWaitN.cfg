CONSTANTS
  t1 = t1
  t2 = t2
  t3 = t3
  c1 = c1
  c2 = c2
  v1 = v1
  NoThread = NoThread
  Threads = {t1, t2, t3}
  Counters = {c1, c2}
  Cvs = {v1}
  Programs <- WaitPrograms
  Width = 2
  MaxAdds = 2
  SemMax = 2
SPECIFICATION FairSpec
PROPERTIES
  
  CountersAreExact
  
