CONSTANTS
  t1 = t1
  t2 = t2
  t3 = t3
  n1 = n1
  n2 = n2
  n3 = n3
  n4 = n4
  NoThread = NoThread
  NoNote = NoNote
  Threads = {t1, t2, t3}
  Notes = {n1, n2, n3, n4}
  Programs <- AdoptedProgram
  MaxTime = 1
SPECIFICATION FairSpec
PROPERTIES
  NotificationReachesChildren
CHECK_DEADLOCK FALSE
