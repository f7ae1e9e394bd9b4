CONSTANTS
  Threads = {t1, t2, t3}
  NoThread = NoThread
  MaxMade = 2
  KeyThreads = {t4}
  Values = {v1}
  Destructors = {d1, d2}
  Nil = Nil
  kMaxKeys = 3
  MaxCreates = 3
  KeyPrograms <- MCKeyPrograms
  NsPerUs = 2
  UsPerMs = 2
  MsPerS = 2
  MaxSec = 7
  UintModulus = 15
  MaxInt64 = 99
  MaxInt32 = 15
  SleepPlatforms = {"timespec", "int32", "win32", "c++11"}
  Delays = {0, 1, 9, 22}
  MaxTime = 30
  LastStart = 1
  MaxSleeps = 3
  ClockTick = 2
  PieceS = 1
  MaxLen = 10
  PieceLens = {1, 2, 3, 5}
  MaxWaiters = 2
  Radix = 4
  MaxNumber = 20
SPECIFICATION Spec
SYMMETRY ThreadSymmetry
CHECK_DEADLOCK FALSE
INVARIANTS
  PlainAccessesAreOrdered
  SleptEnough
  TextIsRight
PROPERTIES
  KeysKeepValues
