CONSTANTS
  Elements = {e1, e2, e3, e4, e5}
  Lists = {l1, l2}
  NULL = NULL
  Threads = {w1, w2, w3, w4, w5}
  Conds = {c1, c2}
  NoCond = NoCond
  NsPerUs = 3
  UsPerMs = 2
  MsPerS = 2
  MaxSec = 7
  UintModulus = 23
  MaxInt64 = 40
  MaxInt32 = 8
  MaxNs = 60
  MaxMs = 9
  MaxSteps = 4
SPECIFICATION Spec
SYMMETRY Symmetry
INVARIANTS
  RingsAreRuns
  TimesAreExact
PROPERTIES
  ImplementsLists
