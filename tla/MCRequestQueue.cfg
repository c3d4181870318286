SPECIFICATION Spec
CONSTANTS
  Size = 3
  Threads = {t1, t2}
  Blocks = {b1, b2, b3, b4, b5}
  NULL = NULL
  MaxLogged = 6
INVARIANTS TypeOK BlocksOwned NoLeak SkippedAccounted Announced
PROPERTY ImplementsLog
SYMMETRY Symmetric
CHECK_DEADLOCK FALSE
