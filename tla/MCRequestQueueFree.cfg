SPECIFICATION Spec
CONSTANTS
  Size = 3
  Threads = {t1}
  Blocks = {b1, b2, b3, b4, b5}
  NULL = NULL
  MaxLogged = 4
INVARIANT FreedOnce
CHECK_DEADLOCK FALSE
