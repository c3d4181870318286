SPECIFICATION Spec
CONSTANTS
  ConnObjs = {c1, c2}
  Entries = {e1, e2}
  NULL = NULL
  Garbage <- MCGarbage
  MaxClosed = 2
  MaxLag = 0
INVARIANT CleanedUpAtExit
CHECK_DEADLOCK FALSE
