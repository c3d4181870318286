SPECIFICATION FairSpec
CONSTANTS
  ConnObjs = {c1}
  Entries = {e1, e2}
  NULL = NULL
  Garbage <- MCGarbage
  MaxClosed = 2
  MaxLag = 1
INVARIANTS TypeOK NoDangling NoOrphan SweepArmed
PROPERTIES ClosedLingers ImplementsTable EventuallySwept UnloadCompletes
CHECK_DEADLOCK FALSE
