SPECIFICATION Spec
CONSTANTS
  web = web
  update = update
  t1 = t1
  t2 = t2
  Threads <- MCThreads
  Pids <- MCPids
  ProcessOf <- MCProcessOf
  Names <- MCNames
  NULL = NULL
  DEAD = DEAD
  MaxEntries = 3
INVARIANT EventReset
CHECK_DEADLOCK FALSE
