SPECIFICATION FairSpec
CONSTANTS
  web = web
  update = update
  t1 = t1
  t2 = t2
  Threads <- MCThreads
  Pids <- MCPids
  ProcessOf <- MCProcessOf
  Names <- MCNames
  NULL = NULL
  DEAD = DEAD
  MaxEntries = 3
INVARIANTS TypeOK EventsOwned MissesExplained
PROPERTIES NameStays Returns
CHECK_DEADLOCK FALSE
