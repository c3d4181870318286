SPECIFICATION FairSpec
CONSTANTS
  Objs = {o1, o2}
  Otes = {a1, a2}
  Listens = {l1, l2}
  MaxSet = 2
  Handlers = {afd}
  CONNECT = CONNECT
  Events = {CONNECT, RECEIVE}
  Bugcheck = Bugcheck
  NULL = NULL
INVARIANTS TypeOK ListenOwned HandlersBacked ListenTruth HandlersRestored
PROPERTIES ImplementsHandlers FreeCompletes
CHECK_DEADLOCK FALSE
