CONSTANTS
  Reqs = {r1}
  Conns = {c1, c2}
  Addrs = {a1, a2}
  Ctxs = {x1, x2}
  Freed = Freed
  Zero = Zero
  NoOne = NoOne
  Hosts = {h1, h2}
  Guis = {g1, g2}
  MaxCopies = 2
  Closed = Closed
SPECIFICATION MCSpec
CONSTRAINT Bounded
SYMMETRY Symmetry
CHECK_DEADLOCK FALSE
INVARIANTS DTypeOK HandlersReady UnloadTouchesLive NothingLeft ClientTold DutiesDone LinkTruth EventHitsOwn RecordedAddress ListsAgree
