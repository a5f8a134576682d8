SPECIFICATION MCSpec
CONSTANTS
  Backends = {b1, b2}
  Tids <- MCTids
  Places <- MCPlaces
  MaxFreeze = 1
  Committed = Committed
  NoXid = NoXid
  NoTuple = NoTuple
  NoTid = NoTid
  NoFss = NoFss
  Templates = {1}
  Fss = {}
  Modes = {"learn"}
  Feats = {0}
  HistorySize = 2
  WindowSize = 1
  HouseSize = 1
  CostsSize = 1
  MaxOwn = 1
  MaxDone = 2
  MaxLearn = 1
SYMMETRY Symmetry
INVARIANTS FreezeSticks
