SPECIFICATION MCFairSpec
CONSTANTS
  Backends = {b1, b2}
  Tids <- MCTids
  Places <- MCPlaces
  MaxFreeze = 0
  Committed = Committed
  NoXid = NoXid
  NoTuple = NoTuple
  NoTid = NoTid
  NoFss = NoFss
  Templates = {1}
  Fss = {1, 2}
  Modes = {"forced"}
  Feats = {0}
  HistorySize = 1
  WindowSize = 1
  HouseSize = 2
  CostsSize = 1
  MaxOwn = 1
  MaxDone = 1
  MaxLearn = 1
PROPERTIES WritersProceed
