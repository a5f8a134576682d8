SPECIFICATION MCSpec
CONSTANTS
  Backends = {b1, b2, b3}
  Tids <- MCTids
  Places <- MCPlaces
  MaxFreeze = 0
  Committed = Committed
  NoXid = NoXid
  NoTuple = NoTuple
  NoTid = NoTid
  NoFss = NoFss
  Templates = {1}
  Fss = {}
  Modes = {"learn"}
  Feats = {0}
  HistorySize = 2
  WindowSize = 1
  HouseSize = 1
  CostsSize = 1
  MaxOwn = 2
  MaxDone = 4
  MaxLearn = 1
SYMMETRY Symmetry
INVARIANTS OneVisibleRow TextWithQuery HistoryConsistent QueriesNotOvercounted
PROPERTIES TransactionalTables
