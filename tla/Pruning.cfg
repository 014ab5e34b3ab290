CONSTANTS
  G = G  A1 = A1  A2 = A2  A3 = A3
  p = p  q = q
  Spent = Spent
  Null = Null
  Block <- MCBlock
  Genesis = G
  Parent <- MCParent
  Height <- MCHeight
  Outpoint <- MCOutpoint
  Ins <- MCIns
  Outs <- MCOuts
  FileCap = 2
  PruneMode = TRUE
  Keep = 2
  MaxCrash = 1
  MaxFile = 2
SPECIFICATION Spec
INVARIANT IndexBacked
CHECK_DEADLOCK FALSE
