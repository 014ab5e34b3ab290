CONSTANTS
  G = G  A1 = A1  A2 = A2  B1 = B1
  p = p  q = q  r = r
  Spent = Spent
  Null = Null
  Block <- MCBlock
  Genesis = G
  Parent <- MCParent
  Height <- MCHeight
  Outpoint <- MCOutpoint
  Ins <- MCIns
  Outs <- MCOuts
  FileCap = 3
  PruneMode = FALSE
  Keep = 0
  MaxFile = 1
  MaxCrash = 2
SPECIFICATION FairSpec
INVARIANTS Consistent ViewExact HeadsIndexed UndoSynced FailsOnlyLate
PROPERTY Recovers
CHECK_DEADLOCK FALSE
