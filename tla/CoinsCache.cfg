CONSTANTS
  o1 = o1
  o2 = o2
  c1 = c1
  c2 = c2
  dust = dust
  Outpoint <- MCOutpoint
  Coin <- MCCoin
  Unspendable <- MCUnspendable
  MemUsage <- MCMemUsage
  Spent = Spent
  Absent = Absent
  h1 = h1
  h2 = h2
  Hash <- MCHash
  Null = Null
SYMMETRY Symm
SPECIFICATION Spec
INVARIANTS NoLogicError Coherent UsageExact
PROPERTY StackSpec
