CONSTANTS
  t1 = t1
  t2 = t2
  Txids = {t1, t2}
  Coins = {c1, c2}
  Pruned = Pruned
  Nullifiers = {nf1}
  Blocks = {h1}
  Null = Null
  Absent = Absent
SYMMETRY TxidSymmetry
SPECIFICATION MCSpec
INVARIANTS
  TypeOK FlagsTellTheTruth BatchWriteAssertion CheckHolds OrphansAreIndexed
PROPERTIES
  ImplementsStore TipChangesAreExact OrphansFollowTheirParents
