CONSTANTS
  Commitments = {c1, c2}
  EmptyRoot = EmptyRoot
  zResetHeight = 2
  Null = Null
  MaxHeight = 4
  Parts = {"anchors", "files"}
SPECIFICATION MCSpec
INVARIANTS
  CurrentAnchorsAccepted AcceptedAnchorsAreCurrent TreeMatchesRoot
  ReadsBack IndexedDataIsDurable RecentBlocksKept CleanRestartVerifies
