CONSTANTS
  Commitments = {c1, c2}
  EmptyRoot = EmptyRoot
  zResetHeight = 2
  Null = Null
  MaxHeight = 4
  Parts = {"anchors"}
SPECIFICATION MCSpec
INVARIANT TipAnchorAlwaysAvailable
