SPECIFICATION FairSpec
CONSTANTS
  a = a
  b = b
  c = c
  d = d
  dot = dot
  dotdot = dotdot
  Names = {a, b, c, d}
  Dots <- DotPair
  InitDir <- ThreeEntries
  Size <- Sizes
  ResokSize = 1
  Counts = {3, 4, 20}
  MaxChanges = 3
  MaxLost = 1
  Faults = {"dot", "dotdot"}
INVARIANTS TypeOK MissedAtMostRemoved TwiceAtMostAdded
PROPERTIES ScanEnds
CHECK_DEADLOCK FALSE
