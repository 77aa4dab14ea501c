CONSTANTS
  p1 = p1  p2 = p2  k1 = k1  k2 = k2  k3 = k3  k4 = k4  empty = empty  c1 = c1  none = none
  None <- none
  Contents <- TwoContents
  EmptyZone <- empty
  Timeout = 1
  MaxFlourishes = 2
  Paths <- TwoPaths
  ZoneIds <- OneZone
  Keys <- FourKeys
SYMMETRY Symmetry
SPECIFICATION Spec
INVARIANTS TypeOK HomeSessionsFit UnsavedOnlyAfterError NoLockCycle OnlyTheWatcherStrands
PROPERTIES StoreSpec
CHECK_DEADLOCK FALSE
