CONSTANTS
  z1 = z1  z2 = z2  new = new  none = none
  New <- new
  None <- none
  Zones <- TwoZones
  KindOf <- SameKind
  Themes <- Both
  MaxLoad <- Load
SPECIFICATION FairSpec
INVARIANTS TypeOK ScreenFits RowsSettle TilesSettle
PROPERTIES LocksAreSeen
CHECK_DEADLOCK FALSE
