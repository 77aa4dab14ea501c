CONSTANTS
  z1 = z1  z2 = z2  new = new  none = none
  New <- new
  None <- none
  Zones <- TwoZones
  KindOf <- SameKind
  Themes <- Instant
  MaxLoad <- Load
SPECIFICATION Spec
INVARIANT RowsStayInTheirZone
CHECK_DEADLOCK FALSE
