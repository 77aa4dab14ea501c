CONSTANTS
  a = a  b = b  s1 = s1  s2 = s2  s3 = s3
  Empty = Empty
  User = User
  Nobody = Nobody
  Delay = 2
  Window = 1
  MaxFailures = 2
  Texts <- TwoTexts
  Slots <- ThreeSlots
SPECIFICATION FairSpec
INVARIANTS TypeOK SomeoneClears RecentIsExact
PROPERTIES ClobbersOnlySame SecretsLeave
